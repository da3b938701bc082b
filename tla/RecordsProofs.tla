-------------------------------- MODULE RecordsProofs --------------------------------
(* Proofs about the records of a company: the stock, the master data, the    *)
(* orders a contract covers, the policies that date them and the documents   *)
(* that are printed for them, and the counts that stop a login. Each part    *)
(* starts with its inductive invariant and ends with its theorem. What a fold*)
(* computes is proved from the recursion it is defined by: of the finite sets*)
(* where a statement fails, take a least one.                                *)
EXTENDS LoginLimiter, Inventory, OrderIntake, Records, OrderDocuments,
        FiniteSetTheorems, SequenceTheorems, TLAPS

------------------------------------------------------------------------------
(* Finite sums *)

\* Of any sets of members of a finite set, one has no other below it.
LEMMA FinMin ==
  ASSUME NEW S, IsFiniteSet(S), NEW T, T \subseteq SUBSET S, T # {}
  PROVE  \E m \in T : \A u \in T : u \subseteq m => u = m
<1>1. IsWellFoundedOn(StrictSubsetOrdering(S), SUBSET S)
  BY FS_StrictSubsetOrderingWellFounded, FS_FiniteSubsetsOfFinite
<1>2. \E m \in T : \A u \in T : ~ (<<u, m>> \in StrictSubsetOrdering(S)) BY <1>1, WFMin
<1> QED BY <1>2 DEF StrictSubsetOrdering

\* A set of naturals that is not empty has a least member.
LEMMA NatMin == ASSUME NEW T, T \subseteq Nat, T # {} PROVE \E n \in T : \A m \in T : n <= m
<1>1. PICK k \in T : TRUE OBVIOUS
<1> DEFINE U == {1..j : j \in {i \in T : i <= k}}
<1>2. IsFiniteSet(1..k) BY FS_Interval
<1>3. U \subseteq SUBSET (1..k) OBVIOUS
<1>4. U # {} BY <1>1
<1> HIDE DEF U
<1>5. \E m \in U : \A u \in U : u \subseteq m => u = m
  <2> DEFINE I == 1..k
  <2>1. IsFiniteSet(I) /\ U \subseteq SUBSET I BY <1>2, <1>3
  <2> HIDE DEF I
  <2> QED BY <2>1, <1>4, FinMin
<1>9. PICK m \in U : \A u \in U : u \subseteq m => u = m BY <1>5
<1>6. PICK n \in T : n <= k /\ m = 1..n BY <1>9 DEF U
<1>7. ASSUME NEW j \in T PROVE n <= j
  <2>1. SUFFICES ASSUME j < n PROVE FALSE OBVIOUS
  <2>2. 1..j \in U BY <2>1, <1>6 DEF U
  <2>3. 1..j \subseteq 1..n BY <2>1
  <2>4. 1..j = 1..n BY <2>2, <2>3, <1>9, <1>6
  <2>5. n \in 1..n BY <2>1
  <2> QED BY <2>4, <2>5, <2>1
<1> QED BY <1>7

\* The sum of f over S, and the recursion the library computes it by.
Sum(f, S) == MapThenSumSet(LAMBDA i : f[i], S)
Some(s) == CHOOSE x \in s : TRUE
Adds(g, f, S) == g = [s \in SUBSET S |-> IF s = {} THEN 0 ELSE f[Some(s)] + g[s \ {Some(s)}]]

\* The sum is the recursion, at the set itself.
LEMMA SumIs == ASSUME NEW f, NEW S PROVE Sum(f, S) = (CHOOSE g : Adds(g, f, S))[S]
 BY DEF Sum, MapThenSumSet, MapThenFoldSet, Adds, Some

\* The member the recursion takes first is a member.
LEMMA SomeIn == ASSUME NEW s, s # {} PROVE Some(s) \in s
BY DEF Some

Entry(g, f, s) == IF s = {} THEN 0 ELSE f[Some(s)] + g[s \ {Some(s)}]

\* The recursion at one subset, a step of it unfolded.
LEMMA AddsAt ==
  ASSUME NEW g, NEW f, NEW S, Adds(g, f, S), NEW s \in SUBSET S
  PROVE  g[s] = Entry(g, f, s)
<1>1. g = [u \in SUBSET S |-> Entry(g, f, u)] BY DEF Adds, Entry
<1> QED BY <1>1

\* Two functions that satisfy the recursion are equal on every subset.
LEMMA AddsUnique ==
  ASSUME NEW f, NEW S, IsFiniteSet(S), NEW g, NEW h, Adds(g, f, S), Adds(h, f, S)
  PROVE  \A s \in SUBSET S : g[s] = h[s]
<1> DEFINE Bad == {s \in SUBSET S : g[s] # h[s]}
<1>1. SUFFICES ASSUME Bad # {} PROVE FALSE OBVIOUS
<1>2. Bad \subseteq SUBSET S OBVIOUS
<1>3. \E m \in Bad : \A u \in Bad : u \subseteq m => u = m
  <2> HIDE DEF Bad
  <2> QED BY <1>1, <1>2, FinMin
<1>4. PICK m \in Bad : \A u \in Bad : u \subseteq m => u = m BY <1>3
<1>5. m \in SUBSET S /\ g[m] # h[m] OBVIOUS
<1>6. m # {}
  <2>1. g[m] = Entry(g, f, m) /\ h[m] = Entry(h, f, m) BY <1>5, AddsAt
  <2> QED BY <2>1, <1>5 DEF Entry
<1>7. Some(m) \in m BY <1>6, SomeIn
<1> DEFINE t == m \ {Some(m)}
<1>8. t \in SUBSET S /\ t \subseteq m /\ t # m BY <1>5, <1>7
<1>9. g[t] = h[t] BY <1>8, <1>4
<1>10. g[m] = f[Some(m)] + g[t]
  <2>1. g[m] = Entry(g, f, m) BY <1>5, AddsAt
  <2> QED BY <2>1, <1>6 DEF Entry
<1>11. h[m] = f[Some(m)] + h[t]
  <2>1. h[m] = Entry(h, f, m) BY <1>5, AddsAt
  <2> QED BY <2>1, <1>6 DEF Entry
<1> QED BY <1>5, <1>9, <1>10, <1>11

\* A function that satisfies the recursion does so on a smaller set.
LEMMA AddsRestrict ==
  ASSUME NEW f, NEW S, NEW g, Adds(g, f, S), NEW T \in SUBSET S
  PROVE  Adds([s \in SUBSET T |-> g[s]], f, T)
<1> DEFINE h == [s \in SUBSET T |-> g[s]]
           e(s) == IF s = {} THEN 0 ELSE f[Some(s)] + h[s \ {Some(s)}]
<1>1. ASSUME NEW s \in SUBSET T PROVE g[s] = e(s)
  <2>0. g[s] = Entry(g, f, s) BY AddsAt
  <2>1. CASE s = {} BY <2>0, <2>1 DEF Entry
  <2>2. CASE s # {}
    <3>1. s \in SUBSET S /\ s \ {Some(s)} \in SUBSET T OBVIOUS
    <3>2. g[s] = f[Some(s)] + g[s \ {Some(s)}] BY <2>2, <2>0 DEF Entry
    <3>3. h[s \ {Some(s)}] = g[s \ {Some(s)}] BY <3>1
    <3> HIDE DEF h
    <3> QED BY <2>2, <3>2, <3>3
  <2> QED BY <2>1, <2>2
<1>2. h = [s \in SUBSET T |-> e(s)]
  <2> HIDE DEF e
  <2> QED BY <1>1
<1> HIDE DEF h
<1>3. Adds(h, f, T) BY <1>2 DEF Adds
<1> QED BY <1>3 DEF h

\* A function that satisfies the recursion exists.
LEMMA AddsExists ==
  ASSUME NEW f, NEW S, IsFiniteSet(S)
  PROVE  \E g : Adds(g, f, S)
<1> DEFINE Bad == {U \in SUBSET S : ~ \E g : Adds(g, f, U)}
           G(V) == CHOOSE g : Adds(g, f, V)
<1>1. SUFFICES ASSUME Bad # {} PROVE FALSE OBVIOUS
<1>2. \E U \in Bad : \A V \in Bad : V \subseteq U => V = U
  <2>1. Bad \subseteq SUBSET S OBVIOUS
  <2> HIDE DEF Bad
  <2> QED BY <1>1, <2>1, FinMin
<1>3. PICK U \in Bad : \A V \in Bad : V \subseteq U => V = U BY <1>2
<1>4. U \in SUBSET S /\ ~ \E g : Adds(g, f, U) OBVIOUS
<1>5. ASSUME NEW V \in SUBSET U, V # U PROVE Adds(G(V), f, V) /\ IsFiniteSet(V)
  <2>1. V \in SUBSET S /\ V \notin Bad BY <1>3, <1>4, <1>5
  <2>2. \E g : Adds(g, f, V) BY <2>1
  <2>3. IsFiniteSet(V) BY <2>1, FS_Subset
  <2> QED BY <2>2, <2>3
<1> DEFINE less(s) == s \ {Some(s)}
           e(s) == IF s = {} THEN 0 ELSE f[Some(s)] + G(less(s))[less(s)]
           g0 == [s \in SUBSET U |-> e(s)]
<1>6. \A s \in SUBSET U : s # {} => less(s) \in SUBSET U /\ less(s) # U /\ less(s) \subseteq s BY SomeIn
<1>7. ASSUME NEW t \in SUBSET U, t # U PROVE G(t)[t] = e(t)
  <2>0. Adds(G(t), f, t) /\ IsFiniteSet(t) BY <1>5, <1>7
  <2>1. CASE t = {}
    <3>1. G(t)[t] = Entry(G(t), f, t) BY <2>0, AddsAt
    <3> QED BY <3>1, <2>1 DEF Entry
  <2>2. CASE t # {}
    <3>1. G(t)[t] = f[Some(t)] + G(t)[less(t)]
      <4> DEFINE d == G(t)
      <4>1. Adds(d, f, t) BY <2>0
      <4> HIDE DEF d
      <4>2. d[t] = Entry(d, f, t) BY <4>1, AddsAt
      <4>3. d[t] = f[Some(t)] + d[t \ {Some(t)}] BY <4>2, <2>2 DEF Entry
      <4> QED BY <4>3 DEF d
    <3>2. less(t) \in SUBSET U /\ less(t) # U /\ less(t) \subseteq t BY <2>2, <1>6
    <3>3. Adds(G(less(t)), f, less(t)) /\ IsFiniteSet(less(t)) BY <3>2, <1>5
    <3> DEFINE r == [s \in SUBSET less(t) |-> G(t)[s]]
    <3>4. Adds(r, f, less(t)) BY <2>0, <3>2, AddsRestrict
    <3>5. r[less(t)] = G(t)[less(t)] OBVIOUS
    <3> HIDE DEF r, less, G
    <3>6. r[less(t)] = G(less(t))[less(t)] BY <3>3, <3>4, AddsUnique
    <3> QED BY <3>1, <3>5, <3>6, <2>2
  <2> QED BY <2>1, <2>2
<1>8. ASSUME NEW s \in SUBSET U PROVE e(s) = IF s = {} THEN 0 ELSE f[Some(s)] + g0[s \ {Some(s)}]
  <2>1. CASE s = {} BY <2>1
  <2>2. CASE s # {}
    <3>1. less(s) \in SUBSET U /\ less(s) # U BY <2>2, <1>6
    <3>2. G(less(s))[less(s)] = e(less(s)) BY <3>1, <1>7
    <3>3. g0[less(s)] = e(less(s)) BY <3>1
    <3>4. e(s) = f[Some(s)] + G(less(s))[less(s)] BY <2>2
    <3> HIDE DEF g0, e, G
    <3> QED BY <2>2, <3>2, <3>3, <3>4
  <2> QED BY <2>1, <2>2
<1>9. g0 = [s \in SUBSET U |-> IF s = {} THEN 0 ELSE f[Some(s)] + g0[s \ {Some(s)}]]
  <2>1. \A s \in SUBSET U : e(s) = IF s = {} THEN 0 ELSE f[Some(s)] + g0[s \ {Some(s)}] BY <1>8
  <2> DEFINE k(s) == IF s = {} THEN 0 ELSE f[Some(s)] + g0[s \ {Some(s)}]
  <2>2. \A s \in SUBSET U : e(s) = k(s) BY <2>1
  <2>3. g0 = [s \in SUBSET U |-> e(s)] OBVIOUS
  <2> HIDE DEF g0, e, k
  <2>4. g0 = [s \in SUBSET U |-> k(s)] BY <2>2, <2>3
  <2> QED BY <2>4 DEF k
<1> HIDE DEF g0
<1>10. Adds(g0, f, U) BY <1>9 DEF Adds
<1> QED BY <1>10, <1>4

\* The sum over a subset is what the recursion of the whole set gives there.
LEMMA SumIsAdded ==
  ASSUME NEW f, NEW S, IsFiniteSet(S), NEW g, Adds(g, f, S)
  PROVE  \A T \in SUBSET S : Sum(f, T) = g[T]
<1> TAKE T \in SUBSET S
<1> DEFINE c == CHOOSE h : Adds(h, f, T)
           r == [s \in SUBSET T |-> g[s]]
<1>1. IsFiniteSet(T) BY FS_Subset
<1>2. Adds(r, f, T) BY AddsRestrict
<1>3. Adds(c, f, T) BY <1>2
<1>4. Sum(f, T) = c[T] BY SumIs
<1>5. r[T] = g[T] OBVIOUS
<1> HIDE DEF c, r
<1>6. c[T] = r[T] BY <1>1, <1>2, <1>3, AddsUnique
<1> QED BY <1>4, <1>5, <1>6

\* The empty sum, and the sum with one member taken out.
LEMMA SumStep ==
  ASSUME NEW f, NEW S, IsFiniteSet(S)
  PROVE  /\ Sum(f, {}) = 0
         /\ S # {} => Sum(f, S) = f[Some(S)] + Sum(f, S \ {Some(S)})
<1>1. PICK g : Adds(g, f, S) BY AddsExists
<1>2. \A T \in SUBSET S : Sum(f, T) = g[T] BY <1>1, SumIsAdded
<1>3. g[{}] = Entry(g, f, {}) /\ g[S] = Entry(g, f, S) BY <1>1, AddsAt
<1> QED BY <1>2, <1>3 DEF Entry

\* A sum of integers is an integer.
LEMMA SumInt ==
  ASSUME NEW f, NEW S, IsFiniteSet(S), \A i \in S : f[i] \in Int
  PROVE  Sum(f, S) \in Int
<1> DEFINE Bad == {T \in SUBSET S : Sum(f, T) \notin Int}
<1>1. SUFFICES ASSUME Bad # {} PROVE FALSE OBVIOUS
<1>2. \E m \in Bad : \A u \in Bad : u \subseteq m => u = m
  <2>1. Bad \subseteq SUBSET S OBVIOUS
  <2> HIDE DEF Bad
  <2> QED BY <1>1, <2>1, FinMin
<1>3. PICK m \in Bad : \A u \in Bad : u \subseteq m => u = m BY <1>2
<1>4. m \in SUBSET S /\ Sum(f, m) \notin Int /\ IsFiniteSet(m) BY FS_Subset
<1>5. m # {}
  <2>1. Sum(f, {}) = 0 BY SumStep
  <2> QED BY <2>1, <1>4
<1>6. Some(m) \in m BY <1>5, SomeIn
<1>7. m \ {Some(m)} \notin Bad BY <1>3, <1>6
<1>8. Sum(f, m \ {Some(m)}) \in Int BY <1>7, <1>4
<1>9. Sum(f, m) = f[Some(m)] + Sum(f, m \ {Some(m)}) BY <1>4, <1>5, SumStep
<1>10. f[Some(m)] \in Int BY <1>6, <1>4
<1> QED BY <1>4, <1>8, <1>9, <1>10

\* Equal terms make equal sums.
LEMMA SumCong ==
  ASSUME NEW f, NEW g, NEW S, IsFiniteSet(S), \A i \in S : f[i] = g[i]
  PROVE  Sum(f, S) = Sum(g, S)
<1> DEFINE Bad == {T \in SUBSET S : Sum(f, T) # Sum(g, T)}
<1>1. SUFFICES ASSUME Bad # {} PROVE FALSE OBVIOUS
<1>2. \E m \in Bad : \A u \in Bad : u \subseteq m => u = m
  <2>1. Bad \subseteq SUBSET S OBVIOUS
  <2> HIDE DEF Bad
  <2> QED BY <1>1, <2>1, FinMin
<1>3. PICK m \in Bad : \A u \in Bad : u \subseteq m => u = m BY <1>2
<1>4. m \in SUBSET S /\ Sum(f, m) # Sum(g, m) /\ IsFiniteSet(m) BY FS_Subset
<1>5. m # {} BY <1>4, SumStep
<1>6. Some(m) \in m BY <1>5, SomeIn
<1>7. m \ {Some(m)} \notin Bad BY <1>3, <1>6
<1>8. Sum(f, m \ {Some(m)}) = Sum(g, m \ {Some(m)}) BY <1>7, <1>4
<1>9. Sum(f, m) = f[Some(m)] + Sum(f, m \ {Some(m)}) BY <1>4, <1>5, SumStep
<1>10. Sum(g, m) = g[Some(m)] + Sum(g, m \ {Some(m)}) BY <1>4, <1>5, SumStep
<1>11. f[Some(m)] = g[Some(m)] BY <1>6, <1>4
<1> QED BY <1>4, <1>8, <1>9, <1>10, <1>11

\* Whichever member is taken out, the sum is that member and the rest.
LEMMA SumRemove ==
  ASSUME NEW f, NEW S, IsFiniteSet(S), \A i \in S : f[i] \in Int, NEW x \in S
  PROVE  Sum(f, S) = f[x] + Sum(f, S \ {x})
<1> DEFINE Bad == {T \in SUBSET S : \E y \in T : Sum(f, T) # f[y] + Sum(f, T \ {y})}
<1>1. SUFFICES ASSUME Bad # {} PROVE FALSE OBVIOUS
<1>2. \E m \in Bad : \A u \in Bad : u \subseteq m => u = m
  <2>1. Bad \subseteq SUBSET S OBVIOUS
  <2> HIDE DEF Bad
  <2> QED BY <1>1, <2>1, FinMin
<1>3. PICK m \in Bad : \A u \in Bad : u \subseteq m => u = m BY <1>2
<1>4. m \in SUBSET S /\ IsFiniteSet(m) BY FS_Subset
<1>5. PICK y \in m : Sum(f, m) # f[y] + Sum(f, m \ {y}) OBVIOUS
<1> DEFINE z == Some(m)
           b == m \ {y, z}
<1>6. z \in m BY <1>5, SomeIn
<1> HIDE DEF z
<1>7. Sum(f, m) = f[z] + Sum(f, m \ {z}) BY <1>4, <1>5, SumStep DEF z
<1>8. z # y BY <1>5, <1>7
<1>9. m \ {z} \notin Bad /\ m \ {y} \notin Bad BY <1>3, <1>6, <1>5
<1>10. Sum(f, m \ {z}) = f[y] + Sum(f, (m \ {z}) \ {y}) BY <1>9, <1>8, <1>5, <1>4
<1>11. Sum(f, m \ {y}) = f[z] + Sum(f, (m \ {y}) \ {z}) BY <1>9, <1>8, <1>6, <1>4
<1>12. (m \ {z}) \ {y} = b /\ (m \ {y}) \ {z} = b OBVIOUS
<1>13. f[y] \in Int /\ f[z] \in Int /\ Sum(f, b) \in Int
  <2>1. b \subseteq S /\ IsFiniteSet(b) BY <1>4, FS_Subset
  <2> HIDE DEF b
  <2>2. \A i \in b : f[i] \in Int BY <2>1
  <2>3. Sum(f, b) \in Int BY <2>1, <2>2, SumInt
  <2> QED BY <2>3, <1>6, <1>5, <1>4
<1>14. Sum(f, m) = f[z] + (f[y] + Sum(f, b)) BY <1>7, <1>10, <1>12
<1>15. Sum(f, m \ {y}) = f[z] + Sum(f, b) BY <1>11, <1>12
<1> HIDE DEF b, Bad
<1> QED BY <1>5, <1>13, <1>14, <1>15

\* A sum of naturals is a natural.
LEMMA SumNat ==
  ASSUME NEW f, NEW S, IsFiniteSet(S), \A i \in S : f[i] \in Nat
  PROVE  Sum(f, S) \in Nat
<1> DEFINE Bad == {T \in SUBSET S : Sum(f, T) \notin Nat}
<1>1. SUFFICES ASSUME Bad # {} PROVE FALSE OBVIOUS
<1>2. \E m \in Bad : \A u \in Bad : u \subseteq m => u = m
  <2>1. Bad \subseteq SUBSET S OBVIOUS
  <2> HIDE DEF Bad
  <2> QED BY <1>1, <2>1, FinMin
<1>3. PICK m \in Bad : \A u \in Bad : u \subseteq m => u = m BY <1>2
<1>4. m \in SUBSET S /\ Sum(f, m) \notin Nat /\ IsFiniteSet(m) BY FS_Subset
<1>5. m # {}
  <2>1. Sum(f, {}) = 0 BY SumStep
  <2> QED BY <2>1, <1>4
<1>6. Some(m) \in m BY <1>5, SomeIn
<1>7. m \ {Some(m)} \notin Bad BY <1>3, <1>6
<1>8. Sum(f, m \ {Some(m)}) \in Nat BY <1>7, <1>4
<1>9. Sum(f, m) = f[Some(m)] + Sum(f, m \ {Some(m)}) BY <1>4, <1>5, SumStep
<1>10. f[Some(m)] \in Nat BY <1>6, <1>4
<1> QED BY <1>4, <1>8, <1>9, <1>10

\* Every term of f over T is nothing, or is at most the term of g over S.
Under(f, T, g, S) == \A i \in T : f[i] = 0 \/ (i \in S /\ f[i] <= g[i])

\* A sum that lies under another one is at most that one.
LEMMA SumUnder ==
  ASSUME NEW f, NEW T, NEW g, NEW S, IsFiniteSet(T), IsFiniteSet(S),
         \A i \in T : f[i] \in Nat, \A i \in S : g[i] \in Nat, Under(f, T, g, S)
  PROVE  Sum(f, T) <= Sum(g, S)
<1> DEFINE Above(U, V) == Under(f, U, g, V) /\ ~ (Sum(f, U) <= Sum(g, V))
           Bad == {U \in SUBSET T : \E V \in SUBSET S : Above(U, V)}
<1>1. SUFFICES ASSUME Bad # {} PROVE FALSE OBVIOUS
<1>2. \E m \in Bad : \A u \in Bad : u \subseteq m => u = m
  <2>1. Bad \subseteq SUBSET T OBVIOUS
  <2> HIDE DEF Bad
  <2> QED BY <1>1, <2>1, FinMin
<1>3. PICK m \in Bad : \A u \in Bad : u \subseteq m => u = m BY <1>2
<1>4. m \in SUBSET T /\ IsFiniteSet(m) BY FS_Subset
<1>5. PICK V \in SUBSET S : Above(m, V) OBVIOUS
<1>6. IsFiniteSet(V) BY FS_Subset
<1>7. Sum(g, V) \in Nat BY <1>6, SumNat
<1>8. m # {}
  <2>1. Sum(f, {}) = 0 BY SumStep
  <2> QED BY <2>1, <1>5, <1>7
<1> DEFINE x == Some(m)
           r == m \ {x}
<1>9. x \in m BY <1>8, SomeIn
<1>10. Sum(f, m) = f[x] + Sum(f, r) BY <1>4, <1>8, SumStep
<1> HIDE DEF x
<1>11. r \in SUBSET T /\ r # m /\ r \subseteq m /\ r \notin Bad BY <1>3, <1>4, <1>9
<1>12. Sum(f, r) \in Nat /\ f[x] \in Nat
  <2>1. IsFiniteSet(r) BY <1>11, FS_Subset
  <2>2. \A i \in r : f[i] \in Nat BY <1>11
  <2> HIDE DEF r
  <2>3. Sum(f, r) \in Nat BY <2>1, <2>2, SumNat
  <2> QED BY <2>3, <1>4, <1>9
<1>13. CASE f[x] = 0
  <2>1. Under(f, r, g, V) BY <1>5, <1>11 DEF Under
  <2>2. Sum(f, r) <= Sum(g, V) BY <2>1, <1>11
  <2> HIDE DEF r, Bad
  <2> QED BY <2>2, <1>5, <1>10, <1>12, <1>13
<1>14. CASE x \in V /\ f[x] <= g[x]
  <2> DEFINE W == V \ {x}
  <2>1. Sum(g, V) = g[x] + Sum(g, W)
    <3>1. \A i \in V : g[i] \in Int OBVIOUS
    <3> QED BY <1>6, <1>14, <3>1, SumRemove
  <2>2. Under(f, r, g, W) BY <1>5, <1>11 DEF Under
  <2>3. Sum(f, r) <= Sum(g, W) BY <2>2, <1>11
  <2>4. Sum(g, W) \in Nat /\ g[x] \in Nat
    <3>1. IsFiniteSet(W) /\ \A i \in W : g[i] \in Nat BY <1>6, FS_Subset
    <3> HIDE DEF W
    <3> QED BY <3>1, <1>14, SumNat
  <2> HIDE DEF r, W, Bad
  <2> QED BY <2>1, <2>3, <2>4, <1>5, <1>10, <1>12, <1>14
<1> QED BY <1>5, <1>9, <1>13, <1>14 DEF Under

\* One more at one member is one more in the sum.
LEMMA SumPlusOne ==
  ASSUME NEW f, NEW g, NEW S, IsFiniteSet(S), NEW x \in S, \A i \in S : f[i] \in Nat,
         g[x] = f[x] + 1, \A i \in S \ {x} : g[i] = f[i]
  PROVE  Sum(g, S) = Sum(f, S) + 1
<1>1. IsFiniteSet(S \ {x}) BY FS_Subset
<1>2. Sum(g, S \ {x}) = Sum(f, S \ {x}) BY <1>1, SumCong
<1>3. \A i \in S : f[i] \in Int /\ g[i] \in Int OBVIOUS
<1>4. Sum(f, S) = f[x] + Sum(f, S \ {x}) BY <1>3, SumRemove
<1>5. Sum(g, S) = g[x] + Sum(g, S \ {x}) BY <1>3, SumRemove
<1>6. Sum(f, S \ {x}) \in Int BY <1>1, <1>3, SumInt
<1> QED BY <1>2, <1>4, <1>5, <1>6

\* A sum of nothings is nothing.
LEMMA SumZero ==
  ASSUME NEW f, NEW S, IsFiniteSet(S), \A i \in S : f[i] = 0
  PROVE  Sum(f, S) = 0
<1>1. Sum(f, {}) = 0 BY FS_EmptySet, SumStep
<1>2. Under(f, S, f, {}) BY DEF Under
<1>3. Sum(f, S) <= Sum(f, {}) BY <1>2, FS_EmptySet, SumUnder
<1>4. Sum(f, S) \in Nat BY SumNat
<1> QED BY <1>1, <1>3, <1>4

------------------------------------------------------------------------------
(* Stock *)

Progress == [pc : {"idle", "adjusting", "pushing", "deleting", "emptying"}, loaded : Nat,
             delta : Deltas \cup {0}, next : Nat, rows : 0..MaxMoves, overlapped : BOOLEAN]

\* The quantity q and the movements in T make up n.
MakesUp(n, S, m) == \E q \in S, T \in SUBSET DOMAIN m : n = q + Sum(m, T)

Explained ==
  Exists =>
    /\ MakesUp(stock, bases, moves)
    /\ \A r \in Requests :
         req[r].pc = "adjusting" => MakesUp(req[r].next - req[r].delta, bases, moves)

\* What the movements and the quantities of the item account for.
ItemInv ==
  /\ TypeOK /\ Explained
  /\ \A r \in Requests :
       /\ req[r].pc = "adjusting" => req[r].delta \in Deltas
       /\ Exists /\ req[r].pc # "idle" => req[r].rows <= Len(moves)
       /\ req[r].pc = "adjusting" /\ ~req[r].overlapped =>
            stock \in Nat /\ req[r].loaded = stock /\ req[r].next = stock + req[r].delta

\* The net of some movements is the sum of them.
LEMMA NetIsSum == \A T : Net(T) = Sum(moves, T)
BY DEF Net, Sum

\* The places of a sequence of movements are finitely many, and their sum is an integer.
LEMMA PlacesFinite ==
  ASSUME NEW m \in Seq(Int), NEW T \in SUBSET DOMAIN m
  PROVE  IsFiniteSet(T) /\ Sum(m, T) \in Int
<1>1. DOMAIN m = 1..Len(m) /\ Len(m) \in Nat OBVIOUS
<1>2. IsFiniteSet(1..Len(m)) BY <1>1, FS_Interval
<1>3. IsFiniteSet(T) BY <1>1, <1>2, FS_Subset
<1>4. \A i \in T : m[i] \in Int BY <1>1
<1> QED BY <1>3, <1>4, SumInt

\* Another movement leaves the old sums, and adds itself to the ones it is taken into.
LEMMA SumAfterAppend ==
  ASSUME NEW m \in Seq(Int), NEW d \in Int, NEW T \in SUBSET DOMAIN m
  PROVE  /\ Sum(Append(m, d), T) = Sum(m, T)
         /\ Sum(Append(m, d), T \cup {Len(m) + 1}) = d + Sum(m, T)
<1> DEFINE a == Append(m, d)
           n == Len(m) + 1
           U == T \cup {n}
<1>1. /\ DOMAIN m = 1..Len(m) /\ Len(m) \in Nat /\ a \in Seq(Int) /\ Len(a) = n
      /\ \A i \in 1..Len(m) : a[i] = m[i]
      /\ a[n] = d
  OBVIOUS
<1>2. IsFiniteSet(T) BY PlacesFinite
<1>3. Sum(a, T) = Sum(m, T)
  <2>1. \A i \in T : a[i] = m[i] BY <1>1
  <2> HIDE DEF a
  <2> QED BY <2>1, <1>2, SumCong
<1>4. U \in SUBSET DOMAIN a /\ n \in U /\ U \ {n} = T
  <2>1. DOMAIN a = 1..n BY <1>1
  <2> HIDE DEF a
  <2> QED BY <2>1, <1>1
<1>5. IsFiniteSet(U) /\ \A i \in U : a[i] \in Int
  <2>1. DOMAIN a = 1..Len(a) BY <1>1
  <2> HIDE DEF a, U
  <2>2. IsFiniteSet(U) BY <1>1, <1>4, PlacesFinite
  <2> QED BY <2>1, <2>2, <1>1, <1>4
<1>6. Sum(a, U) = a[n] + Sum(a, U \ {n})
  <2> HIDE DEF a, U, n
  <2> QED BY <1>4, <1>5, SumRemove
<1> QED BY <1>1, <1>3, <1>4, <1>6

\* What was made up is made up after another movement, with that movement or without it.
LEMMA MakesUpAppend ==
  ASSUME NEW n \in Int, NEW S \in SUBSET Nat, NEW m \in Seq(Int), NEW d \in Int, MakesUp(n, S, m)
  PROVE  MakesUp(n, S, Append(m, d)) /\ MakesUp(n + d, S, Append(m, d))
<1>1. PICK q \in S, T \in SUBSET DOMAIN m : n = q + Sum(m, T) BY DEF MakesUp
<1>2. /\ Sum(Append(m, d), T) = Sum(m, T) /\ Sum(m, T) \in Int
      /\ Sum(Append(m, d), T \cup {Len(m) + 1}) = d + Sum(m, T)
  BY SumAfterAppend, PlacesFinite
<1>3. T \in SUBSET DOMAIN Append(m, d) /\ T \cup {Len(m) + 1} \in SUBSET DOMAIN Append(m, d)
  <2>1. DOMAIN Append(m, d) = 1..(Len(m) + 1) /\ DOMAIN m = 1..Len(m) /\ Len(m) \in Nat OBVIOUS
  <2> QED BY <2>1
<1>4. n = q + Sum(Append(m, d), T) BY <1>1, <1>2
<1>5. n + d = q + Sum(Append(m, d), T \cup {Len(m) + 1}) BY <1>1, <1>2
<1> QED BY <1>3, <1>4, <1>5 DEF MakesUp

\* A sequence over a set is a sequence over a larger one.
LEMMA SeqOfMore == ASSUME NEW S, NEW T, S \subseteq T, NEW m \in Seq(S) PROVE m \in Seq(T)
<1>1. DOMAIN m = 1..Len(m) /\ Len(m) \in Nat OBVIOUS
<1>2. m \in [1..Len(m) -> T]
  <2>1. \A i \in 1..Len(m) : m[i] \in T OBVIOUS
  <2>2. m = [i \in 1..Len(m) |-> m[i]] OBVIOUS
  <2> QED BY <2>1, <2>2
<1>3. Seq(T) = UNION {[1..n -> T] : n \in Nat} OBVIOUS
<1> QED BY <1>1, <1>2, <1>3

\* A change of the quantity is an integer.
LEMMA DeltaInt == \A d \in Deltas \cup {0} : d \in Int
BY DeltasAssumption

\* The movements are integers and the quantities naturals.
LEMMA SeqDeltas == ASSUME TypeOK PROVE moves \in Seq(Int) /\ bases \in SUBSET Nat
<1>1. moves \in Seq(Deltas) /\ Deltas \subseteq Int BY DeltasAssumption DEF TypeOK
<1>2. moves \in Seq(Int) BY <1>1, SeqOfMore
<1> QED BY <1>2 DEF TypeOK

\* What the start of a request makes of the requests.
LEMMA StartEffect ==
  ASSUME TypeOK, NEW r \in Requests, NEW pc \in {"adjusting", "pushing", "deleting", "emptying"},
         NEW d \in Deltas \cup {0}, NEW n \in Nat, Start(r, pc, d, n)
  PROVE  /\ req' \in [Requests -> Progress] /\ stock \in Nat
         /\ req'[r] = [pc |-> pc, loaded |-> stock, delta |-> d, next |-> n,
                       rows |-> Len(moves), overlapped |-> FALSE]
         /\ \A q \in Requests \ {r} : req'[q] = req[q]
         /\ UNCHANGED <<stock, bases, moves, gone>> /\ Exists
<1> DEFINE e == [pc |-> pc, loaded |-> stock, delta |-> d, next |-> n,
                 rows |-> Len(moves), overlapped |-> FALSE]
<1>1. req' = [req EXCEPT ![r] = e] /\ UNCHANGED <<stock, bases, moves, gone>> /\ Exists BY DEF Start
<1>2. stock \in Nat BY <1>1 DEF TypeOK, Exists
<1>3. Len(moves) \in 0..MaxMoves BY DeltasAssumption, MaxMovesAssumption DEF TypeOK
<1>4. e \in Progress BY <1>2, <1>3, DeltasAssumption DEF Progress
<1>5. req \in [Requests -> Progress] BY DEF TypeOK, Progress
<1> HIDE DEF e
<1>6. /\ req' \in [Requests -> Progress] /\ req'[r] = e
      /\ \A q \in Requests \ {r} : req'[q] = req[q]
  BY <1>1, <1>4, <1>5
<1> QED BY <1>1, <1>2, <1>6 DEF e

\* What the end of a request makes of the requests.
LEMMA FinishEffect ==
  ASSUME TypeOK, NEW r \in Requests, NEW c \in BOOLEAN, Finish(r, c)
  PROVE  /\ req' \in [Requests -> Progress]
         /\ req'[r] = IdleRequest
         /\ \A q \in Requests \ {r} :
              /\ req'[q].pc = req[q].pc /\ req'[q].loaded = req[q].loaded
              /\ req'[q].delta = req[q].delta /\ req'[q].next = req[q].next
              /\ req'[q].rows = req[q].rows
              /\ req'[q].overlapped <=> req[q].overlapped \/ (c /\ req[q].pc # "idle")
<1> DEFINE e(q) == [req[q] EXCEPT !.overlapped = @ \/ (c /\ req[q].pc # "idle")]
<1>1. req \in [Requests -> Progress] BY DEF TypeOK, Progress
<1>2. ASSUME NEW q \in Requests
      PROVE  /\ e(q) \in Progress
             /\ e(q).pc = req[q].pc /\ e(q).loaded = req[q].loaded /\ e(q).delta = req[q].delta
             /\ e(q).next = req[q].next /\ e(q).rows = req[q].rows
             /\ e(q).overlapped <=> req[q].overlapped \/ (c /\ req[q].pc # "idle")
  <2>1. req[q] \in Progress BY <1>1
  <2>2. (req[q].overlapped \/ (c /\ req[q].pc # "idle")) \in BOOLEAN OBVIOUS
  <2> QED BY <2>1, <2>2 DEF Progress
<1>3. IdleRequest \in Progress BY MaxMovesAssumption DEF IdleRequest, Progress
<1>4. req' = [q \in Requests |-> IF q = r THEN IdleRequest ELSE e(q)] BY DEF Finish
<1> HIDE DEF e
<1>5. /\ req' \in [Requests -> Progress] /\ req'[r] = IdleRequest
      /\ \A q \in Requests \ {r} : req'[q] = e(q)
  BY <1>2, <1>3, <1>4
<1> QED BY <1>2, <1>5

\* A request that starts keeps the invariant: an adjustment has read the quantity there is.
LEMMA StartKeeps ==
  ASSUME ItemInv, NEW r \in Requests, NEW pc \in {"adjusting", "pushing", "deleting", "emptying"},
         NEW d \in Deltas \cup {0}, NEW n \in Nat, Start(r, pc, d, n),
         pc = "adjusting" => d \in Deltas /\ n = stock + d
  PROVE  ItemInv'
<1>1. TypeOK BY DEF ItemInv
<1>2. /\ req' \in [Requests -> Progress] /\ stock \in Nat
      /\ req'[r] = [pc |-> pc, loaded |-> stock, delta |-> d, next |-> n,
                    rows |-> Len(moves), overlapped |-> FALSE]
      /\ \A q \in Requests \ {r} : req'[q] = req[q]
      /\ UNCHANGED <<stock, bases, moves, gone>> /\ Exists
  BY <1>1, StartEffect
<1>3. TypeOK' BY <1>1, <1>2 DEF TypeOK, Progress
<1>4. Len(moves) \in Nat BY <1>1, SeqDeltas
<1>5. MakesUp(stock, bases, moves) BY <1>2 DEF ItemInv, Explained
<1>6. ASSUME NEW q \in Requests, req'[q].pc = "adjusting"
      PROVE  MakesUp(req'[q].next - req'[q].delta, bases, moves)
  <2>1. CASE q = r
    <3>1. req'[q].next = stock + req'[q].delta /\ req'[q].delta \in Int
      BY <1>2, <1>6, <2>1, DeltasAssumption
    <3>2. req'[q].next - req'[q].delta = stock BY <3>1, <1>2
    <3> QED BY <3>2, <1>5
  <2>2. CASE q # r
    BY <1>2, <1>6, <2>2 DEF ItemInv, Explained
  <2> QED BY <2>1, <2>2
<1>7. Explained' BY <1>2, <1>5, <1>6 DEF Explained, Exists
<1>8. ASSUME NEW q \in Requests
      PROVE  /\ req'[q].pc = "adjusting" => req'[q].delta \in Deltas
             /\ req'[q].pc # "idle" => req'[q].rows <= Len(moves)
             /\ req'[q].pc = "adjusting" /\ ~req'[q].overlapped =>
                  req'[q].loaded = stock /\ req'[q].next = stock + req'[q].delta
  <2>1. CASE q = r BY <1>2, <1>4, <2>1
  <2>2. CASE q # r BY <1>2, <2>2 DEF ItemInv
  <2> QED BY <2>1, <2>2
<1> QED BY <1>2, <1>3, <1>7, <1>8 DEF ItemInv, Exists

\* What a request writes is made up, or is so before its own change.
LEMMA WrittenValue ==
  ASSUME ItemInv, NEW r \in Requests, Exists
  PROVE  /\ Written(r) \in Nat
         /\ req[r].pc = "adjusting" =>
              MakesUp(Written(r), bases, moves) \/ MakesUp(Written(r) - req[r].delta, bases, moves)
<1>1. stock \in Nat /\ req[r] \in Progress BY DEF ItemInv, TypeOK, Progress, Exists
<1>2. MakesUp(stock, bases, moves) BY DEF ItemInv, Explained
<1>3. req[r].pc = "adjusting" => MakesUp(req[r].next - req[r].delta, bases, moves)
  BY DEF ItemInv, Explained
<1> QED BY <1>1, <1>2, <1>3 DEF Written, Progress

\* An adjustment that commits keeps the invariant, and changes the quantity by its movement
\* unless it was overlapped.
LEMMA CommitAdjustKeeps ==
  ASSUME ItemInv, NEW r \in Requests, CommitAdjust(r)
  PROVE  /\ ItemInv'
         /\ ~req[r].overlapped => stock' = stock + moves'[Len(moves')]
<1>1. TypeOK /\ Finish(r, TRUE) /\ Exists /\ req[r].pc = "adjusting" BY DEF ItemInv, CommitAdjust
<1>2. /\ req' \in [Requests -> Progress] /\ req'[r] = IdleRequest
      /\ \A q \in Requests \ {r} :
           /\ req'[q].pc = req[q].pc /\ req'[q].loaded = req[q].loaded
           /\ req'[q].delta = req[q].delta /\ req'[q].next = req[q].next
           /\ req'[q].rows = req[q].rows
           /\ req'[q].overlapped <=> req[q].overlapped \/ req[q].pc # "idle"
  BY <1>1, FinishEffect
<1> DEFINE d == req[r].delta
<1>3. d \in Deltas /\ d \in Int BY <1>1, DeltasAssumption DEF ItemInv
<1>4. moves \in Seq(Int) /\ bases \in SUBSET Nat BY <1>1, SeqDeltas
<1>5. /\ moves' = Append(moves, d) /\ stock' = Written(r) /\ UNCHANGED <<bases, gone>>
      /\ Len(moves) < MaxMoves
  BY DEF CommitAdjust
<1>6. stock \in Nat /\ req[r] \in Progress BY <1>1 DEF TypeOK, Progress, Exists
<1>7. stock' \in Nat BY <1>1, <1>5, WrittenValue
<1>8. Len(moves) \in Nat /\ Len(moves') = Len(moves) + 1 /\ moves'[Len(moves')] = d
  BY <1>3, <1>4, <1>5
<1>9. TypeOK'
  <2>1. moves' \in Seq(Deltas)
    <3>1. moves \in Seq(Deltas) BY <1>1 DEF TypeOK
    <3> HIDE DEF d
    <3> QED BY <3>1, <1>3, <1>5
  <2>2. Len(moves') <= MaxMoves /\ gone' \in 0..Len(moves')
    BY <1>1, <1>5, <1>8, MaxMovesAssumption DEF TypeOK
  <2> QED BY <1>1, <1>2, <1>5, <1>7, <2>1, <2>2 DEF TypeOK, Progress
<1>10. MakesUp(stock', bases, moves')
  <2>1. CASE MakesUp(stock', bases, moves)
    <3>1. stock' \in Int BY <1>7
    <3> HIDE DEF d
    <3> QED BY <2>1, <3>1, <1>3, <1>4, <1>5, MakesUpAppend
  <2>2. CASE MakesUp(stock' - d, bases, moves)
    <3>1. stock' - d \in Int /\ (stock' - d) + d = stock' BY <1>3, <1>7
    <3>2. MakesUp((stock' - d) + d, bases, moves')
      BY <2>2, <3>1, <1>3, <1>4, <1>5, MakesUpAppend
    <3> QED BY <3>1, <3>2
  <2>3. MakesUp(Written(r), bases, moves) \/ MakesUp(Written(r) - d, bases, moves)
    BY <1>1, WrittenValue
  <2> QED BY <2>1, <2>2, <2>3, <1>5
<1>11. ASSUME NEW q \in Requests, req'[q].pc = "adjusting"
       PROVE  MakesUp(req'[q].next - req'[q].delta, bases, moves')
  <2>1. q # r /\ req[q].pc = "adjusting" BY <1>2, <1>11 DEF IdleRequest
  <2> DEFINE n == req[q].next - req[q].delta
  <2>2. req'[q].next - req'[q].delta = n BY <1>2, <2>1
  <2>3. n \in Int
    <3>1. req[q] \in Progress BY <1>1 DEF TypeOK, Progress
    <3>2. req[q].next \in Nat /\ req[q].delta \in Deltas \cup {0} BY <3>1 DEF Progress
    <3>3. req[q].delta \in Int BY <3>2, DeltaInt
    <3> QED BY <3>2, <3>3
  <2>4. MakesUp(n, bases, moves) BY <1>1, <2>1 DEF ItemInv, Explained
  <2> HIDE DEF n
  <2>5. MakesUp(n, bases, moves') BY <2>3, <2>4, <1>3, <1>4, <1>5, MakesUpAppend
  <2> QED BY <2>2, <2>5
<1>12. Explained'
  <2>1. bases' = bases BY <1>5
  <2> QED BY <2>1, <1>10, <1>11 DEF Explained
<1>13. ASSUME NEW q \in Requests
       PROVE  /\ req'[q].pc = "adjusting" => req'[q].delta \in Deltas
              /\ req'[q].pc # "idle" => req'[q].rows <= Len(moves')
              /\ req'[q].pc = "adjusting" => req'[q].overlapped
  <2>1. CASE q = r BY <1>2, <2>1 DEF IdleRequest
  <2>2. CASE q # r
    <3>1. req'[q].rows \in Nat BY <1>2, MaxMovesAssumption DEF Progress
    <3>2. req'[q].pc # "idle" => req'[q].rows <= Len(moves) BY <1>1, <1>2, <2>2 DEF ItemInv
    <3> QED BY <1>2, <1>8, <2>2, <3>1, <3>2 DEF ItemInv
  <2> QED BY <2>1, <2>2
<1>14. ~req[r].overlapped => stock' = stock + d
  BY <1>1, <1>5, <1>6 DEF ItemInv, Written
<1> QED BY <1>8, <1>9, <1>12, <1>13, <1>14 DEF ItemInv

\* What is made up from some quantities is made up from more.
LEMMA MakesUpMore ==
  ASSUME NEW n, NEW S, NEW R, S \subseteq R, NEW m, MakesUp(n, S, m)
  PROVE  MakesUp(n, R, m)
BY DEF MakesUp

\* The end of a request that records no movement.
LEMMA OtherEndKeeps ==
  ASSUME ItemInv, NEW r \in Requests, NEW c \in BOOLEAN, Finish(r, c), moves' = moves,
         stock' \in Nat \cup {NoItem}, bases' \in SUBSET Nat, bases \subseteq bases',
         gone' \in 0..Len(moves), ~c => stock' = stock,
         Exists' => Exists /\ MakesUp(stock', bases', moves)
  PROVE  ItemInv'
<1>1. TypeOK BY DEF ItemInv
<1>2. /\ req' \in [Requests -> Progress] /\ req'[r] = IdleRequest
      /\ \A q \in Requests \ {r} :
           /\ req'[q].pc = req[q].pc /\ req'[q].loaded = req[q].loaded
           /\ req'[q].delta = req[q].delta /\ req'[q].next = req[q].next
           /\ req'[q].rows = req[q].rows
           /\ req'[q].overlapped <=> req[q].overlapped \/ (c /\ req[q].pc # "idle")
  BY <1>1, FinishEffect
<1>3. TypeOK' BY <1>1, <1>2 DEF TypeOK, Progress
<1>4. ASSUME NEW q \in Requests, req'[q].pc = "adjusting", Exists
      PROVE  MakesUp(req'[q].next - req'[q].delta, bases', moves)
  <2>1. q # r /\ req[q].pc = "adjusting" BY <1>2, <1>4 DEF IdleRequest
  <2> DEFINE n == req[q].next - req[q].delta
  <2>2. req'[q].next - req'[q].delta = n BY <1>2, <2>1
  <2>3. MakesUp(n, bases, moves) BY <1>4, <2>1 DEF ItemInv, Explained
  <2> HIDE DEF n
  <2>4. MakesUp(n, bases', moves) BY <2>3, MakesUpMore
  <2> QED BY <2>2, <2>4
<1>5. Explained' BY <1>4 DEF Explained
<1>6. ASSUME NEW q \in Requests
      PROVE  /\ req'[q].pc = "adjusting" => req'[q].delta \in Deltas
             /\ Exists /\ req'[q].pc # "idle" => req'[q].rows <= Len(moves)
             /\ req'[q].pc = "adjusting" /\ ~req'[q].overlapped =>
                  stock' \in Nat /\ req'[q].loaded = stock' /\ req'[q].next = stock' + req'[q].delta
  <2>1. CASE q = r BY <1>2, <2>1 DEF IdleRequest
  <2>2. CASE q # r BY <1>2, <2>2 DEF ItemInv
  <2> QED BY <2>1, <2>2
<1> QED BY <1>3, <1>5, <1>6 DEF ItemInv

\* The removal of the item keeps the invariant.
LEMMA ItemDeleteKeeps ==
  ASSUME ItemInv, NEW r \in Requests, CommitItemDelete(r)
  PROVE  ItemInv'
<1>1. TypeOK /\ Finish(r, TRUE) /\ stock' = NoItem /\ moves' = <<>> /\ gone' = 0 /\ bases' = bases
  BY DEF ItemInv, CommitItemDelete
<1>2. /\ req' \in [Requests -> Progress] /\ req'[r] = IdleRequest
      /\ \A q \in Requests \ {r} :
           /\ req'[q].pc = req[q].pc /\ req'[q].loaded = req[q].loaded
           /\ req'[q].delta = req[q].delta /\ req'[q].next = req[q].next
           /\ req'[q].rows = req[q].rows
           /\ req'[q].overlapped <=> req[q].overlapped \/ req[q].pc # "idle"
  BY <1>1, FinishEffect
<1>3. moves' \in Seq(Deltas) /\ Len(moves') = 0 BY <1>1
<1>4. TypeOK' BY <1>1, <1>2, <1>3, MaxMovesAssumption DEF TypeOK, Progress
<1>5. ~Exists' BY <1>1 DEF Exists
<1>6. ASSUME NEW q \in Requests
      PROVE  /\ req'[q].pc = "adjusting" => req'[q].delta \in Deltas
             /\ req'[q].pc = "adjusting" => req'[q].overlapped
  <2>1. CASE q = r BY <1>2, <2>1 DEF IdleRequest
  <2>2. CASE q # r BY <1>2, <2>2 DEF ItemInv
  <2> QED BY <2>1, <2>2
<1> QED BY <1>4, <1>5, <1>6 DEF ItemInv, Explained

\* A quantity makes itself up.
LEMMA MakesUpBase ==
  ASSUME NEW q \in Nat, NEW S, q \in S, NEW m
  PROVE  MakesUp(q, S, m)
<1>1. {} \in SUBSET DOMAIN m OBVIOUS
<1>2. Sum(m, {}) = 0 BY FS_EmptySet, SumStep
<1>3. q = q + Sum(m, {}) BY <1>2
<1> QED BY <1>1, <1>3 DEF MakesUp

\* The creation of the item keeps the invariant.
LEMMA CreateItemKeeps ==
  ASSUME ItemInv, NEW q \in Quantities, CreateItem(q)
  PROVE  ItemInv'
<1>1. /\ TypeOK /\ stock' = q /\ bases' = {q} /\ moves' = <<>> /\ gone' = 0 /\ req' = req
      /\ \A r \in Requests : req[r].pc = "idle"
  BY DEF ItemInv, CreateItem
<1>2. q \in Nat BY QuantitiesAssumption
<1>3. moves' \in Seq(Deltas) /\ Len(moves') = 0 BY <1>1
<1>4. TypeOK' BY <1>1, <1>2, <1>3, MaxMovesAssumption DEF TypeOK
<1>5. MakesUp(stock', bases', moves')
  <2>1. q \in {q} OBVIOUS
  <2> DEFINE S == {q}
             m == moves'
  <2>2. q \in S BY <2>1
  <2> HIDE DEF S, m
  <2>3. MakesUp(q, S, m) BY <1>2, <2>2, MakesUpBase
  <2>4. MakesUp(stock', S, m) BY <1>1, <2>3
  <2>5. S = bases' BY <1>1 DEF S
  <2> QED BY <2>4, <2>5 DEF m
<1> QED BY <1>1, <1>4, <1>5 DEF ItemInv, Explained

\* Every step keeps the invariant, a push of a desktop too.
LEMMA ItemStep ==
  ASSUME ItemInv, [Next \/ Push]_vars
  PROVE  ItemInv'
<1>0. TypeOK BY DEF ItemInv
<1>1. CASE \E q \in Quantities : CreateItem(q) BY <1>1, CreateItemKeeps
<1>2. ASSUME NEW r \in Requests, NEW d \in Deltas, LoadForAdjust(r, d) PROVE ItemInv'
  <2>1. Start(r, "adjusting", d, stock + d) /\ Exists /\ stock + d >= 0 BY <1>2 DEF LoadForAdjust
  <2>2. d \in Int /\ stock \in Nat BY <1>0, <2>1, DeltaInt DEF TypeOK, Exists
  <2>3. stock + d \in Nat BY <2>1, <2>2
  <2> QED BY <2>1, <2>3, StartKeeps
<1>3. ASSUME NEW r \in Requests, LoadForDelete(r) PROVE ItemInv'
  BY <1>3, StartKeeps DEF LoadForDelete
<1>4. ASSUME NEW r \in Requests, CommitAdjust(r) PROVE ItemInv'
  BY <1>4, CommitAdjustKeeps
<1>5. ASSUME NEW r \in Requests, CommitItemDelete(r) PROVE ItemInv'
  BY <1>5, ItemDeleteKeeps
<1>6. ASSUME NEW r \in Requests, Rollback(r) PROVE ItemInv'
  <2>1. Finish(r, FALSE) /\ UNCHANGED <<stock, bases, moves, gone>> BY <1>6 DEF Rollback
  <2>2. Exists' => Exists /\ MakesUp(stock', bases', moves) BY <2>1 DEF ItemInv, Explained, Exists
  <2>3. /\ stock' \in Nat \cup {NoItem} /\ bases' \in SUBSET Nat /\ bases \subseteq bases'
        /\ gone' \in 0..Len(moves) /\ stock' = stock /\ moves' = moves
    BY <1>0, <2>1 DEF TypeOK
  <2> QED BY <2>1, <2>2, <2>3, OtherEndKeeps
<1>7. ASSUME NEW r \in Requests, NEW q \in Quantities, LoadForPush(r, q) PROVE ItemInv'
  <2>1. q \in Nat BY QuantitiesAssumption
  <2> QED BY <1>7, <2>1, StartKeeps DEF LoadForPush
<1>8. ASSUME NEW r \in Requests, CommitPush(r) PROVE ItemInv'
  <2>1. /\ Finish(r, TRUE) /\ moves' = moves /\ gone' = gone /\ Exists
        /\ stock' = Written(r)
        /\ bases' = IF req[r].next = req[r].loaded THEN bases ELSE bases \cup {req[r].next}
    BY <1>8 DEF CommitPush
  <2>2. req[r].next \in Nat /\ stock \in Nat /\ bases \in SUBSET Nat /\ gone \in 0..Len(moves)
    BY <1>0, <2>1 DEF TypeOK, Exists
  <2>3. MakesUp(stock', bases', moves)
    <3>1. CASE req[r].next = req[r].loaded
      <4>1. stock' = stock /\ bases' = bases BY <3>1, <2>1 DEF Written
      <4>2. MakesUp(stock, bases, moves) BY <2>1 DEF ItemInv, Explained
      <4> QED BY <4>1, <4>2
    <3>2. CASE req[r].next # req[r].loaded
      <4>1. stock' = req[r].next /\ bases' = bases \cup {req[r].next} BY <3>2, <2>1 DEF Written
      <4>2. stock' \in Nat /\ stock' \in bases' BY <4>1, <2>2
      <4> QED BY <4>2, MakesUpBase
    <3> QED BY <3>1, <3>2
  <2>4. stock' \in Nat /\ bases' \in SUBSET Nat /\ bases \subseteq bases'
    BY <2>1, <2>2 DEF Written
  <2> QED BY <2>1, <2>2, <2>3, <2>4, OtherEndKeeps
<1>9. ASSUME NEW r \in Requests, LoadForPushDelete(r) PROVE ItemInv'
  BY <1>9, StartKeeps DEF LoadForPushDelete
<1>10. ASSUME NEW r \in Requests, CommitPushDelete(r) PROVE ItemInv'
  <2>1. /\ Finish(r, TRUE) /\ UNCHANGED <<stock, bases, moves>> /\ Exists
        /\ gone' = IF req[r].rows > gone THEN req[r].rows ELSE gone
        /\ req[r].pc # "idle"
    BY <1>10 DEF CommitPushDelete
  <2>2. req[r].rows <= Len(moves) /\ req[r].rows \in Nat /\ Len(moves) \in Nat
    BY <1>0, <2>1, MaxMovesAssumption, SeqDeltas DEF ItemInv, TypeOK
  <2>3. gone' \in 0..Len(moves) BY <1>0, <2>1, <2>2 DEF TypeOK
  <2>4. Exists' => Exists /\ MakesUp(stock', bases', moves) BY <2>1 DEF ItemInv, Explained
  <2>5. stock' \in Nat \cup {NoItem} /\ bases' \in SUBSET Nat /\ bases \subseteq bases' /\ moves' = moves
    BY <1>0, <2>1 DEF TypeOK
  <2> QED BY <2>1, <2>3, <2>4, <2>5, OtherEndKeeps
<1>11. CASE UNCHANGED vars
  BY <1>11 DEF vars, ItemInv, TypeOK, Explained, Exists
<1> QED
  BY <1>1, <1>2, <1>3, <1>4, <1>5, <1>6, <1>7, <1>8, <1>9, <1>10, <1>11 DEF Next, Push

\* The invariant holds at the start.
LEMMA ItemStart == ASSUME Init PROVE ItemInv
<1>1. /\ stock = NoItem /\ bases = {} /\ moves = <<>> /\ gone = 0
      /\ req = [r \in Requests |-> IdleRequest]
  BY DEF Init
<1>2. moves \in Seq(Deltas) /\ Len(moves) = 0 BY <1>1
<1>3. IdleRequest \in Progress BY MaxMovesAssumption DEF IdleRequest, Progress
<1>4. req \in [Requests -> Progress] /\ \A r \in Requests : req[r].pc = "idle"
  BY <1>1, <1>3 DEF IdleRequest
<1>5. TypeOK BY <1>1, <1>2, <1>4, MaxMovesAssumption DEF TypeOK, Progress
<1> QED BY <1>1, <1>4, <1>5 DEF ItemInv, Explained, Exists

\* The invariant always holds.
LEMMA ItemAlways == SpecWithPush => []ItemInv
BY ItemStart, ItemStep, PTL DEF SpecWithPush

\* The invariant accounts for the quantity and for every one about to be written.
LEMMA InvExplains == ASSUME ItemInv PROVE StockExplained
<1>1. ASSUME Exists PROVE \E q \in bases, T \in SUBSET DOMAIN moves : stock = q + Net(T)
  BY <1>1, NetIsSum DEF ItemInv, Explained, MakesUp
<1>2. ASSUME Exists, NEW r \in Requests, req[r].pc = "adjusting"
      PROVE  \E q \in bases, T \in SUBSET DOMAIN moves : req[r].next = q + Net(T) + req[r].delta
  <2>1. PICK q \in bases, T \in SUBSET DOMAIN moves : req[r].next - req[r].delta = q + Sum(moves, T)
    BY <1>2 DEF ItemInv, Explained, MakesUp
  <2>2. TypeOK BY DEF ItemInv
  <2>3. q \in Nat /\ Sum(moves, T) \in Int BY <2>2, SeqDeltas, PlacesFinite
  <2>4. req[r].next \in Nat /\ req[r].delta \in Deltas \cup {0} BY <2>2 DEF TypeOK
  <2>5. req[r].delta \in Int BY <2>4, DeltaInt
  <2>6. req[r].next = q + Sum(moves, T) + req[r].delta BY <2>1, <2>3, <2>4, <2>5
  <2>7. Net(T) = Sum(moves, T) BY NetIsSum
  <2> QED BY <2>6, <2>7
<1> QED BY <1>1, <1>2 DEF StockExplained

\* The quantity is one that was set and some of the movements since, whatever overlaps
\* (inventory_service.py).
THEOREM StockAddsUp == SpecWithPush => []StockExplained
BY ItemAlways, InvExplains, PTL

\* An adjustment nothing has overlapped changes the quantity by the movement it records
\* (inventory_service.py).
THEOREM UndisturbedMovesCount == SpecWithPush => UndisturbedAddsUp
<1>1. ASSUME ItemInv, [Next \/ Push]_vars
      PROVE  [\A r \in Requests : CommitAdjust(r) /\ ~req[r].overlapped =>
                stock' = stock + moves'[Len(moves')]]_vars
  BY <1>1, CommitAdjustKeeps
<1> QED BY <1>1, ItemAlways, PTL DEF SpecWithPush, UndisturbedAddsUp

------------------------------------------------------------------------------
(* Attempts to log in *)

\* How often, at every tick.
Counts == [Ticks -> Nat]
Tries  == {NoTry} \cup [step : {"stamped", "allowed", "refused"}, at : Ticks, by : Workers, in : Stores]

\* The values of the variables; an attempt is counted by its own worker or by Redis.
LimiterTypeOK ==
  /\ tick \in Ticks
  /\ store \in [Workers -> Stores] /\ \A w \in Workers : store[w] \in {w, Redis}
  /\ stamps \in [Stores -> Counts] /\ tried \in [Stores -> Counts] /\ passed \in [Stores -> Counts]
  /\ newest \in [Stores -> Ticks] /\ overtaken \in [Stores -> BOOLEAN]
  /\ try \in [Attempts -> Tries]
  /\ \A a \in Attempts : try[a].step # "idle" /\ try[a].in # Redis => try[a].by = try[a].in

\* What a store has counted of the attempts it looks back at.
Looked(s, counted, let) == IF s = Redis THEN counted ELSE let

\* A store that no attempt has overtaken: nothing later than its newest attempt, at
\* most as many let in as tried, and in its window what it keeps is what it counted.
InOrder(s, kept, counted, let, last) ==
  \A i \in Ticks :
    /\ let[i] <= counted[i]
    /\ i > last => counted[i] = 0 /\ kept[i] = 0
    /\ last - Window < i => kept[i] = Looked(s, counted, let)[i]

\* The window has all that may be let in; Redis has counted the attempt itself too.
Full(s, counted, let, at) ==
  InWindow(Looked(s, counted, let), at) >= MaxRequests + (IF s = Redis THEN 1 ELSE 0)

\* A store nothing has overtaken: it is in order, no window of it lets in more than may be,
\* and an attempt it refused saw a full one.
StoreInv(s) ==
  ~overtaken[s] =>
    /\ InOrder(s, stamps[s], tried[s], passed[s], newest[s])
    /\ \A at \in Ticks : InWindow(passed[s], at) <= MaxRequests
    /\ \A a \in Attempts :
         try[a].step = "refused" /\ try[a].in = s => Full(s, tried[s], passed[s], try[a].at)

LimiterInv == LimiterTypeOK /\ \A s \in Stores : StoreInv(s)

\* The window that ends at a tick, and what is in it.
Win(at) == {i \in Ticks : at - Window < i /\ i <= at}

\* There are finitely many ticks, and they are naturals.
LEMMA TicksFinite == IsFiniteSet(Ticks) /\ Ticks \subseteq Nat
BY WindowAssumption, FS_Interval DEF Ticks

\* A window is a finite set of ticks.
LEMMA WinFinite == ASSUME NEW at PROVE IsFiniteSet(Win(at)) /\ Win(at) \subseteq Ticks
<1>1. Win(at) \subseteq Ticks BY DEF Win
<1> QED BY <1>1, TicksFinite, FS_Subset

\* What a window holds is a sum over its ticks.
LEMMA WindowSums ==
  ASSUME NEW count, NEW at
  PROVE  Total(count) = Sum(count, Ticks) /\ InWindow(count, at) = Sum(count, Win(at))
BY DEF Total, InWindow, Sum, Win

\* What a window holds is a natural.
LEMMA WindowNat == ASSUME NEW count \in Counts, NEW at PROVE InWindow(count, at) \in Nat
<1>1. \A i \in Win(at) : count[i] \in Nat BY WinFinite DEF Counts
<1>2. Sum(count, Win(at)) \in Nat BY <1>1, WinFinite, SumNat
<1> QED BY <1>2, WindowSums

\* Fewer attempts at every time of a window make a smaller sum.
LEMMA WindowGrows ==
  ASSUME NEW f \in Counts, NEW g \in Counts, NEW at, \A i \in Ticks : f[i] <= g[i]
  PROVE  InWindow(f, at) <= InWindow(g, at)
<1> DEFINE W == Win(at)
<1>1. IsFiniteSet(W) /\ W \subseteq Ticks BY WinFinite
<1> HIDE DEF W
<1>2. (\A i \in W : f[i] \in Nat) /\ (\A i \in W : g[i] \in Nat) BY <1>1 DEF Counts
<1>3. Under(f, W, g, W) BY <1>1 DEF Under
<1>4. Sum(f, W) <= Sum(g, W) BY <1>1, <1>2, <1>3, SumUnder
<1>5. InWindow(f, at) = Sum(f, W) /\ InWindow(g, at) = Sum(g, W) BY WindowSums DEF W
<1> QED BY <1>4, <1>5

\* What is left of the stamps is what the window holds.
LEMMA WhatIsLeft ==
  ASSUME NEW s, NEW kept \in Counts, NEW counted \in Counts, NEW let \in Counts,
         NEW last \in Ticks, NEW at \in Ticks, last <= at, InOrder(s, kept, counted, let, last)
  PROVE  Total(Remaining(kept, at)) = InWindow(Looked(s, counted, let), at)
<1> DEFINE k == Remaining(kept, at)
           c == Looked(s, counted, let)
           W == Win(at)
<1>1. c \in Counts BY DEF Looked
<1>2. k \in Counts /\ \A i \in Ticks : k[i] = IF i <= at - Window THEN 0 ELSE kept[i]
  BY DEF Remaining, Counts
<1>3. IsFiniteSet(W) /\ W \subseteq Ticks BY WinFinite
<1>4. at \in Nat /\ last \in Nat /\ Window \in Nat BY TicksFinite, WindowAssumption
<1>5. ASSUME NEW i \in Ticks PROVE IF i \in W THEN k[i] = c[i] ELSE k[i] = 0
  <2>1. i \in Nat BY TicksFinite
  <2>2. CASE i <= at - Window BY <2>1, <2>2, <1>2, <1>4 DEF Win
  <2>3. CASE i > at BY <2>1, <2>3, <1>2, <1>4 DEF Win, InOrder
  <2>4. CASE at - Window < i /\ i <= at
    <3>1. i \in W /\ k[i] = kept[i] BY <2>1, <2>4, <1>2, <1>4 DEF Win
    <3>2. last - Window < i BY <2>1, <2>4, <1>4
    <3> QED BY <3>1, <3>2 DEF InOrder
  <2> QED BY <2>1, <2>2, <2>3, <2>4, <1>4
<1>6. Total(k) = Sum(k, Ticks) /\ InWindow(c, at) = Sum(c, W) BY WindowSums
<1> HIDE DEF k, c, W
<1>7. (\A i \in Ticks : k[i] \in Nat) /\ (\A i \in W : c[i] \in Nat) BY <1>1, <1>2, <1>3 DEF Counts
<1>8. Under(k, Ticks, c, W)
  <2>1. ASSUME NEW i \in Ticks PROVE k[i] = 0 \/ (i \in W /\ k[i] <= c[i]) BY <1>5, <1>7
  <2> QED BY <2>1 DEF Under
<1>9. Under(c, W, k, Ticks)
  <2>1. ASSUME NEW i \in W PROVE c[i] = 0 \/ (i \in Ticks /\ c[i] <= k[i]) BY <1>3, <1>5, <1>7
  <2> QED BY <2>1 DEF Under
<1>10. Sum(k, Ticks) <= Sum(c, W) BY <1>3, <1>7, <1>8, TicksFinite, SumUnder
<1>11. Sum(c, W) <= Sum(k, Ticks) BY <1>3, <1>7, <1>9, TicksFinite, SumUnder
<1>12. Sum(c, W) \in Nat /\ Sum(k, Ticks) \in Nat BY <1>3, <1>7, TicksFinite, SumNat
<1>13. Sum(k, Ticks) = Sum(c, W) BY <1>10, <1>11, <1>12
<1>14. Total(k) = InWindow(c, at) BY <1>6, <1>13
<1> QED BY <1>14 DEF k, c

\* One more attempt at a tick.
LEMMA PlusCounts ==
  ASSUME NEW f \in Counts, NEW x \in Ticks
  PROVE  Plus(f, x) \in Counts /\ Plus(f, x)[x] = f[x] + 1 /\ \A i \in Ticks \ {x} : Plus(f, x)[i] = f[i]
<1>1. Plus(f, x) = [f EXCEPT ![x] = f[x] + 1] BY DEF Plus
<1>2. f[x] + 1 \in Nat BY DEF Counts
<1> QED BY <1>1, <1>2 DEF Counts

\* One more attempt is one more in the window that ends with it.
LEMMA WindowPlus ==
  ASSUME NEW f \in Counts, NEW x \in Ticks
  PROVE  InWindow(Plus(f, x), x) = InWindow(f, x) + 1
<1> DEFINE g == Plus(f, x)
           W == Win(x)
<1>1. g \in Counts /\ g[x] = f[x] + 1 /\ \A i \in Ticks \ {x} : g[i] = f[i] BY PlusCounts
<1>2. IsFiniteSet(W) /\ W \subseteq Ticks BY WinFinite
<1>3. x \in W BY WindowAssumption, TicksFinite DEF Win
<1>4. InWindow(g, x) = Sum(g, W) /\ InWindow(f, x) = Sum(f, W) BY WindowSums
<1> HIDE DEF g, W
<1>5. \A i \in W : f[i] \in Nat BY <1>2 DEF Counts
<1>6. \A i \in W \ {x} : g[i] = f[i] BY <1>1, <1>2
<1>7. Sum(g, W) = Sum(f, W) + 1 BY <1>1, <1>2, <1>3, <1>5, <1>6, SumPlusOne
<1>8. InWindow(g, x) = InWindow(f, x) + 1 BY <1>4, <1>7
<1> QED BY <1>8 DEF g

\* With nothing later than last, no window holds more than the one that ends there,
\* unless it ends before.
LEMMA LastWindow ==
  ASSUME NEW f \in Counts, NEW last \in Ticks, NEW at \in Ticks, last <= at,
         \A i \in Ticks : i > last => f[i] = 0
  PROVE  InWindow(f, at) <= InWindow(f, last)
<1> DEFINE V == Win(at)
           W == Win(last)
<1>1. IsFiniteSet(V) /\ V \subseteq Ticks /\ IsFiniteSet(W) /\ W \subseteq Ticks BY WinFinite
<1>2. ASSUME NEW i \in V PROVE f[i] = 0 \/ (i \in W /\ f[i] <= f[i])
  <2>1. i \in Nat /\ at \in Nat /\ last \in Nat /\ Window \in Nat /\ i \in Ticks /\ f[i] \in Nat
    BY <1>1, TicksFinite, WindowAssumption DEF Counts
  <2>2. CASE i > last BY <2>1, <2>2
  <2>3. CASE i <= last BY <2>1, <2>3 DEF Win
  <2> QED BY <2>1, <2>2, <2>3
<1>3. InWindow(f, at) = Sum(f, V) /\ InWindow(f, last) = Sum(f, W) BY WindowSums
<1> HIDE DEF V, W
<1>4. Under(f, V, f, W) BY <1>2 DEF Under
<1>5. (\A i \in V : f[i] \in Nat) /\ (\A i \in W : f[i] \in Nat) BY <1>1 DEF Counts
<1>6. Sum(f, V) <= Sum(f, W) BY <1>1, <1>4, <1>5, SumUnder
<1> QED BY <1>3, <1>6

\* An attempt earlier in time than the window is not in its sum.
LEMMA WindowBefore ==
  ASSUME NEW f \in Counts, NEW x \in Ticks, NEW at \in Ticks, at < x
  PROVE  InWindow(Plus(f, x), at) = InWindow(f, at)
<1> DEFINE g == Plus(f, x)
           W == Win(at)
<1>1. \A i \in Ticks \ {x} : g[i] = f[i] BY PlusCounts
<1>2. IsFiniteSet(W) /\ W \subseteq Ticks BY WinFinite
<1>3. x \notin W BY TicksFinite DEF Win
<1>4. InWindow(g, at) = Sum(g, W) /\ InWindow(f, at) = Sum(f, W) BY WindowSums
<1> HIDE DEF g, W
<1>5. \A i \in W : g[i] = f[i] BY <1>1, <1>2, <1>3
<1>6. Sum(g, W) = Sum(f, W) BY <1>2, <1>5, SumCong
<1>7. InWindow(g, at) = InWindow(f, at) BY <1>4, <1>6
<1> QED BY <1>7 DEF g

\* What is left of the stamps: those of the window.
LEMMA RemainingCounts ==
  ASSUME NEW k \in Counts, NEW at \in Ticks
  PROVE  /\ Remaining(k, at) \in Counts
         /\ \A i \in Ticks : Remaining(k, at)[i] = IF i <= at - Window THEN 0 ELSE k[i]
BY DEF Remaining, Counts

\* What the two stores answer.
Answered(s, kept, at) == IF s = Redis \/ Total(Remaining(kept, at)) < MaxRequests
                         THEN Plus(Remaining(kept, at), at) ELSE Remaining(kept, at)
Allows(kept, at) == Total(Remaining(kept, at)) < MaxRequests
Let(let, kept, at) == IF Allows(kept, at) THEN Plus(let, at) ELSE let

\* One more attempt in order: no window lets in too many, and an attempt that is refused
\* sees a full one.
LEMMA OrderedBound ==
  ASSUME NEW s, NEW kept \in Counts, NEW counted \in Counts, NEW let \in Counts,
         NEW last \in Ticks, NEW at \in Ticks, last <= at, InOrder(s, kept, counted, let, last),
         \A n \in Ticks : InWindow(let, n) <= MaxRequests
  PROVE  /\ \A n \in Ticks : InWindow(Let(let, kept, at), n) <= MaxRequests
         /\ ~Allows(kept, at) => Full(s, Plus(counted, at), let, at)
<1> DEFINE c == Looked(s, counted, let)
           p == Plus(let, at)
<1>1. c \in Counts /\ Total(Remaining(kept, at)) = InWindow(c, at)
  BY WhatIsLeft DEF Looked
<1>2. InWindow(c, at) \in Nat /\ InWindow(let, at) \in Nat /\ InWindow(counted, at) \in Nat
  BY <1>1, WindowNat
<1>3. MaxRequests \in Nat BY WindowAssumption
<1>4. InWindow(let, at) <= InWindow(c, at)
  <2>1. CASE s = Redis
    <3>1. \A i \in Ticks : let[i] <= counted[i] BY DEF InOrder
    <3>2. InWindow(let, at) <= InWindow(counted, at) BY <3>1, WindowGrows
    <3> QED BY <2>1, <3>2 DEF Looked
  <2>2. CASE s # Redis BY <2>2, <1>2 DEF Looked
  <2> QED BY <2>1, <2>2
<1>5. ASSUME Allows(kept, at), NEW n \in Ticks PROVE InWindow(p, n) <= MaxRequests
  <2>1. p \in Counts /\ \A i \in Ticks \ {at} : p[i] = let[i] BY PlusCounts
  <2>2. n \in Nat /\ at \in Nat /\ last \in Nat BY TicksFinite
  <2>3. CASE n < at
    <3>1. InWindow(p, n) = InWindow(let, n) BY <2>3, WindowBefore
    <3> QED BY <3>1
  <2>4. CASE at <= n
    <3>1. InWindow(p, at) = InWindow(let, at) + 1 BY WindowPlus
    <3>2. \A i \in Ticks : i > at => p[i] = 0
      <4> TAKE i \in Ticks
      <4>1. i \in Nat BY TicksFinite
      <4>2. let[i] \in Nat /\ counted[i] \in Nat BY DEF Counts
      <4>3. i > last => counted[i] = 0 /\ let[i] <= counted[i] BY DEF InOrder
      <4> HIDE DEF p
      <4> QED BY <4>1, <4>2, <4>3, <2>1, <2>2
    <3> HIDE DEF p
    <3>3. InWindow(p, n) <= InWindow(p, at) BY <2>1, <2>4, <3>2, LastWindow
    <3>4. InWindow(p, n) \in Nat BY <2>1, WindowNat
    <3>5. InWindow(c, at) < MaxRequests BY <1>1, <1>5 DEF Allows
    <3> HIDE DEF c
    <3> QED BY <3>1, <3>3, <3>4, <3>5, <1>2, <1>3, <1>4
  <2> QED BY <2>2, <2>3, <2>4
<1>6. ASSUME ~Allows(kept, at) PROVE Full(s, Plus(counted, at), let, at)
  <2>1. InWindow(c, at) >= MaxRequests BY <1>1, <1>2, <1>3, <1>6 DEF Allows
  <2>2. CASE s = Redis
    <3>1. InWindow(Plus(counted, at), at) = InWindow(counted, at) + 1 BY WindowPlus
    <3>2. InWindow(counted, at) >= MaxRequests BY <2>1, <2>2 DEF Looked
    <3>3. InWindow(Plus(counted, at), at) >= MaxRequests + 1 BY <3>1, <3>2, <1>2, <1>3
    <3> QED BY <2>2, <3>3 DEF Full, Looked
  <2>3. CASE s # Redis
    <3>1. InWindow(let, at) >= MaxRequests + 0 BY <2>1, <2>3, <1>3 DEF Looked
    <3> QED BY <2>3, <3>1 DEF Full, Looked
  <2> QED BY <2>2, <2>3
<1> QED BY <1>5, <1>6 DEF Let

\* One more attempt in order leaves the store in order.
LEMMA OrderedStays ==
  ASSUME NEW s, NEW kept \in Counts, NEW counted \in Counts, NEW let \in Counts,
         NEW last \in Ticks, NEW at \in Ticks, last <= at, InOrder(s, kept, counted, let, last)
  PROVE  InOrder(s, Answered(s, kept, at), Plus(counted, at), Let(let, kept, at), at)
<1> DEFINE k == Answered(s, kept, at)
           c == Plus(counted, at)
           p == Let(let, kept, at)
           r == Remaining(kept, at)
<1>1. r \in Counts /\ \A i \in Ticks : r[i] = IF i <= at - Window THEN 0 ELSE kept[i]
  BY RemainingCounts
<1>2. c[at] = counted[at] + 1 /\ \A i \in Ticks \ {at} : c[i] = counted[i] BY PlusCounts
<1>3. /\ p[at] = IF Allows(kept, at) THEN let[at] + 1 ELSE let[at]
      /\ \A i \in Ticks \ {at} : p[i] = let[i]
  BY PlusCounts DEF Let
<1>4. /\ k[at] = IF s = Redis \/ Allows(kept, at) THEN r[at] + 1 ELSE r[at]
      /\ \A i \in Ticks \ {at} : k[i] = r[i]
  <2>1. Plus(r, at)[at] = r[at] + 1 /\ \A i \in Ticks \ {at} : Plus(r, at)[i] = r[i]
    BY <1>1, PlusCounts
  <2> QED BY <2>1 DEF Answered, Allows
<1> HIDE DEF k, c, p, r
<1>5. ASSUME NEW i \in Ticks
      PROVE  /\ p[i] <= c[i]
             /\ i > at => c[i] = 0 /\ k[i] = 0
             /\ at - Window < i => k[i] = Looked(s, c, p)[i]
  <2>1. /\ i \in Nat /\ at \in Nat /\ last \in Nat /\ Window \in Nat \ {0}
        /\ kept[i] \in Nat /\ counted[i] \in Nat /\ let[i] \in Nat
    BY TicksFinite, WindowAssumption DEF Counts
  <2>2. /\ let[i] <= counted[i]
        /\ i > last => counted[i] = 0 /\ kept[i] = 0
        /\ last - Window < i => kept[i] = Looked(s, counted, let)[i]
    BY DEF InOrder
  <2>3. at - Window < i => r[i] = kept[i] /\ kept[i] = Looked(s, counted, let)[i]
    BY <2>1, <2>2, <1>1
  <2>4. CASE i = at
    <3>1. r[i] = Looked(s, counted, let)[i] BY <2>1, <2>3, <2>4
    <3>2. p[i] <= c[i] BY <2>1, <2>2, <2>4, <1>2, <1>3
    <3>3. k[i] = Looked(s, c, p)[i] BY <3>1, <2>4, <1>2, <1>3, <1>4 DEF Looked
    <3> QED BY <3>2, <3>3, <2>1, <2>4
  <2>5. CASE i # at
    <3>1. i \in Ticks \ {at} BY <2>5
    <3>2. p[i] = let[i] /\ c[i] = counted[i] /\ k[i] = r[i] BY <3>1, <1>2, <1>3, <1>4
    <3>3. i > at => r[i] = 0 /\ counted[i] = 0 BY <2>1, <2>2, <2>3
    <3>4. at - Window < i => k[i] = Looked(s, c, p)[i] BY <3>2, <2>3 DEF Looked
    <3> QED BY <3>2, <3>3, <3>4, <2>2
  <2> QED BY <2>4, <2>5
<1>6. InOrder(s, k, c, p, at) BY <1>5 DEF InOrder
<1> QED BY <1>6 DEF k, c, p

\* A full window stays full when more is counted.
LEMMA FullStays ==
  ASSUME NEW s, NEW c1 \in Counts, NEW c2 \in Counts, NEW l1 \in Counts, NEW l2 \in Counts,
         \A i \in Ticks : c1[i] <= c2[i], \A i \in Ticks : l1[i] <= l2[i],
         NEW at \in Ticks, Full(s, c1, l1, at)
  PROVE  Full(s, c2, l2, at)
<1> DEFINE e == MaxRequests + (IF s = Redis THEN 1 ELSE 0)
<1>1. e \in Nat BY WindowAssumption
<1>2. InWindow(c1, at) <= InWindow(c2, at) /\ InWindow(l1, at) <= InWindow(l2, at) BY WindowGrows
<1>3. /\ InWindow(c1, at) \in Nat /\ InWindow(c2, at) \in Nat
      /\ InWindow(l1, at) \in Nat /\ InWindow(l2, at) \in Nat
  BY WindowNat
<1>4. InWindow(Looked(s, c1, l1), at) >= e BY DEF Full
<1> HIDE DEF e
<1>5. CASE s = Redis
  <2>1. InWindow(c1, at) >= e BY <1>4, <1>5 DEF Looked
  <2>2. InWindow(c2, at) >= e BY <2>1, <1>1, <1>2, <1>3
  <2> QED BY <1>5, <2>2 DEF Full, Looked, e
<1>6. CASE s # Redis
  <2>1. InWindow(l1, at) >= e BY <1>4, <1>6 DEF Looked
  <2>2. InWindow(l2, at) >= e BY <2>1, <1>1, <1>2, <1>3
  <2> QED BY <1>6, <2>2 DEF Full, Looked, e
<1> QED BY <1>5, <1>6

\* An attempt that has begun has a time, a worker and a store.
LEMMA AttemptKinds ==
  ASSUME LimiterTypeOK, NEW a \in Attempts, try[a].step # "idle"
  PROVE  /\ try[a] \in [step : {"stamped", "allowed", "refused"}, at : Ticks, by : Workers, in : Stores]
         /\ try[a].at \in Ticks /\ try[a].in \in Stores /\ try[a].by \in Workers
BY DEF LimiterTypeOK, Tries, NoTry

\* What is_allowed makes of an attempt.
Judged(a, s, at) ==
  /\ s \in Stores /\ at \in Ticks /\ UNCHANGED <<tick, store>>
  /\ stamps' = [stamps EXCEPT ![s] = Answered(s, stamps[s], at)]
  /\ tried' = [tried EXCEPT ![s] = Plus(tried[s], at)]
  /\ passed' = [passed EXCEPT ![s] = Let(passed[s], stamps[s], at)]
  /\ newest' = [newest EXCEPT ![s] = IF at > newest[s] THEN at ELSE newest[s]]
  /\ overtaken' = [overtaken EXCEPT ![s] = IF at < newest[s] THEN TRUE ELSE overtaken[s]]
  /\ try' = [try EXCEPT ![a].step = IF Allows(stamps[s], at) THEN "allowed" ELSE "refused"]

\* An attempt that is judged changes its own store as Judged says.
LEMMA JudgedEffect ==
  ASSUME LimiterTypeOK, NEW a \in Attempts, is_allowed(a), NEW s, NEW at, s = try[a].in, at = try[a].at
  PROVE  Judged(a, s, at)
<1> DEFINE out == IF s = Redis THEN _redis_check(s, at) ELSE _memory_check(s, at)
<1>1. s \in Stores /\ at \in Ticks BY AttemptKinds DEF is_allowed
<1>2. /\ UNCHANGED <<tick, store>>
      /\ stamps' = [stamps EXCEPT ![s] = out.stamps]
      /\ tried' = [tried EXCEPT ![s] = Plus(tried[s], at)]
      /\ passed' = IF out.allowed THEN [passed EXCEPT ![s] = Plus(passed[s], at)] ELSE passed
      /\ newest' = IF at > newest[s] THEN [newest EXCEPT ![s] = at] ELSE newest
      /\ overtaken' = IF at < newest[s] THEN [overtaken EXCEPT ![s] = TRUE] ELSE overtaken
      /\ try' = [try EXCEPT ![a].step = IF out.allowed THEN "allowed" ELSE "refused"]
  BY DEF is_allowed
<1>3. stamps[s] \in Counts /\ passed[s] \in Counts BY <1>1 DEF LimiterTypeOK
<1>4. Total(Remaining(stamps[s], at)) \in Nat
  <2> DEFINE k == Remaining(stamps[s], at)
  <2>1. k \in Counts BY <1>1, <1>3, RemainingCounts
  <2> HIDE DEF k
  <2>2. \A i \in Ticks : k[i] \in Nat BY <2>1 DEF Counts
  <2>3. Sum(k, Ticks) \in Nat BY <2>2, TicksFinite, SumNat
  <2>4. Total(k) \in Nat BY <2>3, WindowSums
  <2> QED BY <2>4 DEF k
<1>5. MaxRequests \in Nat BY WindowAssumption
<1>11. try' = [try EXCEPT ![a].step = IF out.allowed THEN "allowed" ELSE "refused"] BY <1>2
<1>6. out.stamps = Answered(s, stamps[s], at) /\ (out.allowed <=> Allows(stamps[s], at))
  <2> DEFINE n == Total(Remaining(stamps[s], at))
  <2>1. (n >= MaxRequests) <=> ~(n < MaxRequests) BY <1>4, <1>5
  <2>2. CASE s = Redis
    BY <2>2 DEF _redis_check, Answered, Allows
  <2>3. CASE s # Redis
    BY <2>1, <2>3 DEF _memory_check, Answered, Allows
  <2> QED BY <2>2, <2>3
<1> HIDE DEF out
<1>7. passed' = [passed EXCEPT ![s] = Let(passed[s], stamps[s], at)]
  <2>1. passed = [passed EXCEPT ![s] = passed[s]] BY <1>1 DEF LimiterTypeOK
  <2> QED BY <2>1, <1>2, <1>6 DEF Let
<1>8. newest' = [newest EXCEPT ![s] = IF at > newest[s] THEN at ELSE newest[s]]
  BY <1>1, <1>2 DEF LimiterTypeOK
<1>9. overtaken' = [overtaken EXCEPT ![s] = IF at < newest[s] THEN TRUE ELSE overtaken[s]]
  BY <1>1, <1>2 DEF LimiterTypeOK
<1>10. try' = [try EXCEPT ![a].step = IF Allows(stamps[s], at) THEN "allowed" ELSE "refused"]
  <2> DEFINE said(ok) == IF ok THEN "allowed" ELSE "refused"
  <2>1. said(out.allowed) = said(Allows(stamps[s], at)) BY <1>6
  <2>2. try' = [try EXCEPT ![a].step = said(out.allowed)] BY <1>11
  <2> HIDE DEF said
  <2>3. try' = [try EXCEPT ![a].step = said(Allows(stamps[s], at))] BY <2>1, <2>2
  <2> QED BY <2>3 DEF said
<1> QED BY <1>1, <1>2, <1>6, <1>7, <1>8, <1>9, <1>10 DEF Judged

\* An attempt that is judged keeps the invariant.
LEMMA JudgedKeeps ==
  ASSUME LimiterInv, NEW a \in Attempts, is_allowed(a)
  PROVE  LimiterInv'
<1>0. LimiterTypeOK BY DEF LimiterInv
<1>1. PICK s, at : s = try[a].in /\ at = try[a].at OBVIOUS
<1>2. /\ s \in Stores /\ at \in Ticks /\ UNCHANGED <<tick, store>>
      /\ stamps' = [stamps EXCEPT ![s] = Answered(s, stamps[s], at)]
      /\ tried' = [tried EXCEPT ![s] = Plus(tried[s], at)]
      /\ passed' = [passed EXCEPT ![s] = Let(passed[s], stamps[s], at)]
      /\ newest' = [newest EXCEPT ![s] = IF at > newest[s] THEN at ELSE newest[s]]
      /\ overtaken' = [overtaken EXCEPT ![s] = IF at < newest[s] THEN TRUE ELSE overtaken[s]]
      /\ try' = [try EXCEPT ![a].step = IF Allows(stamps[s], at) THEN "allowed" ELSE "refused"]
  <2>1. Judged(a, s, at) BY <1>0, <1>1, JudgedEffect
  <2> QED BY <2>1 DEF Judged
<1>3. /\ stamps[s] \in Counts /\ tried[s] \in Counts /\ passed[s] \in Counts /\ newest[s] \in Ticks
      /\ newest[s] \in Nat /\ at \in Nat /\ overtaken[s] \in BOOLEAN
  BY <1>0, <1>2, TicksFinite DEF LimiterTypeOK
<1>4. /\ Answered(s, stamps[s], at) \in Counts /\ Plus(tried[s], at) \in Counts
      /\ Let(passed[s], stamps[s], at) \in Counts
      /\ \A i \in Ticks : tried[s][i] <= Plus(tried[s], at)[i]
      /\ \A i \in Ticks : passed[s][i] <= Let(passed[s], stamps[s], at)[i]
  <2>1. Remaining(stamps[s], at) \in Counts BY <1>2, <1>3, RemainingCounts
  <2>2. Plus(Remaining(stamps[s], at), at) \in Counts BY <2>1, <1>2, PlusCounts
  <2>3. ASSUME NEW f \in Counts
        PROVE  Plus(f, at) \in Counts /\ \A i \in Ticks : f[i] <= Plus(f, at)[i]
    <3>1. Plus(f, at) \in Counts /\ Plus(f, at)[at] = f[at] + 1 /\ \A i \in Ticks \ {at} : Plus(f, at)[i] = f[i]
      BY <1>2, PlusCounts
    <3>2. \A i \in Ticks : f[i] \in Nat BY DEF Counts
    <3> QED BY <3>1, <3>2
  <2>4. \A i \in Ticks : passed[s][i] <= passed[s][i] BY <1>3 DEF Counts
  <2> QED BY <2>1, <2>2, <2>3, <2>4, <1>3 DEF Answered, Let
<1>5. /\ stamps' \in [Stores -> Counts] /\ tried' \in [Stores -> Counts] /\ passed' \in [Stores -> Counts]
      /\ stamps'[s] = Answered(s, stamps[s], at) /\ tried'[s] = Plus(tried[s], at)
      /\ passed'[s] = Let(passed[s], stamps[s], at)
      /\ \A t \in Stores \ {s} : stamps'[t] = stamps[t] /\ tried'[t] = tried[t] /\ passed'[t] = passed[t]
  BY <1>0, <1>2, <1>4 DEF LimiterTypeOK
<1>6. /\ newest' \in [Stores -> Ticks] /\ overtaken' \in [Stores -> BOOLEAN]
      /\ newest'[s] = (IF at > newest[s] THEN at ELSE newest[s])
      /\ overtaken'[s] = (IF at < newest[s] THEN TRUE ELSE overtaken[s])
      /\ \A t \in Stores \ {s} : newest'[t] = newest[t] /\ overtaken'[t] = overtaken[t]
  BY <1>0, <1>2, <1>3 DEF LimiterTypeOK
<1>7. /\ try' \in [Attempts -> Tries]
      /\ try'[a].step = (IF Allows(stamps[s], at) THEN "allowed" ELSE "refused")
      /\ try'[a].at = at /\ try'[a].in = s /\ try'[a].by = try[a].by
      /\ \A b \in Attempts \ {a} : try'[b] = try[b]
  <2>1. try[a] \in [step : {"stamped", "allowed", "refused"}, at : Ticks, by : Workers, in : Stores]
    BY <1>0, AttemptKinds DEF is_allowed
  <2> DEFINE word == IF Allows(stamps[s], at) THEN "allowed" ELSE "refused"
             e == [try[a] EXCEPT !.step = word]
  <2>2. e \in Tries /\ e.step = word /\ e.at = at /\ e.in = s /\ e.by = try[a].by
    BY <2>1, <1>1 DEF Tries
  <2>3. try' = [try EXCEPT ![a] = e] BY <1>2
  <2> HIDE DEF e
  <2> QED BY <2>2, <2>3, <1>0 DEF LimiterTypeOK
<1>8. LimiterTypeOK'
  <2>1. \A b \in Attempts : try'[b].step # "idle" /\ try'[b].in # Redis => try'[b].by = try'[b].in
    <3>1. try[a].step # "idle" BY DEF is_allowed
    <3> QED BY <1>0, <1>1, <1>7, <3>1 DEF LimiterTypeOK
  <2> QED BY <1>0, <1>2, <1>5, <1>6, <1>7, <2>1 DEF LimiterTypeOK
<1>9. ASSUME NEW t \in Stores, t # s PROVE StoreInv(t)'
  <2>1. StoreInv(t) BY DEF LimiterInv
  <2>2. \A b \in Attempts : try'[b].step = "refused" /\ try'[b].in = t => try'[b] = try[b]
    BY <1>7, <1>9
  <2> QED BY <2>1, <2>2, <1>5, <1>6, <1>9 DEF StoreInv
<1>10. StoreInv(s)'
  <2>1. SUFFICES ASSUME ~overtaken'[s]
        PROVE  /\ InOrder(s, stamps'[s], tried'[s], passed'[s], newest'[s])
               /\ \A n \in Ticks : InWindow(passed'[s], n) <= MaxRequests
               /\ \A b \in Attempts :
                    try'[b].step = "refused" /\ try'[b].in = s => Full(s, tried'[s], passed'[s], try'[b].at)
    BY DEF StoreInv
  <2>2. newest[s] <= at /\ ~overtaken[s] /\ newest'[s] = at BY <2>1, <1>3, <1>6
  <2>3. /\ InOrder(s, stamps[s], tried[s], passed[s], newest[s])
        /\ \A n \in Ticks : InWindow(passed[s], n) <= MaxRequests
        /\ \A b \in Attempts :
             try[b].step = "refused" /\ try[b].in = s => Full(s, tried[s], passed[s], try[b].at)
    BY <2>2, <1>2 DEF LimiterInv, StoreInv
  <2>4. InOrder(s, stamps'[s], tried'[s], passed'[s], newest'[s])
    BY <2>2, <2>3, <1>2, <1>3, <1>5, OrderedStays
  <2>5. /\ \A n \in Ticks : InWindow(Let(passed[s], stamps[s], at), n) <= MaxRequests
        /\ ~Allows(stamps[s], at) => Full(s, Plus(tried[s], at), passed[s], at)
    BY <2>2, <2>3, <1>2, <1>3, OrderedBound
  <2>6. ASSUME NEW b \in Attempts, try'[b].step = "refused", try'[b].in = s
        PROVE  Full(s, tried'[s], passed'[s], try'[b].at)
    <3>1. CASE b = a
      <4>1. ~Allows(stamps[s], at) BY <1>7, <2>6, <3>1
      <4>2. passed'[s] = passed[s] BY <4>1, <1>5 DEF Let
      <4> QED BY <4>1, <4>2, <2>5, <1>5, <1>7, <3>1
    <3>2. CASE b # a
      <4>1. try'[b] = try[b] BY <1>7, <3>2
      <4>2. Full(s, tried[s], passed[s], try[b].at) BY <4>1, <2>3, <2>6
      <4>3. try[b].at \in Ticks BY <1>0, <4>1, <2>6, AttemptKinds
      <4>4. Full(s, Plus(tried[s], at), Let(passed[s], stamps[s], at), try[b].at)
        BY <4>2, <4>3, <1>3, <1>4, FullStays
      <4> QED BY <4>1, <4>4, <1>5
    <3> QED BY <3>1, <3>2
  <2> QED BY <2>4, <2>5, <2>6, <1>5
<1> QED BY <1>8, <1>9, <1>10 DEF LimiterInv

\* Nothing but the attempts changes, and none is turned away.
LEMMA TryKeeps ==
  ASSUME LimiterInv, NEW a \in Attempts, NEW e \in Tries, e.step # "refused",
         e.step # "idle" /\ e.in # Redis => e.by = e.in,
         try' = [try EXCEPT ![a] = e], tick' = tick,
         UNCHANGED <<store, stamps, tried, passed, newest, overtaken>>
  PROVE  LimiterInv'
<1>1. LimiterTypeOK BY DEF LimiterInv
<1>2. try' \in [Attempts -> Tries] /\ try'[a] = e /\ \A b \in Attempts \ {a} : try'[b] = try[b]
  BY <1>1 DEF LimiterTypeOK
<1>3. LimiterTypeOK' BY <1>1, <1>2 DEF LimiterTypeOK
<1>4. ASSUME NEW t \in Stores PROVE StoreInv(t)'
  <2>1. StoreInv(t) BY DEF LimiterInv
  <2>2. \A b \in Attempts : try'[b].step = "refused" => try'[b] = try[b] BY <1>2
  <2> QED BY <2>1, <2>2 DEF StoreInv
<1> QED BY <1>3, <1>4 DEF LimiterInv

\* With nothing counted every window is empty and every store is in order.
LEMMA NothingCounted ==
  /\ NoStamps \in Counts /\ \A at : InWindow(NoStamps, at) = 0
  /\ \A s \in Stores : \A last \in Ticks : InOrder(s, NoStamps, NoStamps, NoStamps, last)
<1>1. NoStamps \in Counts /\ \A i \in Ticks : NoStamps[i] = 0 BY DEF NoStamps, Counts
<1>2. ASSUME NEW at PROVE InWindow(NoStamps, at) = 0
  <2> DEFINE W == Win(at)
  <2>1. IsFiniteSet(W) /\ W \subseteq Ticks BY WinFinite
  <2>2. InWindow(NoStamps, at) = Sum(NoStamps, W) BY WindowSums
  <2> HIDE DEF W
  <2>3. \A i \in W : NoStamps[i] = 0 BY <1>1, <2>1
  <2>4. Sum(NoStamps, W) = 0 BY <2>1, <2>3, SumZero
  <2> QED BY <2>2, <2>4
<1>3. ASSUME NEW s \in Stores, NEW last \in Ticks
      PROVE InOrder(s, NoStamps, NoStamps, NoStamps, last)
  BY <1>1 DEF InOrder, Looked
<1> QED BY <1>1, <1>2, <1>3

\* A worker that restarts keeps the invariant: its own store is empty again.
LEMMA RestartKeeps ==
  ASSUME LimiterInv, NEW w \in Workers, NEW s \in Stores, Restart(w, s)
  PROVE  LimiterInv'
<1>1. LimiterTypeOK /\ w \in Stores /\ w # Redis BY RedisAssumption DEF LimiterInv, Stores
<1>2. /\ s \in {w, Redis} /\ store' = [store EXCEPT ![w] = s] /\ tick' = tick
      /\ stamps' = [stamps EXCEPT ![w] = NoStamps] /\ tried' = [tried EXCEPT ![w] = NoStamps]
      /\ passed' = [passed EXCEPT ![w] = NoStamps] /\ newest' = [newest EXCEPT ![w] = 0]
      /\ overtaken' = [overtaken EXCEPT ![w] = FALSE]
      /\ try' = [a \in Attempts |-> IF try[a].step # "idle" /\ try[a].by = w THEN NoTry ELSE try[a]]
  BY DEF Restart
<1>3. NoStamps \in Counts /\ 0 \in Ticks BY NothingCounted, WindowAssumption DEF Ticks
<1>4. /\ stamps' \in [Stores -> Counts] /\ tried' \in [Stores -> Counts] /\ passed' \in [Stores -> Counts]
      /\ stamps'[w] = NoStamps /\ tried'[w] = NoStamps /\ passed'[w] = NoStamps
      /\ \A t \in Stores \ {w} : stamps'[t] = stamps[t] /\ tried'[t] = tried[t] /\ passed'[t] = passed[t]
  BY <1>1, <1>2, <1>3 DEF LimiterTypeOK
<1>5. /\ newest' \in [Stores -> Ticks] /\ overtaken' \in [Stores -> BOOLEAN]
      /\ newest'[w] = 0 /\ overtaken'[w] = FALSE
      /\ \A t \in Stores \ {w} : newest'[t] = newest[t] /\ overtaken'[t] = overtaken[t]
  BY <1>1, <1>2, <1>3 DEF LimiterTypeOK
<1>6. NoTry \in Tries /\ NoTry.step = "idle" BY DEF Tries, NoTry
<1>7. /\ try' \in [Attempts -> Tries]
      /\ \A a \in Attempts : \/ try'[a] = NoTry
                             \/ try'[a] = try[a] /\ (try[a].step = "idle" \/ try[a].by # w)
  BY <1>1, <1>2, <1>6 DEF LimiterTypeOK
<1>8. store' \in [Workers -> Stores] /\ \A v \in Workers : store'[v] \in {v, Redis}
  BY <1>1, <1>2 DEF LimiterTypeOK
<1>9. \A a \in Attempts : try'[a].step # "idle" /\ try'[a].in # Redis => try'[a].by = try'[a].in
  BY <1>1, <1>6, <1>7 DEF LimiterTypeOK
<1>10. LimiterTypeOK' BY <1>1, <1>2, <1>4, <1>5, <1>7, <1>8, <1>9 DEF LimiterTypeOK
<1>11. ASSUME NEW t \in Stores, t # w PROVE StoreInv(t)'
  <2>1. StoreInv(t) BY DEF LimiterInv
  <2>2. \A a \in Attempts : try'[a].step = "refused" => try'[a] = try[a] BY <1>6, <1>7
  <2> QED BY <2>1, <2>2, <1>4, <1>5, <1>11 DEF StoreInv
<1>12. StoreInv(w)'
  <2>1. InOrder(w, stamps'[w], tried'[w], passed'[w], newest'[w])
    BY <1>1, <1>3, <1>4, <1>5, NothingCounted
  <2>2. \A at \in Ticks : InWindow(passed'[w], at) <= MaxRequests
    BY <1>4, NothingCounted, WindowAssumption
  <2>3. \A a \in Attempts : ~ (try'[a].step = "refused" /\ try'[a].in = w)
    <3>1. ASSUME NEW a \in Attempts, try'[a].step = "refused", try'[a].in = w PROVE FALSE
      <4>1. try'[a].by = w BY <1>1, <1>9, <3>1
      <4>2. try'[a] # NoTry BY <1>6, <3>1
      <4> QED BY <1>7, <3>1, <4>1, <4>2
    <3> QED BY <3>1
  <2> QED BY <2>1, <2>2, <2>3 DEF StoreInv
<1> QED BY <1>10, <1>11, <1>12 DEF LimiterInv

\* The invariant holds at the start.
LEMMA LimiterStart == ASSUME LimiterInit PROVE LimiterInv
<1>1. /\ tick = 0 /\ store \in [Workers -> Stores] /\ \A w \in Workers : store[w] \in {w, Redis}
      /\ stamps = [s \in Stores |-> NoStamps] /\ try = [a \in Attempts |-> NoTry]
      /\ tried = [s \in Stores |-> NoStamps] /\ passed = [s \in Stores |-> NoStamps]
      /\ newest = [s \in Stores |-> 0] /\ overtaken = [s \in Stores |-> FALSE]
  BY DEF LimiterInit
<1>2. NoStamps \in Counts /\ 0 \in Ticks BY NothingCounted, WindowAssumption DEF Ticks
<1>3. NoTry \in Tries /\ NoTry.step = "idle" BY DEF Tries, NoTry
<1>4. LimiterTypeOK BY <1>1, <1>2, <1>3 DEF LimiterTypeOK
<1>5. ASSUME NEW s \in Stores PROVE StoreInv(s)
  <2>1. InOrder(s, stamps[s], tried[s], passed[s], newest[s]) BY <1>1, <1>2, NothingCounted
  <2>2. \A at \in Ticks : InWindow(passed[s], at) <= MaxRequests
    BY <1>1, NothingCounted, WindowAssumption
  <2>3. \A a \in Attempts : try[a].step # "refused" BY <1>1, <1>3
  <2> QED BY <2>1, <2>2, <2>3 DEF StoreInv
<1> QED BY <1>4, <1>5 DEF LimiterInv

\* Every step keeps the invariant.
LEMMA LimiterStep ==
  ASSUME LimiterInv, [LimiterNext]_limiterVars
  PROVE  LimiterInv'
<1>0. LimiterTypeOK BY DEF LimiterInv
<1>1. ASSUME NEW a \in Attempts, NEW w \in Workers, Stamp(a, w) PROVE LimiterInv'
  <2> DEFINE e == [step |-> "stamped", at |-> tick, by |-> w, in |-> store[w]]
  <2>1. store[w] \in {w, Redis} /\ store[w] \in Stores /\ tick \in Ticks BY <1>0 DEF LimiterTypeOK
  <2>2. e \in Tries /\ e.step = "stamped" /\ (e.in # Redis => e.by = e.in) BY <2>1 DEF Tries
  <2>3. /\ try' = [try EXCEPT ![a] = e] /\ tick' = tick
        /\ UNCHANGED <<store, stamps, tried, passed, newest, overtaken>>
    BY <1>1 DEF Stamp
  <2> HIDE DEF e
  <2>4. e.step # "refused" BY <2>2
  <2> QED BY <2>2, <2>3, <2>4, TryKeeps
<1>2. ASSUME NEW a \in Attempts, is_allowed(a) PROVE LimiterInv'
  BY <1>2, JudgedKeeps
<1>3. ASSUME NEW a \in Attempts, Leave(a) PROVE LimiterInv'
  <2>1. NoTry \in Tries /\ NoTry.step = "idle" BY DEF Tries, NoTry
  <2>2. /\ try' = [try EXCEPT ![a] = NoTry] /\ tick' = tick
        /\ UNCHANGED <<store, stamps, tried, passed, newest, overtaken>>
    BY <1>3 DEF Leave
  <2>3. NoTry.step # "refused" BY <2>1
  <2> QED BY <2>1, <2>2, <2>3, TryKeeps
<1>4. ASSUME NEW w \in Workers, NEW s \in Stores, Restart(w, s) PROVE LimiterInv'
  BY <1>4, RestartKeeps
<1>5. CASE Tick
  <2>1. tick' \in Ticks BY <1>0, <1>5, WindowAssumption DEF Tick, LimiterTypeOK, Ticks
  <2>2. UNCHANGED <<store, stamps, try, tried, passed, newest, overtaken>> BY <1>5 DEF Tick
  <2>3. LimiterTypeOK' BY <1>0, <2>1, <2>2 DEF LimiterTypeOK
  <2>4. \A s \in Stores : StoreInv(s)' BY <2>2 DEF LimiterInv, StoreInv
  <2> QED BY <2>3, <2>4 DEF LimiterInv
<1>6. CASE UNCHANGED limiterVars
  <2>1. LimiterTypeOK' BY <1>0, <1>6 DEF LimiterTypeOK, limiterVars
  <2>2. \A s \in Stores : StoreInv(s)' BY <1>6 DEF LimiterInv, StoreInv, limiterVars
  <2> QED BY <2>1, <2>2 DEF LimiterInv
<1> QED BY <1>1, <1>2, <1>3, <1>4, <1>5, <1>6 DEF LimiterNext

\* The invariant bounds what every window lets in.
LEMMA LimiterBounds == ASSUME LimiterInv PROVE AttemptsBounded
<1>1. ASSUME NEW s \in Stores, ~overtaken[s], NEW a \in Attempts, try[a].step = "refused", try[a].in = s
      PROVE  InWindow(IF s = Redis THEN tried[s] ELSE passed[s], try[a].at)
               >= MaxRequests + (IF s = Redis THEN 1 ELSE 0)
  <2>1. Full(s, tried[s], passed[s], try[a].at) BY <1>1 DEF LimiterInv, StoreInv
  <2> QED BY <2>1 DEF Full, Looked
<1>2. ASSUME NEW s \in Stores, ~overtaken[s], NEW at \in Ticks
      PROVE  InWindow(passed[s], at) <= MaxRequests
  BY <1>2 DEF LimiterInv, StoreInv
<1> QED BY <1>1, <1>2 DEF AttemptsBounded

\* A store whose attempts are judged in the order of their stamps lets in no more than the
\* limit in any window and refuses only at a full one, in Redis and in a worker's memory
\* (rate_limit_service.py).
THEOREM LoginAttemptsBounded == LimiterSpec => []AttemptsBounded
<1>1. LimiterInit => LimiterInv BY LimiterStart
<1>2. LimiterInv /\ [LimiterNext]_limiterVars => LimiterInv' BY LimiterStep
<1>3. LimiterInv => AttemptsBounded BY LimiterBounds
<1> QED BY <1>1, <1>2, <1>3, PTL DEF LimiterSpec

------------------------------------------------------------------------------
(* Master data *)

Places == {"start", "refused", "checked", "found", "failed", "done"}
Works  == UNION {{work[c] : c \in Clerks} : work \in RecordWork}
Asked  == [c \in Clerks |-> clerk[c].work]

\* The values of the variables.
RecordTypeOK ==
  /\ row \in [Ids -> Record \cup {Nothing}]
  /\ clerk \in [Clerks -> [work : Works, at : Places, kind : Kinds \cup {Nothing},
                           seen : Record \cup {Nothing}]]
  /\ crossed \in SUBSET Kinds
  /\ Asked \in RecordWork

\* The rows as a value: who has a name in the table t, and the names that are apart in it.
Free(t, new, i) == \A j \in Ids \ {i} : t[j] = Nothing \/ ~ Collide(t[j], new)
Apart(t, X) ==
  \A i, j \in Ids :
    i # j /\ t[i] # Nothing /\ t[j] # Nothing /\ Collide(t[i], t[j])
      => t[i].kind \notin Unique /\ t[i].kind \in X

\* The row new has the name of the row old.
SameName(old, new) == new.kind = old.kind /\ new.name = old.name /\ new.parent = old.parent

\* The rows of u are rows of t, by name.
Fewer(t, u) == \A i \in Ids : u[i] # Nothing => t[i] # Nothing /\ SameName(t[i], u[i])

\* A key belongs to one table: what is asked says which.
InTable(i, kind) == <<i, kind>> \in Filings(Asked)
InTables(t) == \A i \in Ids : t[i] # Nothing => t[i] \in Record /\ InTable(i, t[i].kind)

\* What a request that has checked was told, and what it found.
Told(c) ==
  /\ At(c, "checked") =>
       \/ Job(c).op = "create" /\ clerk[c].kind = Job(c).kind
       \/ /\ Job(c).op = "change" /\ clerk[c].seen \in Record
          /\ clerk[c].kind = clerk[c].seen.kind /\ InTable(Job(c).id, clerk[c].kind)
  /\ At(c, "found") => Job(c).op = "remove" /\ InTable(Job(c).id, clerk[c].kind)

\* A contract that was found is still there: contracts are switched off, never removed.
Finds(c, t) ==
  At(c, "found") /\ clerk[c].kind = "contract" => t[Job(c).id] # Nothing

\* The name a checked request is about to write.
Wants(c) ==
  IF Job(c).op = "create" THEN Drafted(c) ELSE Revised(c, clerk[c].seen, clerk[c].seen)
Open(c, X) == At(c, "checked") /\ clerk[c].kind \notin Unique \cup X
NoRival(c) == \A d \in Clerks \ {c} : ~ (At(d, "checked") /\ clerk[d].kind = clerk[c].kind)
NewName(c) ==
  Job(c).op = "create" \/ (clerk[c].kind = "category" /\ Job(c).name \notin {Keep, NoName, clerk[c].seen.name})
StillFree(c, t, X) == Open(c, X) => NoRival(c) /\ (NewName(c) => Free(t, Wants(c), Job(c).id))

\* What the checks are worth until the commit: a kind two requests have checked at once is
\* crossed, and in any other one the name that was free stays free.
RecordsInv ==
  /\ RecordTypeOK /\ InTables(row) /\ Apart(row, crossed)
  /\ \A c \in Clerks : Told(c) /\ Finds(c, row) /\ StillFree(c, row, crossed)

---------------------------------------------------------------------------

\* A name is taken when it is not free.
LEMMA TakenIsNotFree ==
  ASSUME NEW new, NEW i \in Ids PROVE Taken(new, i) <=> ~ Free(row, new, i)
BY KeptAssumption DEF Taken, Free, Live

\* With fewer rows, names stay apart and a free name stays free.
LEMMA FewerKeeps ==
  ASSUME NEW t, NEW u, Fewer(t, u), NEW X, NEW Y, X \subseteq Y
  PROVE  /\ Apart(t, X) => Apart(u, Y)
         /\ \A new, i : Free(t, new, i) => Free(u, new, i)
<1>1. ASSUME NEW i \in Ids, u[i] # Nothing PROVE t[i] # Nothing /\ SameName(t[i], u[i])
  BY <1>1 DEF Fewer
<1>2. ASSUME Apart(t, X), NEW i \in Ids, NEW j \in Ids, i # j, u[i] # Nothing, u[j] # Nothing,
             Collide(u[i], u[j])
      PROVE  u[i].kind \notin Unique /\ u[i].kind \in Y
  <2>1. t[i] # Nothing /\ t[j] # Nothing /\ SameName(t[i], u[i]) /\ SameName(t[j], u[j])
    BY <1>1, <1>2
  <2>2. Collide(t[i], t[j]) BY <2>1, <1>2 DEF SameName, Collide
  <2>3. t[i].kind \notin Unique /\ t[i].kind \in X BY <2>1, <2>2, <1>2 DEF Apart
  <2> QED BY <2>1, <2>3 DEF SameName
<1>3. ASSUME NEW new, NEW i, Free(t, new, i) PROVE Free(u, new, i)
  <2>1. ASSUME NEW j \in Ids \ {i}, u[j] # Nothing PROVE ~ Collide(u[j], new)
    <3>1. t[j] # Nothing /\ SameName(t[j], u[j]) BY <1>1, <2>1
    <3>2. ~ Collide(t[j], new) BY <3>1, <1>3 DEF Free
    <3> QED BY <3>1, <3>2 DEF SameName, Collide
  <2> QED BY <2>1 DEF Free
<1> QED BY <1>2, <1>3 DEF Apart

\* A row written with a free name leaves the names apart, and leaves free what is free in
\* the other kinds.
LEMMA WriteKeeps ==
  ASSUME NEW t, DOMAIN t = Ids, NEW i \in Ids, NEW new, NEW u, u = [t EXCEPT ![i] = new], NEW X,
         Apart(t, X), Free(t, new, i) \/ (new.kind \notin Unique /\ new.kind \in X)
  PROVE  /\ Apart(u, X)
         /\ \A n, j : Free(t, n, j) /\ n.kind # new.kind => Free(u, n, j)
<1>1. \A j \in Ids : u[j] = IF j = i THEN new ELSE t[j]
  OBVIOUS
<1>2. ASSUME NEW k \in Ids \ {i}, t[k] # Nothing, Collide(t[k], new) \/ Collide(new, t[k])
      PROVE  new.kind \notin Unique /\ new.kind \in X
  <2>1. Collide(t[k], new) BY <1>2 DEF Collide
  <2> QED BY <2>1, <1>2 DEF Free
<1>3. ASSUME NEW k \in Ids, NEW j \in Ids, k # j, u[k] # Nothing, u[j] # Nothing, Collide(u[k], u[j])
      PROVE  u[k].kind \notin Unique /\ u[k].kind \in X
  <2>1. CASE k = i BY <2>1, <1>1, <1>2, <1>3
  <2>2. CASE j = i
    <3>1. u[j] = new /\ u[k] = t[k] /\ k \in Ids \ {i} BY <2>2, <1>1, <1>3
    <3>2. new.kind \notin Unique /\ new.kind \in X BY <3>1, <1>2, <1>3
    <3>3. u[k].kind = new.kind BY <3>1, <1>3 DEF Collide
    <3> QED BY <3>2, <3>3
  <2>3. CASE k # i /\ j # i
    <3>1. u[k] = t[k] /\ u[j] = t[j] BY <2>3, <1>1
    <3> QED BY <3>1, <1>3 DEF Apart
  <2> QED BY <2>1, <2>2, <2>3
<1>4. ASSUME NEW n, NEW j, Free(t, n, j), n.kind # new.kind PROVE Free(u, n, j)
  BY <1>1, <1>4 DEF Free, Collide
<1> QED BY <1>3, <1>4 DEF Apart

ClerkRecord == [work : Works, at : Places, kind : Kinds \cup {Nothing}, seen : Record \cup {Nothing}]

\* What a request is asked is one of the three kinds of request.
LEMMA Jobs ==
  ASSUME RecordTypeOK, NEW c \in Clerks
  PROVE  /\ Job(c) = Asked[c]
         /\ Job(c).op = "create" => Job(c) \in Creation /\ InTable(Job(c).id, Job(c).kind)
         /\ Job(c).op = "change" => Job(c) \in Change
         /\ Job(c).op = "remove" => Job(c) \in Removal
<1>1. Job(c) = Asked[c] /\ Asked \in RecordWork BY DEF Job, Asked, RecordTypeOK
<1>2. \/ Asked[c] \in Creation \cup Change \cup Removal
      \/ Asked[c].op \notin {"create", "change", "remove"}
  BY <1>1, RecordWorkAssumption
<1>3. ASSUME Asked[c].op = "create" PROVE InTable(Asked[c].id, Asked[c].kind)
  <2> DEFINE work == Asked
  <2>1. work[c] \in {x \in {work[d] : d \in Clerks} \union RecordPushes : x.op = "create"} BY <1>3
  <2> HIDE DEF work
  <2>2. <<work[c].id, work[c].kind>> \in Filings(work) BY <2>1 DEF Filings
  <2> QED BY <2>2 DEF InTable, work
<1>4. \A j : /\ j \in Creation => j.op = "create"
             /\ j \in Change => j.op = "change"
             /\ j \in Removal => j.op = "remove"
  BY DEF Creation, Change, Removal
<1> QED BY <1>1, <1>2, <1>3, <1>4

\* A key is of one table.
LEMMA OneTable ==
  ASSUME RecordTypeOK, NEW i, NEW k, NEW l, InTable(i, k), InTable(i, l)
  PROVE  k = l
<1>1. Asked \in RecordWork BY DEF RecordTypeOK
<1>2. \A x, y \in Filings(Asked) : x[1] = y[1] => x[2] = y[2] BY <1>1, RecordWorkAssumption
<1>3. <<i, k>> \in Filings(Asked) /\ <<i, l>> \in Filings(Asked) BY DEF InTable
<1> DEFINE x == <<i, k>>
           y == <<i, l>>
<1>4. x[1] = y[1] => x[2] = y[2] BY <1>2, <1>3
<1> QED BY <1>4

\* What a step makes of a request, and of the others.
LEMMA ClerkStep ==
  ASSUME RecordTypeOK, NEW c \in Clerks, NEW rec \in ClerkRecord, rec.work = Job(c),
         clerk' = [clerk EXCEPT ![c] = rec]
  PROVE  /\ clerk' \in [Clerks -> ClerkRecord] /\ Asked' = Asked
         /\ clerk'[c] = rec /\ \A d \in Clerks \ {c} : clerk'[d] = clerk[d]
<1>1. clerk \in [Clerks -> ClerkRecord] BY DEF RecordTypeOK, ClerkRecord
<1>2. clerk' \in [Clerks -> ClerkRecord] /\ clerk'[c] = rec /\ \A d \in Clerks \ {c} : clerk'[d] = clerk[d]
  BY <1>1
<1>3. \A d \in Clerks : clerk'[d].work = clerk[d].work BY <1>2 DEF Job
<1>4. Asked' = Asked BY <1>3 DEF Asked
<1> QED BY <1>2, <1>4

\* An answer ends a request where it stands.
LEMMA AnswerStep ==
  ASSUME RecordTypeOK, NEW c \in Clerks, NEW place \in Places, Answer(c, place)
  PROVE  \E rec \in ClerkRecord :
           /\ rec.work = Job(c) /\ rec.at = place /\ rec.kind = clerk[c].kind
           /\ clerk' = [clerk EXCEPT ![c] = rec]
<1> DEFINE rec == [clerk[c] EXCEPT !.at = place]
<1>1. clerk[c] \in ClerkRecord BY DEF RecordTypeOK, ClerkRecord
<1>2. rec \in ClerkRecord /\ rec.work = clerk[c].work /\ rec.at = place /\ rec.kind = clerk[c].kind
  BY <1>1 DEF ClerkRecord
<1>3. clerk' = [clerk EXCEPT ![c] = rec] BY DEF Answer
<1> HIDE DEF rec
<1> QED BY <1>2, <1>3 DEF Job

\* What a step has to do with the rows: the table u after the table t.
RowsGo(u) ==
  /\ u \in [Ids -> Record \cup {Nothing}] /\ InTables(u) /\ Apart(u, crossed)
  /\ \A i \in Ids : row[i] # Nothing /\ row[i].kind = "contract" => u[i] # Nothing

\* What a step leaves to a request: a name that was free for it is free in u.
Keeps(d, u) ==
  Open(d, crossed) /\ NewName(d) /\ Free(row, Wants(d), Job(d).id) => Free(u, Wants(d), Job(d).id)

\* A request that takes no step is told and wants the same.
LEMMA SameRequest ==
  ASSUME NEW d, clerk'[d] = clerk[d], Asked' = Asked
  PROVE  /\ Told(d)' = Told(d) /\ NewName(d)' = NewName(d) /\ Wants(d)' = Wants(d)
         /\ Job(d)' = Job(d) /\ \A X : Open(d, X)' = Open(d, X)
         /\ At(d, "checked")' = At(d, "checked") /\ At(d, "found")' = At(d, "found")
<1>1. Job(d)' = Job(d) /\ At(d, "checked")' = At(d, "checked") /\ At(d, "found")' = At(d, "found")
  BY DEF Job, At
<1>2. Told(d)' = Told(d) BY <1>1 DEF Told, InTable
<1>3. NewName(d)' = NewName(d) BY <1>1 DEF NewName
<1>4. Wants(d)' = Wants(d) BY <1>1 DEF Wants, Drafted, Revised, Renames, Moves
<1>5. \A X : Open(d, X)' = Open(d, X) BY <1>1 DEF Open
<1> QED BY <1>1, <1>2, <1>3, <1>4, <1>5

\* A contract that was found stays, when the rows go on.
LEMMA FindsOn ==
  ASSUME RecordsInv, NEW d \in Clerks, NEW u, RowsGo(u)
  PROVE  Finds(d, u)
<1>1. SUFFICES ASSUME At(d, "found"), clerk[d].kind = "contract" PROVE u[Job(d).id] # Nothing
  BY DEF Finds
<1>2. Told(d) /\ Finds(d, row) /\ InTables(row) /\ RecordTypeOK BY DEF RecordsInv
<1>3. row[Job(d).id] # Nothing /\ InTable(Job(d).id, "contract") /\ Job(d).op = "remove"
  BY <1>1, <1>2 DEF Finds, Told
<1>4. Job(d).id \in Ids BY <1>2, <1>3, Jobs DEF Removal
<1>5. row[Job(d).id].kind = "contract" BY <1>2, <1>3, <1>4, OneTable DEF InTables
<1> QED BY <1>3, <1>4, <1>5 DEF RowsGo

\* A request that ends, fails or finds a row, while the rows go on.
LEMMA LeaveStep ==
  ASSUME RecordsInv, NEW c \in Clerks, NEW rec \in ClerkRecord, rec.work = Job(c),
         clerk' = [clerk EXCEPT ![c] = rec], rec.at # "checked",
         rec.at = "found" =>
           /\ Job(c).op = "remove" /\ InTable(Job(c).id, rec.kind)
           /\ rec.kind = "contract" => row'[Job(c).id] # Nothing,
         crossed' = crossed, RowsGo(row'), \A d \in Clerks \ {c} : Keeps(d, row')
  PROVE  RecordsInv'
<1>1. RecordTypeOK /\ \A d \in Clerks : Told(d) /\ StillFree(d, row, crossed) BY DEF RecordsInv
<1>2. /\ clerk' \in [Clerks -> ClerkRecord] /\ Asked' = Asked
      /\ clerk'[c] = rec /\ \A d \in Clerks \ {c} : clerk'[d] = clerk[d]
  BY <1>1, ClerkStep
<1>3. RecordTypeOK' BY <1>1, <1>2 DEF RecordTypeOK, ClerkRecord, RowsGo
<1>4. InTables(row)' /\ Apart(row, crossed)' BY <1>2 DEF RowsGo, InTables, InTable
<1>5. Told(c)' /\ Finds(c, row)' /\ StillFree(c, row, crossed)'
  <2>1. Job(c)' = Job(c) BY <1>2 DEF Job
  <2>2. ~At(c, "checked")' BY <1>2 DEF At
  <2> QED BY <2>1, <2>2, <1>2 DEF Told, Finds, StillFree, Open, At, InTable
<1>6. ASSUME NEW d \in Clerks \ {c} PROVE Told(d)' /\ Finds(d, row)' /\ StillFree(d, row, crossed)'
  <2>1. /\ Told(d)' = Told(d) /\ NewName(d)' = NewName(d) /\ Wants(d)' = Wants(d)
        /\ Job(d)' = Job(d) /\ (\A X : Open(d, X)' = Open(d, X))
        /\ At(d, "checked")' = At(d, "checked") /\ At(d, "found")' = At(d, "found")
    BY <1>2, SameRequest
  <2>2. Finds(d, row') BY FindsOn
  <2>3. Finds(d, row)' BY <2>1, <2>2, <1>2 DEF Finds
  <2>4. ASSUME Open(d, crossed)' PROVE NoRival(d)' /\ (NewName(d)' => Free(row', Wants(d)', Job(d)'.id))
    <3>1. Open(d, crossed) BY <2>4, <1>2 DEF Open, At
    <3>2. NoRival(d) /\ (NewName(d) => Free(row, Wants(d), Job(d).id)) BY <3>1, <1>1 DEF StillFree
    <3>3. NoRival(d)' BY <3>2, <1>2 DEF NoRival, At
    <3>4. NewName(d) => Free(row', Wants(d), Job(d).id) BY <3>1, <3>2 DEF Keeps
    <3> QED BY <3>3, <3>4, <2>1
  <2>5. StillFree(d, row, crossed)' BY <2>4 DEF StillFree, Open
  <2> QED BY <1>1, <2>1, <2>3, <2>5
<1> QED BY <1>3, <1>4, <1>5, <1>6 DEF RecordsInv

\* A check that passes moves the request on with the kind and the row it has seen.
LEMMA PassStep ==
  ASSUME RecordTypeOK, NEW c \in Clerks, NEW kind \in Kinds, NEW seen \in Record \cup {Nothing},
         Pass(c, kind, seen)
  PROVE  \E rec \in ClerkRecord :
           /\ rec.work = Job(c) /\ rec.at = "checked" /\ rec.kind = kind /\ rec.seen = seen
           /\ clerk' = [clerk EXCEPT ![c] = rec]
<1> DEFINE rec == [clerk[c] EXCEPT !.at = "checked", !.kind = kind, !.seen = seen]
<1>1. clerk[c] \in ClerkRecord BY DEF RecordTypeOK, ClerkRecord
<1>2. /\ rec \in ClerkRecord /\ rec.work = clerk[c].work /\ rec.at = "checked"
      /\ rec.kind = kind /\ rec.seen = seen
  BY <1>1 DEF ClerkRecord, Places
<1>3. clerk' = [clerk EXCEPT ![c] = rec] BY DEF Pass
<1> HIDE DEF rec
<1> QED BY <1>2, <1>3 DEF Job

\* A request that has checked: it is alone with rows of its kind, or the kind is crossed.
LEMMA EnterStep ==
  ASSUME RecordsInv, NEW c \in Clerks, NEW kind \in Kinds, NEW seen \in Record \cup {Nothing},
         Pass(c, kind, seen), ~At(c, "checked"), row' = row,
         Told(c)', NewName(c)' /\ kind \notin Unique => Free(row, Wants(c)', Job(c).id)
  PROVE  RecordsInv'
<1>1. RecordTypeOK /\ \A d \in Clerks : Told(d) /\ StillFree(d, row, crossed) BY DEF RecordsInv
<1>2. PICK rec \in ClerkRecord :
           /\ rec.work = Job(c) /\ rec.at = "checked" /\ rec.kind = kind /\ rec.seen = seen
           /\ clerk' = [clerk EXCEPT ![c] = rec]
  BY <1>1, PassStep
<1>3. /\ clerk' \in [Clerks -> ClerkRecord] /\ Asked' = Asked
      /\ clerk'[c] = rec /\ \A d \in Clerks \ {c} : clerk'[d] = clerk[d]
  BY <1>1, <1>2, ClerkStep
<1>4. crossed' = IF Rival(c, kind) THEN crossed \cup {kind} ELSE crossed BY DEF Pass
<1>5. RecordTypeOK' BY <1>1, <1>3, <1>4 DEF RecordTypeOK, ClerkRecord
<1>6. InTables(row)' /\ Apart(row, crossed)'
  <2>1. InTables(row) /\ Apart(row, crossed) BY DEF RecordsInv
  <2>2. crossed \subseteq crossed' BY <1>4
  <2> QED BY <2>1, <2>2, <1>3 DEF InTables, InTable, Apart
<1>7. Finds(c, row)' /\ StillFree(c, row, crossed)'
  <2>1. ~At(c, "found")' BY <1>2, <1>3 DEF At
  <2>2. Job(c)' = Job(c) /\ clerk'[c].kind = kind BY <1>2, <1>3 DEF Job
  <2>3. ASSUME Open(c, crossed)' PROVE NoRival(c)' /\ (NewName(c)' => Free(row', Wants(c)', Job(c)'.id))
    <3>1. kind \notin Unique /\ ~Rival(c, kind) BY <2>2, <2>3, <1>4 DEF Open
    <3>2. NoRival(c)' BY <3>1, <2>2, <1>3 DEF Rival, NoRival, At
    <3> QED BY <3>1, <3>2, <2>2
  <2>4. StillFree(c, row, crossed)' BY <2>3 DEF StillFree, Open
  <2> QED BY <2>1, <2>4 DEF Finds
<1>8. ASSUME NEW d \in Clerks \ {c} PROVE Told(d)' /\ Finds(d, row)' /\ StillFree(d, row, crossed)'
  <2>1. /\ Told(d)' = Told(d) /\ NewName(d)' = NewName(d) /\ Wants(d)' = Wants(d)
        /\ Job(d)' = Job(d) /\ (\A X : Open(d, X)' = Open(d, X))
        /\ At(d, "checked")' = At(d, "checked") /\ At(d, "found")' = At(d, "found")
    BY <1>3, SameRequest
  <2>2. Finds(d, row)' BY <2>1, <1>3 DEF Finds, RecordsInv
  <2>4. ASSUME Open(d, crossed)' PROVE NoRival(d)' /\ (NewName(d)' => Free(row', Wants(d)', Job(d)'.id))
    <3>0. At(d, "checked") /\ clerk[d].kind \notin Unique \cup crossed' BY <2>4, <1>3 DEF Open, At
    <3>1. Open(d, crossed) BY <3>0, <1>4 DEF Open
    <3>2. NoRival(d) /\ (NewName(d) => Free(row, Wants(d), Job(d).id)) BY <3>1, <1>1 DEF StillFree
    <3>3. clerk[d].kind # kind BY <3>0, <1>4 DEF Rival
    <3>4. NoRival(d)' BY <3>2, <3>3, <1>2, <1>3 DEF NoRival, At
    <3> QED BY <3>2, <3>4, <2>1
  <2>5. StillFree(d, row, crossed)' BY <2>4 DEF StillFree, Open
  <2> QED BY <1>1, <2>1, <2>2, <2>5
<1> QED BY <1>5, <1>6, <1>7, <1>8 DEF RecordsInv

\* The rows go on without a request.
LEMMA RowStep ==
  ASSUME RecordsInv, UNCHANGED <<clerk, crossed>>, RowsGo(row'), \A d \in Clerks : Keeps(d, row')
  PROVE  RecordsInv'
<1>1. RecordTypeOK /\ \A d \in Clerks : Told(d) /\ StillFree(d, row, crossed) BY DEF RecordsInv
<1>2. Asked' = Asked BY DEF Asked
<1>3. RecordTypeOK' BY <1>1, <1>2 DEF RecordTypeOK, RowsGo
<1>4. InTables(row)' /\ Apart(row, crossed)' BY <1>2 DEF RowsGo, InTables, InTable
<1>5. ASSUME NEW d \in Clerks PROVE Told(d)' /\ Finds(d, row)' /\ StillFree(d, row, crossed)'
  <2>1. /\ Told(d)' = Told(d) /\ NewName(d)' = NewName(d) /\ Wants(d)' = Wants(d)
        /\ Job(d)' = Job(d) /\ (\A X : Open(d, X)' = Open(d, X))
        /\ At(d, "checked")' = At(d, "checked") /\ At(d, "found")' = At(d, "found")
    BY <1>2, SameRequest
  <2>2. Finds(d, row)
    BY DEF RecordsInv
  <2>3. Finds(d, row') BY FindsOn
  <2>4. Finds(d, row)' BY <2>1, <2>3 DEF Finds
  <2>5. ASSUME Open(d, crossed)' PROVE NoRival(d)' /\ (NewName(d)' => Free(row', Wants(d)', Job(d)'.id))
    <3>1. Open(d, crossed) BY <2>5 DEF Open, At
    <3>2. NoRival(d) /\ (NewName(d) => Free(row, Wants(d), Job(d).id)) BY <3>1, <1>1 DEF StillFree
    <3>3. NoRival(d)' BY <3>2 DEF NoRival, At
    <3> QED BY <3>1, <3>2, <3>3, <2>1 DEF Keeps
  <2>6. StillFree(d, row, crossed)' BY <2>5 DEF StillFree, Open
  <2> QED BY <1>1, <2>1, <2>4, <2>6
<1> QED BY <1>3, <1>4, <1>5 DEF RecordsInv

---------------------------------------------------------------------------
(* What a step writes *)

\* The rows as they are.
LEMMA RowsStay == ASSUME RecordsInv PROVE RowsGo(row) /\ \A d \in Clerks : Keeps(d, row)
BY DEF RecordsInv, RowsGo, Keeps, RecordTypeOK

\* Rows are removed, switched off or left as they are.
LEMMA FewerGo ==
  ASSUME RecordsInv, NEW u \in [Ids -> Record \cup {Nothing}], Fewer(row, u),
         \A i \in Ids : row[i] # Nothing /\ row[i].kind = "contract" => u[i] # Nothing
  PROVE  RowsGo(u) /\ \A d \in Clerks : Keeps(d, u)
<1>1. InTables(row) /\ Apart(row, crossed) BY DEF RecordsInv
<1>2. \A i \in Ids : u[i] # Nothing => u[i] \in Record /\ row[i] # Nothing /\ u[i].kind = row[i].kind
  BY DEF Fewer, SameName
<1>3. InTables(u) BY <1>1, <1>2 DEF InTables
<1>4. Apart(u, crossed) /\ \A new, i : Free(row, new, i) => Free(u, new, i)
  <2>1. crossed \subseteq crossed OBVIOUS
  <2> QED BY <1>1, <2>1, FewerKeeps
<1> QED BY <1>3, <1>4 DEF RowsGo, Keeps

\* The kind of what an open request wants.
LEMMA WantsKind ==
  ASSUME RecordsInv, NEW d \in Clerks, At(d, "checked")
  PROVE  Wants(d).kind = clerk[d].kind
<1>1. Told(d) BY DEF RecordsInv
<1>2. CASE Job(d).op = "create" BY <1>1, <1>2 DEF Told, Wants, Drafted, Filed
<1>3. CASE Job(d).op # "create"
  <2>1. clerk[d].seen \in Record /\ clerk[d].kind = clerk[d].seen.kind BY <1>1, <1>3 DEF Told
  <2> QED BY <2>1, <1>3 DEF Wants, Revised, Record
<1> QED BY <1>2, <1>3

\* A row is written that no row has the name of, or of a kind two have crossed.
LEMMA WriteGo ==
  ASSUME RecordsInv, NEW i \in Ids, NEW new \in Record, NEW u, u = [row EXCEPT ![i] = new],
         InTable(i, new.kind), new # Nothing,
         Free(row, new, i) \/ (new.kind \notin Unique /\ new.kind \in crossed)
  PROVE  /\ RowsGo(u)
         /\ \A d \in Clerks : clerk[d].kind # new.kind \/ new.kind \in Unique \cup crossed => Keeps(d, u)
<1>1. InTables(row) /\ Apart(row, crossed) /\ RecordTypeOK BY DEF RecordsInv
<1>2. row \in [Ids -> Record \cup {Nothing}] BY <1>1 DEF RecordTypeOK
<1>3. u \in [Ids -> Record \cup {Nothing}] /\ \A j \in Ids : u[j] = IF j = i THEN new ELSE row[j] BY <1>2
<1>4. InTables(u) BY <1>1, <1>3 DEF InTables
<1>5. Apart(u, crossed) /\ \A n, j : Free(row, n, j) /\ n.kind # new.kind => Free(u, n, j)
  <2>1. DOMAIN row = Ids BY <1>2
  <2> QED BY <1>1, <2>1, WriteKeeps
<1>6. \A j \in Ids : row[j] # Nothing => u[j] # Nothing BY <1>3
<1>7. RowsGo(u) BY <1>3, <1>4, <1>5, <1>6 DEF RowsGo
<1>8. ASSUME NEW d \in Clerks, clerk[d].kind # new.kind \/ new.kind \in Unique \cup crossed PROVE Keeps(d, u)
  <2>1. SUFFICES ASSUME Open(d, crossed), Free(row, Wants(d), Job(d).id) PROVE Free(u, Wants(d), Job(d).id)
    BY DEF Keeps
  <2>2. clerk[d].kind # new.kind BY <2>1, <1>8 DEF Open
  <2>3. Wants(d).kind # new.kind BY <2>1, <2>2, WantsKind DEF Open
  <2> QED BY <2>1, <2>3, <1>5
<1> QED BY <1>7, <1>8

---------------------------------------------------------------------------
(* One lemma per action *)

\* A creation asks for a row of its own table.
LEMMA CreationIs ==
  ASSUME RecordsInv, NEW c \in Clerks, Job(c).op = "create"
  PROVE  /\ Drafted(c) \in Record /\ Job(c).id \in Ids /\ Job(c).kind \in Kinds
         /\ Drafted(c).kind = Job(c).kind /\ InTable(Job(c).id, Job(c).kind)
<1>1. Job(c) \in Creation /\ InTable(Job(c).id, Job(c).kind) BY Jobs DEF RecordsInv
<1> QED BY <1>1 DEF Creation, Drafted, Filed, Record

\* The check of a creation keeps the invariant.
LEMMA CheckCreateKeeps == ASSUME RecordsInv, NEW c \in Clerks, CheckCreate(c) PROVE RecordsInv'
<1>1. At(c, "start") /\ Job(c).op = "create" /\ row' = row BY DEF CheckCreate
<1>2. Job(c).id \in Ids /\ Job(c).kind \in Kinds /\ RecordTypeOK BY <1>1, CreationIs DEF RecordsInv
<1>3. CASE Answer(c, "refused") /\ crossed' = crossed
  <2>1. "refused" \in Places /\ "refused" # "checked" /\ "refused" # "found" BY DEF Places
  <2>2. PICK rec \in ClerkRecord :
           /\ rec.work = Job(c) /\ rec.at = "refused" /\ rec.kind = clerk[c].kind
           /\ clerk' = [clerk EXCEPT ![c] = rec]
    BY <1>2, <1>3, <2>1, AnswerStep
  <2>3. RowsGo(row') /\ \A d \in Clerks : Keeps(d, row') BY <1>1, RowsStay
  <2> QED BY <2>1, <2>2, <2>3, <1>3, LeaveStep
<1>4. CASE ~Taken(Drafted(c), Job(c).id) /\ Pass(c, Job(c).kind, Nothing)
  <2>1. PICK rec \in ClerkRecord :
           /\ rec.work = Job(c) /\ rec.at = "checked" /\ rec.kind = Job(c).kind /\ rec.seen = Nothing
           /\ clerk' = [clerk EXCEPT ![c] = rec]
    BY <1>2, <1>4, PassStep
  <2>2. clerk'[c] = rec /\ Asked' = Asked BY <2>1, <1>2, ClerkStep
  <2>3. Job(c)' = Job(c) BY <2>1, <2>2 DEF Job
  <2>4. Told(c)' BY <1>1, <2>1, <2>2, <2>3 DEF Told, At
  <2>5. Wants(c)' = Drafted(c) BY <1>1, <2>3 DEF Wants, Drafted
  <2>6. Free(row, Wants(c)', Job(c).id) BY <1>2, <1>4, <2>5, TakenIsNotFree
  <2>7. ~At(c, "checked") BY <1>1 DEF At
  <2> QED BY <1>1, <1>2, <1>4, <2>4, <2>6, <2>7, EnterStep
<1> QED BY <1>1, <1>3, <1>4 DEF CheckCreate

\* Two requests that have both checked, of a kind that is not crossed, are of other kinds.
LEMMA OtherKinds ==
  ASSUME RecordsInv, NEW c \in Clerks, NEW d \in Clerks \ {c}, At(c, "checked")
  PROVE  At(d, "checked") => clerk[d].kind # clerk[c].kind \/ clerk[c].kind \in Unique \cup crossed
<1>1. StillFree(c, row, crossed) BY DEF RecordsInv
<1> QED BY <1>1 DEF StillFree, Open, NoRival

\* The commit of a creation keeps the invariant.
LEMMA CommitCreateKeeps == ASSUME RecordsInv, NEW c \in Clerks, CommitCreate(c) PROVE RecordsInv'
<1>1. At(c, "checked") /\ Job(c).op = "create" /\ crossed' = crossed BY DEF CommitCreate
<1> DEFINE new == Drafted(c)
           i == Job(c).id
           K == Job(c).kind
<1>2. new \in Record /\ i \in Ids /\ K \in Kinds /\ new.kind = K /\ InTable(i, K) BY <1>1, CreationIs
<1>3. RecordTypeOK /\ Told(c) /\ StillFree(c, row, crossed) BY DEF RecordsInv
<1>4. clerk[c].kind = K BY <1>1, <1>3 DEF Told
<1>5. Wants(c) = new /\ NewName(c) BY <1>1 DEF Wants, NewName
<1>6. CASE Answer(c, "failed") /\ row' = row
  <2>1. "failed" \in Places /\ "failed" # "checked" /\ "failed" # "found" BY DEF Places
  <2>2. PICK rec \in ClerkRecord :
           /\ rec.work = Job(c) /\ rec.at = "failed" /\ rec.kind = clerk[c].kind
           /\ clerk' = [clerk EXCEPT ![c] = rec]
    BY <1>3, <1>6, <2>1, AnswerStep
  <2>3. RowsGo(row') /\ \A d \in Clerks : Keeps(d, row') BY <1>6, RowsStay
  <2> QED BY <1>1, <2>1, <2>2, <2>3, LeaveStep
<1>7. CASE ~Violates(new, i) /\ Answer(c, "done") /\ row' = [row EXCEPT ![i] = new]
  <2>1. "done" \in Places /\ "done" # "checked" /\ "done" # "found" BY DEF Places
  <2>2. PICK rec \in ClerkRecord :
           /\ rec.work = Job(c) /\ rec.at = "done" /\ rec.kind = clerk[c].kind
           /\ clerk' = [clerk EXCEPT ![c] = rec]
    BY <1>3, <1>7, <2>1, AnswerStep
  <2>3. Free(row, new, i) \/ (K \notin Unique /\ K \in crossed)
    <3>1. CASE K \in Unique
      <4>1. ~Taken(new, i) BY <3>1, <1>2, <1>7 DEF Violates
      <4> QED BY <4>1, <1>2, TakenIsNotFree
    <3>2. CASE K \notin Unique \cup crossed
      <4>1. Open(c, crossed) BY <3>2, <1>1, <1>4 DEF Open
      <4> QED BY <4>1, <1>3, <1>5 DEF StillFree
    <3> QED BY <3>1, <3>2
  <2>4. new # Nothing BY <1>2, KeptAssumption
  <2> HIDE DEF new, i, K
  <2>5. /\ RowsGo(row')
        /\ \A d \in Clerks : clerk[d].kind # new.kind \/ new.kind \in Unique \cup crossed => Keeps(d, row')
    BY <1>2, <1>7, <2>3, <2>4, WriteGo
  <2>6. \A d \in Clerks \ {c} : Keeps(d, row')
    <3> TAKE d \in Clerks \ {c}
    <3>1. CASE At(d, "checked") BY <3>1, <2>5, <1>1, <1>2, <1>4, OtherKinds
    <3>2. CASE ~At(d, "checked") BY <3>2 DEF Keeps, Open
    <3> QED BY <3>1, <3>2
  <2> QED BY <1>1, <2>1, <2>2, <2>5, <2>6, LeaveStep
<1> QED BY <1>6, <1>7 DEF CommitCreate

\* What a change makes of a row: the same kind, the new name if one is given.
LEMMA RevisedIs ==
  ASSUME RecordsInv, NEW c \in Clerks, Job(c).op = "change", NEW old \in Record, NEW seen \in Record
  PROVE  /\ Revised(c, old, seen) \in Record /\ Revised(c, old, seen).kind = old.kind
         /\ Revised(c, old, seen).name = (IF Renames(c, seen) THEN Job(c).name ELSE old.name)
         /\ seen.kind # "equipment" => Revised(c, old, seen).parent = old.parent
<1>1. Job(c) \in Change BY Jobs DEF RecordsInv
<1>2. Job(c).name \in Names \cup {NoName, Keep} /\ Job(c).parent \in Ids \cup {Nothing, Keep} BY <1>1 DEF Change
<1>3. Renames(c, seen) => Job(c).name \in Names \cup {NoName} BY <1>2 DEF Renames
<1>4. Moves(c, seen) => Job(c).parent \in Ids \cup {Nothing} /\ seen.kind = "equipment" BY <1>2 DEF Moves
<1> DEFINE n == IF Renames(c, seen) THEN Job(c).name ELSE old.name
           p == IF Moves(c, seen) THEN Job(c).parent ELSE old.parent
<1>5. n \in Names \cup {NoName} /\ p \in Ids \cup {Nothing} BY <1>3, <1>4 DEF Record
<1>6. Revised(c, old, seen) = [old EXCEPT !.name = n, !.parent = p] BY DEF Revised
<1> HIDE DEF n, p
<1>7. /\ [old EXCEPT !.name = n, !.parent = p] \in Record
      /\ [old EXCEPT !.name = n, !.parent = p].kind = old.kind
      /\ [old EXCEPT !.name = n, !.parent = p].name = n
      /\ [old EXCEPT !.name = n, !.parent = p].parent = p
  BY <1>5 DEF Record
<1> QED BY <1>4, <1>6, <1>7 DEF n, p

\* The check of a change keeps the invariant.
LEMMA CheckChangeKeeps == ASSUME RecordsInv, NEW c \in Clerks, CheckChange(c) PROVE RecordsInv'
<1> DEFINE i == Job(c).id
           seen == row[i]
<1>1. At(c, "start") /\ Job(c).op = "change" /\ row' = row BY DEF CheckChange
<1>2. RecordTypeOK /\ i \in Ids BY <1>1, Jobs DEF RecordsInv, Change
<1>3. CASE Answer(c, "refused") /\ crossed' = crossed
  <2>1. "refused" \in Places /\ "refused" # "checked" /\ "refused" # "found" BY DEF Places
  <2>2. PICK rec \in ClerkRecord :
           /\ rec.work = Job(c) /\ rec.at = "refused" /\ rec.kind = clerk[c].kind
           /\ clerk' = [clerk EXCEPT ![c] = rec]
    BY <1>2, <1>3, <2>1, AnswerStep
  <2>3. RowsGo(row') /\ \A d \in Clerks : Keeps(d, row') BY <1>1, RowsStay
  <2> QED BY <2>1, <2>2, <2>3, <1>3, LeaveStep
<1>4. CASE Live(i) /\ ~ (LooksUp(c, seen) /\ Taken(Revised(c, seen, seen), i)) /\ Pass(c, seen.kind, seen)
  <2>1. seen \in Record /\ InTable(i, seen.kind) BY <1>2, <1>4 DEF RecordsInv, InTables, Live
  <2>2. seen.kind \in Kinds BY <2>1 DEF Record
  <2> HIDE DEF seen
  <2>3. PICK rec \in ClerkRecord :
           /\ rec.work = Job(c) /\ rec.at = "checked" /\ rec.kind = seen.kind /\ rec.seen = seen
           /\ clerk' = [clerk EXCEPT ![c] = rec]
    BY <1>2, <1>4, <2>1, <2>2, PassStep
  <2>4. clerk'[c] = rec /\ Asked' = Asked BY <2>3, <1>2, ClerkStep
  <2>5. Job(c)' = Job(c) BY <2>3, <2>4 DEF Job
  <2>6. Told(c)' BY <1>1, <2>1, <2>3, <2>4, <2>5 DEF Told, At, InTable
  <2>7. Wants(c)' = Revised(c, seen, seen)
    <3>1. clerk'[c].seen = seen /\ Job(c)'.op = "change" BY <1>1, <2>3, <2>4, <2>5
    <3>2. Renames(c, clerk[c].seen)' = Renames(c, seen) /\ Moves(c, clerk[c].seen)' = Moves(c, seen)
      BY <3>1, <2>5 DEF Renames, Moves
    <3>3. Wants(c)' = Revised(c, clerk[c].seen, clerk[c].seen)' BY <3>1 DEF Wants, Revised
    <3> QED BY <3>1, <3>2, <3>3, <2>5 DEF Revised
  <2>8. ASSUME NewName(c)' PROVE Free(row, Wants(c)', i)
    <3>1. seen.kind = "category" /\ Job(c).name \notin {Keep, NoName, seen.name}
      BY <2>8, <2>3, <2>4, <2>5, <1>1 DEF NewName
    <3>2. LooksUp(c, seen) BY <3>1 DEF LooksUp, Renames
    <3> QED BY <3>2, <2>7, <1>2, <1>4, TakenIsNotFree DEF seen
  <2>9. ~At(c, "checked") BY <1>1 DEF At
  <2> QED BY <1>1, <1>4, <2>1, <2>2, <2>6, <2>8, <2>9, EnterStep
<1> QED BY <1>1, <1>3, <1>4 DEF CheckChange

\* What a change writes has a name no row has, or the name the row has already.
LEMMA ChangeFree ==
  ASSUME RecordsInv, NEW c \in Clerks, At(c, "checked"), Job(c).op = "change",
         row[Job(c).id] # Nothing, ~Violates(Revised(c, row[Job(c).id], clerk[c].seen), Job(c).id)
  PROVE  \/ SameName(row[Job(c).id], Revised(c, row[Job(c).id], clerk[c].seen))
         \/ Free(row, Revised(c, row[Job(c).id], clerk[c].seen), Job(c).id)
         \/ clerk[c].kind \notin Unique /\ clerk[c].kind \in crossed
<1> DEFINE i == Job(c).id
           old == row[i]
           seen == clerk[c].seen
           new == Revised(c, old, seen)
<1>1. RecordTypeOK /\ InTables(row) /\ Told(c) /\ StillFree(c, row, crossed) BY DEF RecordsInv
<1>2. i \in Ids BY <1>1, Jobs DEF Change
<1>3. seen \in Record /\ clerk[c].kind = seen.kind /\ InTable(i, seen.kind) BY <1>1 DEF Told
<1>4. old \in Record /\ old.kind = seen.kind
  <2>1. old \in Record /\ InTable(i, old.kind) BY <1>1, <1>2 DEF InTables
  <2> QED BY <1>1, <1>3, <2>1, OneTable
<1>5. ~Violates(new, i) OBVIOUS
<1> HIDE DEF old, seen, new, i
<1>6. /\ new \in Record /\ new.kind = seen.kind
      /\ new.name = (IF Renames(c, seen) THEN Job(c).name ELSE old.name)
      /\ seen.kind # "equipment" => new.parent = old.parent
  BY <1>3, <1>4, RevisedIs DEF new
<1>7. CASE new.kind \in Unique
  <2>1. ~Taken(new, i) BY <1>5, <1>7 DEF Violates
  <2> QED BY <2>1, <1>2, TakenIsNotFree DEF new, old, seen, i
<1>8. CASE new.kind \notin Unique
  <2>1. seen.kind \in {"attribute", "category"} BY <1>8, <1>6, <1>3 DEF Record, Kinds, Unique
  <2>2. CASE ~Renames(c, seen)
    <3>1. SameName(old, new) BY <2>1, <2>2, <1>4, <1>6 DEF SameName
    <3> QED BY <3>1 DEF new, old, seen, i
  <2>3. CASE Renames(c, seen) /\ Job(c).name = NoName
    <3>1. Free(row, new, i) BY <2>3, <1>6 DEF Free, Collide
    <3> QED BY <3>1 DEF new, old, seen, i
  <2>4. CASE Renames(c, seen) /\ Job(c).name # NoName /\ seen.kind \notin crossed
    <3>1. seen.kind = "category" BY <2>1, <2>4 DEF Renames
    <3>2. Open(c, crossed) /\ NewName(c)
      BY <2>4, <3>1, <1>3, <1>6, <1>8 DEF Open, NewName, Renames, seen
    <3>3. Free(row, Wants(c), i) /\ Wants(c) = Revised(c, seen, seen)
      BY <3>2, <1>1 DEF StillFree, Wants, seen, i
    <3>4. Wants(c).kind = new.kind /\ Wants(c).name = new.name
      BY <3>3, <2>4, <1>3, <1>6, RevisedIs
    <3>5. Free(row, new, i) BY <3>1, <3>3, <3>4, <1>6 DEF Free, Collide
    <3> QED BY <3>5 DEF new, old, seen, i
  <2>5. CASE seen.kind \in crossed BY <2>5, <1>3, <1>6, <1>8
  <2> QED BY <2>2, <2>3, <2>4, <2>5
<1> QED BY <1>7, <1>8

\* The commit of a change keeps the invariant.
LEMMA CommitChangeKeeps == ASSUME RecordsInv, NEW c \in Clerks, CommitChange(c) PROVE RecordsInv'
<1> DEFINE i == Job(c).id
           old == row[i]
           new == Revised(c, old, clerk[c].seen)
<1>1. At(c, "checked") /\ Job(c).op = "change" /\ crossed' = crossed BY DEF CommitChange
<1>2. RecordTypeOK /\ Told(c) /\ InTables(row) BY DEF RecordsInv
<1>3. i \in Ids BY <1>1, <1>2, Jobs DEF Change
<1>4. CASE Answer(c, "failed") /\ row' = row
  <2>1. "failed" \in Places /\ "failed" # "checked" /\ "failed" # "found" BY DEF Places
  <2>2. PICK rec \in ClerkRecord :
           /\ rec.work = Job(c) /\ rec.at = "failed" /\ rec.kind = clerk[c].kind
           /\ clerk' = [clerk EXCEPT ![c] = rec]
    BY <1>2, <1>4, <2>1, AnswerStep
  <2>3. RowsGo(row') /\ \A d \in Clerks : Keeps(d, row') BY <1>4, RowsStay
  <2> QED BY <1>1, <2>1, <2>2, <2>3, LeaveStep
<1>5. CASE Live(i) /\ ~Violates(new, i) /\ Answer(c, "done") /\ row' = [row EXCEPT ![i] = new]
  <2>1. "done" \in Places /\ "done" # "checked" /\ "done" # "found" BY DEF Places
  <2>2. PICK rec \in ClerkRecord :
           /\ rec.work = Job(c) /\ rec.at = "done" /\ rec.kind = clerk[c].kind
           /\ clerk' = [clerk EXCEPT ![c] = rec]
    BY <1>2, <1>5, <2>1, AnswerStep
  <2>3. old # Nothing BY <1>5 DEF Live
  <2>4. clerk[c].seen \in Record /\ clerk[c].kind = clerk[c].seen.kind /\ InTable(i, clerk[c].kind)
    BY <1>1, <1>2 DEF Told
  <2>5. old \in Record /\ old.kind = clerk[c].kind /\ InTable(i, old.kind)
    <3>1. old \in Record /\ InTable(i, old.kind) BY <1>2, <1>3, <2>3 DEF InTables
    <3> QED BY <1>2, <2>4, <3>1, OneTable
  <2>6. new \in Record /\ new.kind = old.kind BY <1>1, <2>4, <2>5, RevisedIs
  <2>7. SameName(old, new) \/ Free(row, new, i) \/ (new.kind \notin Unique /\ new.kind \in crossed)
    BY <1>1, <1>5, <2>3, <2>5, <2>6, ChangeFree
  <2>8. new # Nothing BY <2>6, KeptAssumption
  <2> HIDE DEF new, old, i
  <2>9. RowsGo(row') /\ \A d \in Clerks \ {c} : Keeps(d, row')
    <3>1. CASE SameName(old, new)
      <4>1. row \in [Ids -> Record \cup {Nothing}] BY <1>2 DEF RecordTypeOK
      <4>2. row' \in [Ids -> Record \cup {Nothing}] /\ \A j \in Ids : row'[j] = IF j = i THEN new ELSE row[j]
        BY <4>1, <1>5, <2>6
      <4>3. \A j \in Ids : SameName(row[j], row[j]) BY DEF SameName
      <4>4. Fewer(row, row') BY <4>2, <4>3, <3>1, <2>3 DEF Fewer, old
      <4>5. \A j \in Ids : row[j] # Nothing /\ row[j].kind = "contract" => row'[j] # Nothing BY <4>2, <2>8
      <4> QED BY <4>2, <4>4, <4>5, FewerGo
    <3>2. CASE Free(row, new, i) \/ (new.kind \notin Unique /\ new.kind \in crossed)
      <4>1. /\ RowsGo(row')
            /\ \A d \in Clerks : clerk[d].kind # new.kind \/ new.kind \in Unique \cup crossed => Keeps(d, row')
        BY <1>3, <1>5, <2>5, <2>6, <2>8, <3>2, WriteGo
      <4>2. ASSUME NEW d \in Clerks \ {c} PROVE Keeps(d, row')
        <5>1. CASE At(d, "checked") BY <5>1, <4>1, <1>1, <2>5, <2>6, OtherKinds
        <5>2. CASE ~At(d, "checked") BY <5>2 DEF Keeps, Open
        <5> QED BY <5>1, <5>2
      <4> QED BY <4>1, <4>2
    <3> QED BY <2>7, <3>1, <3>2
  <2> QED BY <1>1, <2>1, <2>2, <2>9, LeaveStep
<1> QED BY <1>1, <1>4, <1>5 DEF CommitChange

\* A removal that finds its row keeps the invariant.
LEMMA FindRowKeeps == ASSUME RecordsInv, NEW c \in Clerks, FindRow(c) PROVE RecordsInv'
<1> DEFINE i == Job(c).id
<1>1. Job(c).op = "remove" /\ row' = row /\ crossed' = crossed BY DEF FindRow
<1>2. RecordTypeOK /\ InTables(row) BY DEF RecordsInv
<1>3. i \in Ids BY <1>1, <1>2, Jobs DEF Removal
<1>4. RowsGo(row') /\ \A d \in Clerks : Keeps(d, row') BY <1>1, RowsStay
<1>5. CASE Answer(c, "refused")
  <2>1. "refused" \in Places /\ "refused" # "checked" /\ "refused" # "found" BY DEF Places
  <2>2. PICK rec \in ClerkRecord :
           /\ rec.work = Job(c) /\ rec.at = "refused" /\ rec.kind = clerk[c].kind
           /\ clerk' = [clerk EXCEPT ![c] = rec]
    BY <1>2, <1>5, <2>1, AnswerStep
  <2> QED BY <1>1, <1>4, <2>1, <2>2, LeaveStep
<1>6. CASE Live(i) /\ clerk' = [clerk EXCEPT ![c] = [@ EXCEPT !.at = "found", !.kind = row[i].kind]]
  <2> DEFINE K == row[i].kind
             rec == [clerk[c] EXCEPT !.at = "found", !.kind = K]
  <2>1. row[i] # Nothing /\ row[i] \in Record /\ InTable(i, K) BY <1>2, <1>3, <1>6 DEF InTables, Live
  <2>2. K \in Kinds BY <2>1 DEF Record
  <2>3. clerk[c] \in ClerkRecord BY <1>2 DEF RecordTypeOK, ClerkRecord
  <2> HIDE DEF K
  <2>4. rec \in ClerkRecord /\ rec.work = clerk[c].work /\ rec.at = "found" /\ rec.kind = K
    BY <2>2, <2>3 DEF ClerkRecord, Places
  <2>5. clerk' = [clerk EXCEPT ![c] = rec] BY <1>6 DEF K
  <2>6. rec.work = Job(c) BY <2>4 DEF Job
  <2>7. rec.at # "checked" BY <2>4
  <2>8. row'[i] # Nothing BY <2>1, <1>1
  <2> HIDE DEF rec
  <2> QED BY <1>1, <1>4, <2>1, <2>4, <2>5, <2>6, <2>7, <2>8, LeaveStep
<1> QED BY <1>5, <1>6 DEF FindRow

\* The commit of a removal keeps the invariant.
LEMMA CommitDeleteKeeps == ASSUME RecordsInv, NEW c \in Clerks, CommitDelete(c) PROVE RecordsInv'
<1> DEFINE i == Job(c).id
<1>1. At(c, "found") /\ crossed' = crossed BY DEF CommitDelete
<1>2. RecordTypeOK /\ InTables(row) /\ Told(c) /\ Finds(c, row) BY DEF RecordsInv
<1>3. Job(c).op = "remove" /\ InTable(i, clerk[c].kind) BY <1>1, <1>2 DEF Told
<1>4. i \in Ids BY <1>2, <1>3, Jobs DEF Removal
<1>5. row \in [Ids -> Record \cup {Nothing}] BY <1>2 DEF RecordTypeOK
<1>6. \A j \in Ids : SameName(row[j], row[j]) BY DEF SameName
<1>7. ASSUME NEW place \in {"done", "failed"}, Answer(c, place), RowsGo(row'), \A d \in Clerks : Keeps(d, row')
      PROVE  RecordsInv'
  <2>1. place \in Places /\ place # "checked" /\ place # "found" BY DEF Places
  <2>2. PICK rec \in ClerkRecord :
           /\ rec.work = Job(c) /\ rec.at = place /\ rec.kind = clerk[c].kind
           /\ clerk' = [clerk EXCEPT ![c] = rec]
    BY <1>2, <1>7, <2>1, AnswerStep
  <2> QED BY <1>1, <1>7, <2>1, <2>2, LeaveStep
<1>8. CASE clerk[c].kind = "contract" /\ Answer(c, "done") /\ row' = [row EXCEPT ![i].active = FALSE]
  <2> DEFINE new == [row[i] EXCEPT !.active = FALSE]
  <2>1. row[i] # Nothing BY <1>1, <1>2, <1>8 DEF Finds
  <2>2. row[i] \in Record BY <2>1, <1>2, <1>4 DEF InTables
  <2>3. new \in Record /\ SameName(row[i], new) BY <2>2 DEF Record, SameName
  <2>4. row' = [row EXCEPT ![i] = new] BY <1>8
  <2>5. new # Nothing BY <2>3, KeptAssumption
  <2> HIDE DEF new, i
  <2>6. row' \in [Ids -> Record \cup {Nothing}] /\ \A j \in Ids : row'[j] = IF j = i THEN new ELSE row[j]
    BY <1>5, <2>3, <2>4
  <2>7. Fewer(row, row') BY <2>6, <2>3, <2>1, <1>6 DEF Fewer
  <2>8. \A j \in Ids : row[j] # Nothing /\ row[j].kind = "contract" => row'[j] # Nothing BY <2>6, <2>5
  <2>9. RowsGo(row') /\ \A d \in Clerks : Keeps(d, row') BY <2>6, <2>7, <2>8, FewerGo
  <2> QED BY <2>9, <1>7, <1>8
<1>9. CASE Answer(c, "failed") /\ row' = row
  <2>1. RowsGo(row') /\ \A d \in Clerks : Keeps(d, row') BY <1>9, RowsStay
  <2> QED BY <2>1, <1>7, <1>9
<1>10. CASE /\ clerk[c].kind # "contract" /\ Answer(c, "done")
            /\ row' = [j \in Ids |-> IF j \in {i} \cup Attributes(i) THEN Nothing ELSE row[j]]
  <2> DEFINE dropped == {i} \cup Attributes(i)
  <2>1. ASSUME NEW j \in dropped, j \in Ids, row[j] # Nothing PROVE row[j].kind # "contract"
    <3>1. CASE j = i
      <4>1. InTable(i, row[i].kind) BY <3>1, <2>1, <1>2, <1>4 DEF InTables
      <4> QED BY <4>1, <3>1, <1>2, <1>3, <1>10, OneTable
    <3>2. CASE j \in Attributes(i) BY <3>2 DEF Attributes
    <3> QED BY <3>1, <3>2
  <2> HIDE DEF dropped
  <2>2. row' = [j \in Ids |-> IF j \in dropped THEN Nothing ELSE row[j]] BY <1>10 DEF dropped
  <2>3. row' \in [Ids -> Record \cup {Nothing}] BY <2>2, <1>5
  <2>4. Fewer(row, row') BY <2>2, <1>6 DEF Fewer
  <2>5. \A j \in Ids : row[j] # Nothing /\ row[j].kind = "contract" => row'[j] # Nothing BY <2>1, <2>2
  <2>6. RowsGo(row') /\ \A d \in Clerks : Keeps(d, row') BY <2>3, <2>4, <2>5, FewerGo
  <2> QED BY <2>6, <1>7, <1>10
<1> QED BY <1>8, <1>9, <1>10 DEF CommitDelete

\* A row that a desktop pushes keeps the invariant: the unique indexes judge it.
LEMMA PushRecordKeeps == ASSUME RecordsInv, PushRecord PROVE RecordsInv'
<1>1. PICK p \in RecordPushes :
        LET new == IF p.op = "create" THEN Filed(p.kind, p.name, p.parent)
                                      ELSE [row[p.id] EXCEPT !.name = p.name]
        IN /\ \/ p.op = "create" /\ ~ Live(p.id) /\ p.kind \in {"customer", "equipment", "item"}
              \/ p.op = "update" /\ Live(p.id) /\ row[p.id].kind = "customer"
           /\ ~ Violates(new, p.id)
           /\ row' = [row EXCEPT ![p.id] = new]
           /\ UNCHANGED <<used, clerk, crossed>>
  BY DEF PushRecord
<1> DEFINE i == p.id
           new == IF p.op = "create" THEN Filed(p.kind, p.name, p.parent) ELSE [row[i] EXCEPT !.name = p.name]
<1>2. RecordTypeOK /\ InTables(row) BY DEF RecordsInv
<1>3. i \in Ids /\ new \in Record /\ new.kind \in {"customer", "equipment", "item"} /\ InTable(i, new.kind)
  <2>1. CASE p.op = "create" /\ p.kind \in {"customer", "equipment", "item"}
    <3>1. p \in Creation BY <2>1, RecordPushesAssumption
    <3>2. i \in Ids /\ new \in Record /\ new.kind = p.kind BY <3>1, <2>1 DEF Creation, Filed, Record
    <3>3. p \in {x \in {Asked[d] : d \in Clerks} \union RecordPushes : x.op = "create"} BY <2>1
    <3>4. <<p.id, p.kind>> \in Filings(Asked) BY <3>3 DEF Filings
    <3> QED BY <3>2, <3>4, <2>1 DEF InTable
  <2>2. CASE p.op = "update" /\ Live(i) /\ row[i].kind = "customer"
    <3>1. i \in Ids /\ p.name \in Names \cup {NoName}
      <4>1. p \in Creation => p.op = "create" BY DEF Creation
      <4> QED BY <4>1, <2>2, RecordPushesAssumption
    <3>2. row[i] \in Record /\ InTable(i, row[i].kind) BY <3>1, <2>2, <1>2 DEF InTables, Live
    <3>3. new = [row[i] EXCEPT !.name = p.name] BY <2>2
    <3>4. new \in Record /\ new.kind = row[i].kind BY <3>1, <3>2, <3>3 DEF Record
    <3> QED BY <3>1, <3>2, <3>4, <2>2
  <2> QED BY <1>1, <2>1, <2>2
<1>4. ~Violates(new, i) /\ row' = [row EXCEPT ![i] = new] /\ UNCHANGED <<clerk, crossed>> BY <1>1
<1> HIDE DEF new, i
<1>5. new.kind \in Unique /\ new # Nothing BY <1>3, KeptAssumption DEF Unique
<1>6. Free(row, new, i) BY <1>3, <1>4, <1>5, TakenIsNotFree DEF Violates
<1>7. RowsGo(row') /\ \A d \in Clerks : Keeps(d, row') BY <1>3, <1>4, <1>5, <1>6, WriteGo
<1> QED BY <1>4, <1>7, RowStep

\* A contract that a desktop removes is switched off.
LEMMA PushDeleteKeeps == ASSUME RecordsInv, PushDelete PROVE RecordsInv'
<1>1. PICK p \in RecordPushes :
        /\ p.op = "delete" /\ Live(p.id) /\ row[p.id].kind = "contract"
        /\ row' = [row EXCEPT ![p.id].active = FALSE]
        /\ UNCHANGED <<used, clerk, crossed>>
  BY DEF PushDelete
<1> DEFINE i == p.id
           new == [row[i] EXCEPT !.active = FALSE]
<1>2. RecordTypeOK /\ InTables(row) BY DEF RecordsInv
<1>3. row \in [Ids -> Record \cup {Nothing}] BY <1>2 DEF RecordTypeOK
<1>4. i \in Ids
  <2>1. p \in Creation => p.op = "create" BY DEF Creation
  <2> QED BY <2>1, <1>1, RecordPushesAssumption
<1>5. row[i] # Nothing /\ row[i] \in Record BY <1>1, <1>2, <1>4 DEF InTables, Live
<1>6. new \in Record /\ SameName(row[i], new) /\ row' = [row EXCEPT ![i] = new]
  BY <1>1, <1>5 DEF Record, SameName
<1>7. new # Nothing BY <1>6, KeptAssumption
<1> HIDE DEF new, i
<1>8. row' \in [Ids -> Record \cup {Nothing}] /\ \A j \in Ids : row'[j] = IF j = i THEN new ELSE row[j]
  BY <1>3, <1>6
<1>9. \A j \in Ids : SameName(row[j], row[j]) BY DEF SameName
<1>10. Fewer(row, row') BY <1>5, <1>6, <1>8, <1>9 DEF Fewer
<1>11. \A j \in Ids : row[j] # Nothing /\ row[j].kind = "contract" => row'[j] # Nothing BY <1>7, <1>8
<1>12. RowsGo(row') /\ \A d \in Clerks : Keeps(d, row') BY <1>8, <1>10, <1>11, FewerGo
<1> QED BY <1>1, <1>12, RowStep

\* The invariant holds at the start.
LEMMA RecordsStart == RecordInit => RecordsInv
<1> SUFFICES ASSUME RecordInit PROVE RecordsInv OBVIOUS
<1>1. row = [i \in Ids |-> IF i \in DOMAIN Kept THEN Kept[i] ELSE Nothing] /\ crossed = {} BY DEF RecordInit
<1>2. PICK w \in RecordWork :
        clerk = [c \in Clerks |-> [work |-> w[c], at |-> "start", kind |-> Nothing, seen |-> Nothing]]
  BY DEF RecordInit
<1>3. w = [c \in Clerks |-> w[c]] BY RecordWorkAssumption
<1>4. \A c \in Clerks : w[c] \in Works BY DEF Works
<1>5. \A c \in Clerks : clerk[c].work = w[c] /\ clerk[c].at = "start" BY <1>2
<1>6. Asked = w BY <1>3, <1>5 DEF Asked
<1>7. \A i \in Ids : row[i] = IF i \in DOMAIN Kept THEN Kept[i] ELSE Nothing BY <1>1
<1>8. RecordTypeOK
  <2>1. row \in [Ids -> Record \cup {Nothing}] BY <1>1, KeptAssumption
  <2>2. clerk \in [Clerks -> [work : Works, at : Places, kind : Kinds \cup {Nothing},
                              seen : Record \cup {Nothing}]]
    BY <1>2, <1>4 DEF Places
  <2> QED BY <2>1, <2>2, <1>1, <1>6 DEF RecordTypeOK
<1>9. InTables(row)
  <2>1. ASSUME NEW i \in DOMAIN Kept PROVE InTable(i, Kept[i].kind) BY DEF InTable, Filings
  <2> QED BY <2>1, <1>7, KeptAssumption DEF InTables
<1>10. Apart(row, crossed) BY <1>7, KeptAssumption DEF Apart
<1>11. ASSUME NEW c \in Clerks PROVE Told(c) /\ Finds(c, row) /\ StillFree(c, row, crossed)
  BY <1>5 DEF Told, Finds, StillFree, Open, At
<1> QED BY <1>8, <1>9, <1>10, <1>11 DEF RecordsInv

\* Every step keeps the invariant.
LEMMA RecordsKeep == RecordsInv /\ [RecordNext]_recordVars => RecordsInv'
<1> SUFFICES ASSUME RecordsInv, [RecordNext]_recordVars PROVE RecordsInv' OBVIOUS
<1>1. RowsGo(row) /\ \A d \in Clerks : Keeps(d, row) BY RowsStay
<1>2. CASE UNCHANGED <<row, clerk, crossed>> BY <1>1, <1>2, RowStep
<1>3. CASE Receive BY <1>2, <1>3 DEF Receive
<1>4. CASE UNCHANGED recordVars BY <1>2, <1>4 DEF recordVars
<1> QED
  BY <1>3, <1>4, CheckCreateKeeps, CommitCreateKeeps, CheckChangeKeeps, CommitChangeKeeps, FindRowKeeps,
     CommitDeleteKeeps, PushRecordKeeps, PushDeleteKeeps
  DEF RecordNext

\* Two rows of one name are of a kind without a unique index, and only after two requests
\* have checked at once or a desktop has pushed one (inventory_categories.py,
\* contract_service.py, push.py).
THEOREM NamesApart == RecordSpec => []DuplicatesExplained
<1>1. RecordsInv => DuplicatesExplained BY DEF RecordsInv, DuplicatesExplained, Apart, Live
<1> QED BY <1>1, RecordsStart, RecordsKeep, PTL DEF RecordSpec

------------------------------------------------------------------------------
(* Quotas of contracts and plans *)

\* What a request has, and the contracts there are.
TakerFields == {"work", "at", "due", "seen"}
Covered == DOMAIN Contracts

\* What a request may be asked, as IntakeWorkAssumption has it.
MayAsk(w) ==
  /\ w.by = "portal" => w.contract \in Covered
  /\ w.by = "office" =>
       w.contract \in Covered /\ ("max" \in DOMAIN w.data => w.data.max \in Quotas)

\* The terms of a contract.
IsTerms(k) == DOMAIN k = TermColumns /\ k.max \in Quotas

\* The values of the variables, as far as they are counted and compared.
IntakeTypeOK ==
  /\ today \in Nat
  /\ \E S : received \in Seq(S)
  /\ \A i \in DOMAIN received : received[i].day \in Nat /\ received[i].day <= today
  /\ terms = [k \in Covered |-> terms[k]] /\ \A k \in Covered : IsTerms(terms[k])
  /\ taker = [t \in Takers |-> taker[t]]
  /\ \A t \in Takers :
       /\ DOMAIN taker[t] = TakerFields /\ MayAsk(Task(t))
       /\ Stands(t, "amending") => Task(t).by = "office" /\ IsTerms(taker[t].seen)

\* Room for one more order, of the contract or of the plan.
Bounded(k) == terms[k].max \notin {0, Unlimited} /\ k \notin excused
QuotaLeft(k) == Bounded(k) => count_contract_orders_this_month(k) < terms[k].max
PlanLeft == PlanLimit = Unlimited \/ Plan \in excused \/ count_orders_current_month < PlanLimit

\* An update that is compared, and the contract as it was compared with.
ComparedWith(t) ==
  Stands(t, "amending") =>
    /\ ~ Backwards(Given(t, taker[t].seen))
    /\ \/ Task(t).contract \in tangled
       \/ /\ terms[Task(t).contract] = taker[t].seen
          /\ \A u \in Takers \ {t} : ~ (Stands(u, "amending") /\ Task(u).contract = Task(t).contract)

\* What a request that has counted may rely on, at this place.
MayRely(t, place) ==
  /\ place \in {"covered", "admitted", "settled"} =>
       Task(t).by \in {"portal", "desk"} /\ (Task(t).by = "portal" => QuotaLeft(Task(t).contract))
  /\ place \in {"admitted", "settled"} => PlanLeft /\ (PlanLimit = Unlimited \/ PlanLimit > 0)

\* A request that has counted has room for one more order, or its contract is excused; an
\* update has compared the terms there are, or its contract is tangled.
TermsInv ==
  /\ IntakeTypeOK /\ TermsExplained
  /\ \A t \in Takers : MayRely(t, taker[t].at) /\ ComparedWith(t)

---------------------------------------------------------------------------

\* Months, and the orders of a month as a value.
InMonth(r, day) == {i \in DOMAIN r : MonthOf(r[i].day) = MonthOf(day)}
OfContract(r, day, k) == {i \in InMonth(r, day) : r[i].contract = k}

\* The counts of the month are the sizes of two sets of orders.
LEMMA CountsAre ==
  /\ count_orders_current_month = Cardinality(InMonth(received, today))
  /\ \A k : count_contract_orders_this_month(k) = Cardinality(OfContract(received, today, k))
BY DEF count_orders_current_month, count_contract_orders_this_month, ThisMonth, InMonth, OfContract

\* The sets that are counted are finite.
LEMMA CountsFinite ==
  ASSUME NEW S, NEW r \in Seq(S), NEW day, NEW k
  PROVE  /\ IsFiniteSet(InMonth(r, day)) /\ Cardinality(InMonth(r, day)) \in Nat
         /\ IsFiniteSet(OfContract(r, day, k)) /\ Cardinality(OfContract(r, day, k)) \in Nat
<1>1. DOMAIN r = 1..Len(r) /\ Len(r) \in Nat OBVIOUS
<1>2. IsFiniteSet(1..Len(r)) BY <1>1, FS_Interval
<1>3. InMonth(r, day) \subseteq 1..Len(r) /\ OfContract(r, day, k) \subseteq 1..Len(r)
  BY <1>1 DEF InMonth, OfContract
<1>4. IsFiniteSet(InMonth(r, day)) /\ IsFiniteSet(OfContract(r, day, k)) BY <1>2, <1>3, FS_Subset
<1> QED BY <1>4, FS_CardinalityType

\* A new order counts where it belongs, and nowhere else.
LEMMA CountsAfter ==
  ASSUME NEW S, NEW r \in Seq(S), NEW o \in S, NEW day, NEW k
  PROVE  /\ Cardinality(InMonth(Append(r, o), day)) <= Cardinality(InMonth(r, day)) + 1
         /\ Cardinality(OfContract(Append(r, o), day, k)) <= Cardinality(OfContract(r, day, k)) + 1
         /\ o.contract # k =>
              Cardinality(OfContract(Append(r, o), day, k)) = Cardinality(OfContract(r, day, k))
<1> DEFINE a == Append(r, o)
           n == Len(r) + 1
<1>1. /\ DOMAIN r = 1..Len(r) /\ Len(r) \in Nat /\ DOMAIN a = 1..n /\ a[n] = o
      /\ \A i \in 1..Len(r) : a[i] = r[i]
  OBVIOUS
<1>2. n \notin DOMAIN r /\ \A i \in DOMAIN a : i = n \/ i \in DOMAIN r BY <1>1
<1> HIDE DEF a, n
<1>3. InMonth(a, day) \in {InMonth(r, day), InMonth(r, day) \cup {n}}
  <2>1. \A i \in DOMAIN r : i \in DOMAIN a /\ a[i] = r[i] BY <1>1 DEF n
  <2>2. CASE n \in InMonth(a, day)
    <3>1. InMonth(a, day) = InMonth(r, day) \cup {n} BY <1>2, <2>1, <2>2 DEF InMonth
    <3> QED BY <3>1
  <2>3. CASE n \notin InMonth(a, day)
    <3>1. InMonth(a, day) = InMonth(r, day) BY <1>2, <2>1, <2>3 DEF InMonth
    <3> QED BY <3>1
  <2> QED BY <2>2, <2>3
<1>4. /\ OfContract(a, day, k) \in {OfContract(r, day, k), OfContract(r, day, k) \cup {n}}
      /\ o.contract # k => OfContract(a, day, k) = OfContract(r, day, k)
  <2>1. \A i \in DOMAIN r : i \in DOMAIN a /\ a[i] = r[i] BY <1>1 DEF n
  <2>2. CASE n \in OfContract(a, day, k)
    <3>1. OfContract(a, day, k) = OfContract(r, day, k) \cup {n}
      BY <1>2, <2>1, <2>2 DEF InMonth, OfContract
    <3>2. o.contract = k BY <2>2, <1>1 DEF OfContract
    <3> QED BY <3>1, <3>2
  <2>3. CASE n \notin OfContract(a, day, k)
    <3>1. OfContract(a, day, k) = OfContract(r, day, k) BY <1>2, <2>1, <2>3 DEF InMonth, OfContract
    <3> QED BY <3>1
  <2> QED BY <2>2, <2>3
<1>5. /\ IsFiniteSet(InMonth(r, day)) /\ Cardinality(InMonth(r, day)) \in Nat
      /\ IsFiniteSet(OfContract(r, day, k)) /\ Cardinality(OfContract(r, day, k)) \in Nat
  BY CountsFinite
<1>6. ASSUME NEW T, IsFiniteSet(T), Cardinality(T) \in Nat PROVE Cardinality(T \cup {n}) <= Cardinality(T) + 1
  <2>1. Cardinality(T \cup {n}) = IF n \in T THEN Cardinality(T) ELSE Cardinality(T) + 1
    BY <1>6, FS_AddElement
  <2> QED BY <2>1, <1>6
<1>7. Cardinality(InMonth(a, day)) <= Cardinality(InMonth(r, day)) + 1 BY <1>3, <1>5, <1>6
<1>8. Cardinality(OfContract(a, day, k)) <= Cardinality(OfContract(r, day, k)) + 1 BY <1>4, <1>5, <1>6
<1> QED BY <1>4, <1>7, <1>8 DEF a

\* A later day is of the same month or of a month no earlier day is of.
LEMMA MonthsPass ==
  ASSUME NEW m \in Nat, NEW d \in Nat, d <= m, MonthOf(m + 1) # MonthOf(m)
  PROVE  MonthOf(d) # MonthOf(m + 1)
<1> DEFINE D == DaysPerMonth
<1>1. D \in Nat /\ D > 0 BY MonthsAssumption
<1> HIDE DEF D
<1>2. \A x \in Nat : /\ x \div D \in Nat
                     /\ D * (x \div D) <= x
                     /\ x < D * (x \div D) + D
  BY <1>1, SMTT(30)
<1> DEFINE a == d \div D
           b == m \div D
           e == (m + 1) \div D
<1>3. a \in Nat /\ b \in Nat /\ e \in Nat BY <1>2
<1>4. D * a <= d /\ m + 1 < D * e + D /\ D * e <= m + 1 /\ D * b <= m /\ m < D * b + D BY <1>2
<1>5. MonthOf(d) = a /\ MonthOf(m) = b /\ MonthOf(m + 1) = e BY DEF MonthOf, D
<1> HIDE DEF a, b, e
<1>6. SUFFICES ASSUME a = e PROVE b = e BY <1>5
<1>7. D * e <= m /\ m < D * e + D BY <1>4, <1>6, <1>1, <1>3
<1>8. CASE b < e
  <2>1. b + 1 <= e BY <1>8, <1>3
  <2>2. D * (b + 1) <= D * e BY <2>1, <1>1, <1>3, SMTT(30)
  <2>3. D * (b + 1) = D * b + D BY <1>1, <1>3, SMTT(30)
  <2> QED BY <2>2, <2>3, <1>4, <1>7, <1>1, <1>3, SMTT(30)
<1>9. CASE e < b
  <2>1. e + 1 <= b BY <1>9, <1>3
  <2>2. D * (e + 1) <= D * b BY <2>1, <1>1, <1>3, SMTT(30)
  <2>3. D * (e + 1) = D * e + D BY <1>1, <1>3, SMTT(30)
  <2> QED BY <2>2, <2>3, <1>4, <1>7, <1>1, <1>3, SMTT(30)
<1> QED BY <1>3, <1>8, <1>9

---------------------------------------------------------------------------
(* What a step does to a request *)

\* What a step makes of a request, and of the others.
LEMMA TakerStep ==
  ASSUME IntakeTypeOK, NEW t \in Takers, NEW rec, DOMAIN rec = TakerFields, rec.work = Task(t),
         taker' = [taker EXCEPT ![t] = rec]
  PROVE  /\ taker' = [u \in Takers |-> taker'[u]]
         /\ taker'[t] = rec /\ \A u \in Takers \ {t} : taker'[u] = taker[u]
         /\ \A u \in Takers : Task(u)' = Task(u) /\ DOMAIN taker'[u] = TakerFields
<1>1. taker = [u \in Takers |-> taker[u]] BY DEF IntakeTypeOK
<1>2. /\ taker' = [u \in Takers |-> taker'[u]]
      /\ taker'[t] = rec /\ \A u \in Takers \ {t} : taker'[u] = taker[u]
  BY <1>1
<1> QED BY <1>2 DEF Task, IntakeTypeOK

\* A reply moves a request on.
LEMMA ReplyStep ==
  ASSUME IntakeTypeOK, NEW t \in Takers, NEW place, Reply(t, place)
  PROVE  \E rec : /\ DOMAIN rec = TakerFields /\ rec.work = Task(t) /\ rec.at = place
                  /\ rec.seen = taker[t].seen /\ taker' = [taker EXCEPT ![t] = rec]
<1> DEFINE rec == [taker[t] EXCEPT !.at = place]
<1>1. DOMAIN taker[t] = TakerFields BY DEF IntakeTypeOK
<1>2. DOMAIN rec = TakerFields /\ rec.work = taker[t].work /\ rec.at = place /\ rec.seen = taker[t].seen
  BY <1>1 DEF TakerFields
<1>3. taker' = [taker EXCEPT ![t] = rec] BY DEF Reply
<1> HIDE DEF rec
<1> QED BY <1>2, <1>3 DEF Task

\* The counts depend on the orders and on the day.
LEMMA CountsSame ==
  ASSUME UNCHANGED <<received, today>>
  PROVE  /\ count_orders_current_month' = count_orders_current_month
         /\ \A k : count_contract_orders_this_month(k)' = count_contract_orders_this_month(k)
BY DEF count_orders_current_month, count_contract_orders_this_month, ThisMonth, MonthOf

\* So does the room that is left.
LEMMA QuotaSame ==
  ASSUME UNCHANGED <<received, today, terms, excused>>
  PROVE  /\ PlanLeft' = PlanLeft /\ \A k : QuotaLeft(k)' = QuotaLeft(k)
         /\ QuotaExplained' = QuotaExplained
<1>1. /\ count_orders_current_month' = count_orders_current_month
      /\ \A k : count_contract_orders_this_month(k)' = count_contract_orders_this_month(k)
  BY CountsSame
<1> QED BY <1>1 DEF PlanLeft, QuotaLeft, Bounded, QuotaExplained

\* A step of one request that leaves the orders and the contracts keeps the invariant.
LEMMA TakerKeeps ==
  ASSUME TermsInv, NEW t \in Takers, NEW rec, DOMAIN rec = TakerFields, rec.work = Task(t),
         taker' = [taker EXCEPT ![t] = rec], UNCHANGED <<terms, received, today, excused>>,
         tangled \subseteq tangled', MayRely(t, rec.at),
         rec.at = "amending" =>
           /\ Task(t).by = "office" /\ IsTerms(rec.seen)
           /\ ~Backwards(Given(t, rec.seen)) /\ terms[Task(t).contract] = rec.seen
           /\ \/ Task(t).contract \in tangled'
              \/ \A u \in Takers \ {t} : ~ (Stands(u, "amending") /\ Task(u).contract = Task(t).contract)
  PROVE  TermsInv'
<1>1. IntakeTypeOK /\ TermsExplained BY DEF TermsInv
<1>2. /\ taker' = [u \in Takers |-> taker'[u]]
      /\ taker'[t] = rec /\ \A u \in Takers \ {t} : taker'[u] = taker[u]
      /\ \A u \in Takers : Task(u)' = Task(u) /\ DOMAIN taker'[u] = TakerFields
  BY <1>1, TakerStep
<1>3. /\ PlanLeft' = PlanLeft /\ \A k : QuotaLeft(k)' = QuotaLeft(k)
      /\ QuotaExplained' = QuotaExplained
  BY QuotaSame
<1>4. IntakeTypeOK'
  <2>1. \A u \in Takers : MayAsk(Task(u))' BY <1>1, <1>2 DEF IntakeTypeOK, MayAsk
  <2>2. ASSUME NEW u \in Takers, Stands(u, "amending")' PROVE (Task(u).by = "office" /\ IsTerms(taker[u].seen))'
    <3>1. CASE u = t BY <3>1, <2>2, <1>2 DEF Stands
    <3>2. CASE u # t BY <3>2, <2>2, <1>1, <1>2 DEF Stands, IntakeTypeOK
    <3> QED BY <3>1, <3>2
  <2> QED BY <2>1, <2>2, <1>1, <1>2 DEF IntakeTypeOK
<1>5. TermsExplained' BY <1>1, <1>3 DEF TermsExplained
<1>6. ASSUME NEW u \in Takers PROVE ComparedWith(u)'
  <2>1. SUFFICES ASSUME Stands(u, "amending")'
        PROVE  /\ ~ Backwards(Given(u, taker[u].seen))'
               /\ \/ (Task(u).contract \in tangled)'
                  \/ /\ (terms[Task(u).contract] = taker[u].seen)'
                     /\ \A v \in Takers \ {u} :
                          ~ (Stands(v, "amending") /\ Task(v).contract = Task(u).contract)'
    BY DEF ComparedWith
  <2>2. CASE u = t
    <3>1. rec.at = "amending" /\ taker'[t].seen = rec.seen BY <2>1, <2>2, <1>2 DEF Stands
    <3>2. Given(t, taker[t].seen)' = Given(t, rec.seen) BY <3>1, <1>2 DEF Given
    <3>3. \A v \in Takers \ {t} :
            (Stands(v, "amending") /\ Task(v).contract = Task(t).contract)'
              = (Stands(v, "amending") /\ Task(v).contract = Task(t).contract)
      BY <1>2 DEF Stands
    <3>4. ~ Backwards(Given(t, taker[t].seen))' BY <3>1, <3>2 DEF Backwards
    <3> QED BY <3>1, <3>3, <3>4, <1>2, <2>2
  <2>3. CASE u # t
    <3>1. Stands(u, "amending") /\ taker'[u] = taker[u] BY <2>1, <2>3, <1>2 DEF Stands
    <3>2. ComparedWith(u) BY DEF TermsInv
    <3>3. Given(u, taker[u].seen)' = Given(u, taker[u].seen) BY <3>1, <1>2 DEF Given
    <3>4. ~ Backwards(Given(u, taker[u].seen))' BY <3>1, <3>2, <3>3 DEF ComparedWith, Backwards
    <3>5. CASE Task(u).contract \in tangled' BY <3>4, <3>5, <1>2
    <3>6. CASE Task(u).contract \notin tangled'
      <4>1. /\ terms[Task(u).contract] = taker[u].seen
            /\ \A v \in Takers \ {u} : ~ (Stands(v, "amending") /\ Task(v).contract = Task(u).contract)
        BY <3>1, <3>2, <3>6 DEF ComparedWith
      <4>2. rec.at = "amending" => Task(t).contract # Task(u).contract BY <3>1, <3>6, <2>3
      <4>3. \A v \in Takers \ {u} : ~ (Stands(v, "amending") /\ Task(v).contract = Task(u).contract)'
        BY <4>1, <4>2, <1>2 DEF Stands
      <4> QED BY <4>1, <4>3, <3>1, <3>4, <1>2
    <3> QED BY <3>5, <3>6
  <2> QED BY <2>2, <2>3
<1>7. ASSUME NEW u \in Takers PROVE MayRely(u, taker[u].at)'
  <2>1. CASE u = t BY <2>1, <1>2, <1>3 DEF MayRely
  <2>2. CASE u # t BY <2>2, <1>2, <1>3 DEF TermsInv, MayRely
  <2> QED BY <2>1, <2>2
<1> QED BY <1>4, <1>5, <1>6, <1>7 DEF TermsInv

---------------------------------------------------------------------------
(* One lemma per action *)

\* A step of the policies keeps the invariant.
LEMMA NothingMoves ==
  ASSUME TermsInv, UNCHANGED <<terms, received, today, taker, excused, tangled>> PROVE TermsInv'
<1>1. /\ PlanLeft' = PlanLeft /\ \A k : QuotaLeft(k)' = QuotaLeft(k)
      /\ QuotaExplained' = QuotaExplained
  BY QuotaSame
<1>2. IntakeTypeOK' BY DEF TermsInv, IntakeTypeOK, MayAsk, Task, Stands
<1>3. TermsExplained' BY <1>1 DEF TermsInv, TermsExplained
<1>4. ASSUME NEW t \in Takers PROVE MayRely(t, taker[t].at)'
  <2>1. Task(t)' = Task(t) BY DEF Task
  <2> QED BY <2>1, <1>1 DEF TermsInv, MayRely
<1>5. ASSUME NEW t \in Takers PROVE ComparedWith(t)'
  <2>1. Given(t, taker[t].seen)' = Given(t, taker[t].seen) BY DEF Given, Task
  <2>2. ComparedWith(t) BY DEF TermsInv
  <2> QED BY <2>1, <2>2 DEF ComparedWith, Stands, Task, Backwards
<1> QED BY <1>2, <1>3, <1>4, <1>5 DEF TermsInv

\* The check of a contract keeps the invariant: it has counted.
LEMMA CheckContractKeeps == ASSUME TermsInv, NEW t \in Takers, CheckContract(t) PROVE TermsInv'
<1> DEFINE k == Task(t).contract
<1>1. IntakeTypeOK BY DEF TermsInv
<1>2. Task(t).by = "portal" /\ UNCHANGED <<terms, received, today, excused, tangled>> BY DEF CheckContract
<1>3. CASE Reply(t, "refused")
  <2>1. PICK rec : /\ DOMAIN rec = TakerFields /\ rec.work = Task(t) /\ rec.at = "refused"
                   /\ rec.seen = taker[t].seen /\ taker' = [taker EXCEPT ![t] = rec]
    BY <1>1, <1>3, ReplyStep
  <2>2. MayRely(t, rec.at) BY <2>1 DEF MayRely
  <2>3. rec.at # "amending" /\ tangled \subseteq tangled' BY <2>1, <1>2
  <2> QED BY <1>2, <2>1, <2>2, <2>3, TakerKeeps
<1>4. CASE /\ terms[k].max \notin {0, Unlimited} => count_contract_orders_this_month(k) < terms[k].max
           /\ Reply(t, "covered")
  <2>1. PICK rec : /\ DOMAIN rec = TakerFields /\ rec.work = Task(t) /\ rec.at = "covered"
                   /\ rec.seen = taker[t].seen /\ taker' = [taker EXCEPT ![t] = rec]
    BY <1>1, <1>4, ReplyStep
  <2>2. QuotaLeft(k) BY <1>4 DEF QuotaLeft, Bounded
  <2>3. MayRely(t, rec.at) BY <1>2, <2>1, <2>2 DEF MayRely
  <2>4. rec.at # "amending" /\ tangled \subseteq tangled' BY <2>1, <1>2
  <2> QED BY <1>2, <2>1, <2>3, <2>4, TakerKeeps
<1> QED BY <1>3, <1>4 DEF CheckContract

\* The check of the plan keeps the invariant: it has counted.
LEMMA CanCreateKeeps == ASSUME TermsInv, NEW t \in Takers, can_create_order(t) PROVE TermsInv'
<1>1. IntakeTypeOK BY DEF TermsInv
<1>2. UNCHANGED <<terms, received, today, excused, tangled>> BY DEF can_create_order
<1>3. CASE Reply(t, "refused")
  <2>1. PICK rec : /\ DOMAIN rec = TakerFields /\ rec.work = Task(t) /\ rec.at = "refused"
                   /\ rec.seen = taker[t].seen /\ taker' = [taker EXCEPT ![t] = rec]
    BY <1>1, <1>3, ReplyStep
  <2>2. MayRely(t, rec.at) BY <2>1 DEF MayRely
  <2>3. rec.at # "amending" /\ tangled \subseteq tangled' BY <2>1, <1>2
  <2> QED BY <1>2, <2>1, <2>2, <2>3, TakerKeeps
<1>4. CASE /\ PlanLimit = Unlimited \/ count_orders_current_month < PlanLimit
           /\ Reply(t, "admitted")
  <2>1. PICK rec : /\ DOMAIN rec = TakerFields /\ rec.work = Task(t) /\ rec.at = "admitted"
                   /\ rec.seen = taker[t].seen /\ taker' = [taker EXCEPT ![t] = rec]
    BY <1>1, <1>4, ReplyStep
  <2>2. PlanLeft BY <1>4 DEF PlanLeft
  <2>3. PlanLimit = Unlimited \/ PlanLimit > 0
    <3>1. count_orders_current_month \in Nat
      <4>1. PICK S : received \in Seq(S) BY <1>1 DEF IntakeTypeOK
      <4> QED BY <4>1, CountsAre, CountsFinite
    <3>2. PlanLimit \in Nat \/ PlanLimit = Unlimited BY MonthsAssumption DEF Quotas
    <3> QED BY <3>1, <3>2, <1>4
  <2>4. Task(t).by \in {"portal", "desk"} /\ (Task(t).by = "portal" => QuotaLeft(Task(t).contract))
    <3>1. CASE Stands(t, "covered") BY <3>1 DEF TermsInv, MayRely, Stands
    <3>2. CASE Task(t).by = "desk" BY <3>2
    <3> QED BY <3>1, <3>2 DEF can_create_order
  <2>5. MayRely(t, rec.at) BY <2>2, <2>3, <2>4 DEF MayRely
  <2>6. rec.at # "amending" /\ tangled \subseteq tangled' BY <2>1, <1>2
  <2> QED BY <1>2, <2>1, <2>5, <2>6, TakerKeeps
<1> QED BY <1>3, <1>4 DEF can_create_order

\* Settling the dates keeps the invariant.
LEMMA SettleKeeps == ASSUME TermsInv, NEW t \in Takers, Settle(t) PROVE TermsInv'
<1>1. IntakeTypeOK BY DEF TermsInv
<1>2. Stands(t, "admitted") /\ UNCHANGED <<terms, received, today, excused, tangled>> BY DEF Settle
<1>3. CASE Reply(t, "refused")
  <2>1. PICK rec : /\ DOMAIN rec = TakerFields /\ rec.work = Task(t) /\ rec.at = "refused"
                   /\ rec.seen = taker[t].seen /\ taker' = [taker EXCEPT ![t] = rec]
    BY <1>1, <1>3, ReplyStep
  <2>2. MayRely(t, rec.at) BY <2>1 DEF MayRely
  <2>3. rec.at # "amending" /\ tangled \subseteq tangled' BY <2>1, <1>2
  <2> QED BY <1>2, <2>1, <2>2, <2>3, TakerKeeps
<1>4. CASE \E due : taker' = [taker EXCEPT ![t].at = "settled", ![t].due = due]
  <2>1. PICK due : taker' = [taker EXCEPT ![t].at = "settled", ![t].due = due] BY <1>4
  <2> DEFINE rec == [taker[t] EXCEPT !.at = "settled", !.due = due]
  <2>2. DOMAIN taker[t] = TakerFields BY <1>1 DEF IntakeTypeOK
  <2>3. DOMAIN rec = TakerFields /\ rec.work = taker[t].work /\ rec.at = "settled"
    BY <2>2 DEF TakerFields
  <2>4. taker' = [taker EXCEPT ![t] = rec]
    <3>1. taker = [u \in Takers |-> taker[u]] BY <1>1 DEF IntakeTypeOK
    <3> QED BY <2>1, <3>1
  <2> HIDE DEF rec
  <2>5. rec.work = Task(t) BY <2>3 DEF Task
  <2>6. MayRely(t, "admitted")
    <3>1. taker[t].at = "admitted" BY <1>2 DEF Stands
    <3> QED BY <3>1 DEF TermsInv
  <2>7. MayRely(t, rec.at) BY <2>3, <2>6 DEF MayRely
  <2>8. rec.at # "amending" /\ tangled \subseteq tangled' BY <2>3, <1>2
  <2> QED BY <1>2, <2>3, <2>4, <2>5, <2>7, <2>8, TakerKeeps
<1> QED BY <1>3, <1>4 DEF Settle

\* The check of an update keeps the invariant: it has compared what it has read.
LEMMA CheckUpdateKeeps == ASSUME TermsInv, NEW t \in Takers, CheckContractUpdate(t) PROVE TermsInv'
<1> DEFINE k == Task(t).contract
<1>1. IntakeTypeOK BY DEF TermsInv
<1>2. Task(t).by = "office" /\ UNCHANGED <<terms, received, today, excused>> BY DEF CheckContractUpdate
<1>3. CASE Reply(t, "refused") /\ tangled' = tangled
  <2>1. PICK rec : /\ DOMAIN rec = TakerFields /\ rec.work = Task(t) /\ rec.at = "refused"
                   /\ rec.seen = taker[t].seen /\ taker' = [taker EXCEPT ![t] = rec]
    BY <1>1, <1>3, ReplyStep
  <2>2. MayRely(t, rec.at) BY <2>1 DEF MayRely
  <2>3. rec.at # "amending" /\ tangled \subseteq tangled' BY <2>1, <1>3
  <2> QED BY <1>2, <2>1, <2>2, <2>3, TakerKeeps
<1>4. CASE /\ ~Backwards(Given(t, terms[k]))
           /\ taker' = [taker EXCEPT ![t].at = "amending", ![t].seen = terms[k]]
           /\ tangled' = IF \E u \in Takers \ {t} : Stands(u, "amending") /\ Task(u).contract = k
                         THEN tangled \union {k} ELSE tangled
  <2> DEFINE rec == [taker[t] EXCEPT !.at = "amending", !.seen = terms[k]]
  <2>2. DOMAIN taker[t] = TakerFields BY <1>1 DEF IntakeTypeOK
  <2>3. DOMAIN rec = TakerFields /\ rec.work = taker[t].work /\ rec.at = "amending" /\ rec.seen = terms[k]
    BY <2>2 DEF TakerFields
  <2>4. taker' = [taker EXCEPT ![t] = rec]
    <3>1. taker = [u \in Takers |-> taker[u]] BY <1>1 DEF IntakeTypeOK
    <3> QED BY <1>4, <3>1
  <2> HIDE DEF rec
  <2>5. rec.work = Task(t) BY <2>3 DEF Task
  <2>6. MayRely(t, rec.at) BY <2>3 DEF MayRely
  <2>7. k \in Covered BY <1>1, <1>2 DEF IntakeTypeOK, MayAsk
  <2>8. IsTerms(rec.seen) BY <2>3, <2>7, <1>1 DEF IntakeTypeOK
  <2>9. tangled \subseteq tangled' BY <1>4
  <2>10. k \in tangled' \/ \A u \in Takers \ {t} : ~ (Stands(u, "amending") /\ Task(u).contract = k)
    BY <1>4
  <2>11. ~Backwards(Given(t, rec.seen)) /\ terms[k] = rec.seen BY <2>3, <1>4
  <2> QED BY <1>2, <2>3, <2>4, <2>5, <2>6, <2>8, <2>9, <2>10, <2>11, TakerKeeps
<1> QED BY <1>2, <1>3, <1>4 DEF CheckContractUpdate

\* An order of today arrives.
LEMMA OrderArrives ==
  ASSUME IntakeTypeOK, NEW o, o.day = today, received' = Append(received, o), today' = today
  PROVE  /\ \E S : received' \in Seq(S)
         /\ \A i \in DOMAIN received' : received'[i].day \in Nat /\ received'[i].day <= today
         /\ count_orders_current_month \in Nat /\ count_orders_current_month' \in Nat
         /\ count_orders_current_month' <= count_orders_current_month + 1
         /\ \A k : /\ count_contract_orders_this_month(k) \in Nat
                   /\ count_contract_orders_this_month(k)' \in Nat
                   /\ count_contract_orders_this_month(k)' <= count_contract_orders_this_month(k) + 1
                   /\ o.contract # k =>
                        count_contract_orders_this_month(k)' = count_contract_orders_this_month(k)
<1>1. PICK S0 : received \in Seq(S0) BY DEF IntakeTypeOK
<1> DEFINE B == S0 \cup {o}
           r == received
           a == received'
<1>2. r \in Seq(B) /\ o \in B BY <1>1, SeqOfMore
<1>3. a = Append(r, o) OBVIOUS
<1>4. today \in Nat /\ \A i \in DOMAIN r : r[i].day \in Nat /\ r[i].day <= today BY DEF IntakeTypeOK
<1>5. /\ count_orders_current_month = Cardinality(InMonth(r, today))
      /\ \A k : count_contract_orders_this_month(k) = Cardinality(OfContract(r, today, k))
  BY CountsAre
<1>6. /\ count_orders_current_month' = Cardinality(InMonth(a, today))
      /\ \A k : count_contract_orders_this_month(k)' = Cardinality(OfContract(a, today, k))
  BY DEF count_orders_current_month, count_contract_orders_this_month, ThisMonth, InMonth, OfContract,
         MonthOf
<1> HIDE DEF B, r, a
<1>7. a \in Seq(B) BY <1>2, <1>3
<1>8. \A i \in DOMAIN a : a[i].day \in Nat /\ a[i].day <= today
  <2>1. \A i \in DOMAIN a : (i \in DOMAIN r /\ a[i] = r[i]) \/ a[i] = o
    BY <1>2, <1>3
  <2> QED BY <2>1, <1>4
<1>9. /\ Cardinality(InMonth(r, today)) \in Nat /\ Cardinality(InMonth(a, today)) \in Nat
      /\ Cardinality(InMonth(a, today)) <= Cardinality(InMonth(r, today)) + 1
  BY <1>2, <1>3, <1>7, CountsFinite, CountsAfter
<1>10. ASSUME NEW k
       PROVE  /\ Cardinality(OfContract(r, today, k)) \in Nat /\ Cardinality(OfContract(a, today, k)) \in Nat
              /\ Cardinality(OfContract(a, today, k)) <= Cardinality(OfContract(r, today, k)) + 1
              /\ o.contract # k => Cardinality(OfContract(a, today, k)) = Cardinality(OfContract(r, today, k))
  <2>1. Cardinality(OfContract(r, today, k)) \in Nat BY <1>2, CountsFinite
  <2>2. Cardinality(OfContract(a, today, k)) \in Nat BY <1>7, CountsFinite
  <2>3. /\ Cardinality(OfContract(Append(r, o), today, k)) <= Cardinality(OfContract(r, today, k)) + 1
        /\ o.contract # k =>
             Cardinality(OfContract(Append(r, o), today, k)) = Cardinality(OfContract(r, today, k))
    BY <1>2, CountsAfter
  <2> QED BY <2>1, <2>2, <2>3, <1>3
<1>11. /\ count_orders_current_month \in Nat /\ count_orders_current_month' \in Nat
       /\ count_orders_current_month' <= count_orders_current_month + 1
  BY <1>5, <1>6, <1>9
<1>12. ASSUME NEW k
       PROVE  /\ count_contract_orders_this_month(k) \in Nat
              /\ count_contract_orders_this_month(k)' \in Nat
              /\ count_contract_orders_this_month(k)' <= count_contract_orders_this_month(k) + 1
              /\ o.contract # k =>
                   count_contract_orders_this_month(k)' = count_contract_orders_this_month(k)
  BY <1>5, <1>6, <1>10
<1>13. (\E S : received' \in Seq(S)) /\ \A i \in DOMAIN received' : received'[i].day \in Nat /\ received'[i].day <= today
  BY <1>7, <1>8 DEF a
<1> QED BY <1>11, <1>12, <1>13

\* What the others have counted still holds when an order arrives, or they are excused.
LEMMA OrderKeeps ==
  ASSUME TermsInv, NEW o, o.day = today, received' = Append(received, o),
         UNCHANGED <<terms, today, tangled>>, excused \subseteq excused',
         taker' = [t \in Takers |-> taker'[t]],
         \A t \in Takers :
           /\ DOMAIN taker'[t] = TakerFields /\ Task(t)' = Task(t)
           /\ taker'[t].at \notin {"done", "refused"} => taker'[t] = taker[t],
         o.contract \in Covered \ excused' =>
           QuotaLeft(o.contract) /\ \A t \in Takers : CountedQuota(t)' => Task(t).contract # o.contract,
         Plan \notin excused' => PlanLeft /\ \A t \in Takers : ~CountedPlan(t)'
  PROVE  TermsInv'
<1>1. IntakeTypeOK /\ TermsExplained BY DEF TermsInv
<1>2. /\ \E S : received' \in Seq(S)
      /\ \A i \in DOMAIN received' : received'[i].day \in Nat /\ received'[i].day <= today
      /\ count_orders_current_month \in Nat /\ count_orders_current_month' \in Nat
      /\ count_orders_current_month' <= count_orders_current_month + 1
      /\ \A k : /\ count_contract_orders_this_month(k) \in Nat
                /\ count_contract_orders_this_month(k)' \in Nat
                /\ count_contract_orders_this_month(k)' <= count_contract_orders_this_month(k) + 1
                /\ o.contract # k =>
                     count_contract_orders_this_month(k)' = count_contract_orders_this_month(k)
  BY <1>1, OrderArrives
<1>3. PlanLimit = Unlimited \/ PlanLimit \in Nat BY MonthsAssumption DEF Quotas
<1>4. /\ terms' = [k \in Covered |-> terms'[k]] /\ DOMAIN terms = Covered
      /\ \A k \in Covered : IsTerms(terms[k]) /\ terms'[k] = terms[k]
  BY <1>1 DEF IntakeTypeOK
<1>5. IntakeTypeOK'
  <2>1. ASSUME NEW t \in Takers
        PROVE  /\ (DOMAIN taker[t])' = TakerFields /\ MayAsk(Task(t))'
               /\ Stands(t, "amending")' => (Task(t).by = "office" /\ IsTerms(taker[t].seen))'
    <3>1. MayAsk(Task(t))' BY <1>1 DEF IntakeTypeOK, MayAsk
    <3>2. ASSUME Stands(t, "amending")' PROVE (Task(t).by = "office" /\ IsTerms(taker[t].seen))'
      <4>1. taker'[t] = taker[t] BY <3>2 DEF Stands
      <4> QED BY <4>1, <3>2, <1>1 DEF IntakeTypeOK, Stands
    <3> QED BY <3>1, <3>2
  <2> QED BY <1>1, <1>2, <2>1 DEF IntakeTypeOK
<1>6. QuotaExplained'
  <2>1. ASSUME NEW k \in Covered, Bounded(k)' PROVE count_contract_orders_this_month(k)' <= terms[k].max
    <3>1. Bounded(k) /\ k \notin excused' BY <2>1, <1>4 DEF Bounded
    <3>2. terms[k].max \in Nat BY <3>1, <1>4 DEF Bounded, IsTerms, Quotas
    <3>3. CASE o.contract = k
      <4>1. QuotaLeft(k) BY <3>1, <3>3
      <4>2. count_contract_orders_this_month(k) < terms[k].max BY <4>1, <3>1 DEF QuotaLeft
      <4> QED BY <4>2, <1>2, <3>2
    <3>4. CASE o.contract # k
      <4>1. count_contract_orders_this_month(k) <= terms[k].max
        BY <3>1, <1>1, <1>4 DEF TermsExplained, QuotaExplained, Bounded
      <4> QED BY <4>1, <3>4, <1>2
    <3> QED BY <3>3, <3>4
  <2>2. PlanLimit = Unlimited \/ Plan \in excused' \/ count_orders_current_month' <= PlanLimit
    <3>1. SUFFICES ASSUME PlanLimit # Unlimited, Plan \notin excused' PROVE count_orders_current_month' <= PlanLimit
      OBVIOUS
    <3>2. count_orders_current_month < PlanLimit BY <3>1 DEF PlanLeft
    <3> QED BY <3>1, <3>2, <1>2, <1>3
  <2> QED BY <2>1, <2>2, <1>4 DEF QuotaExplained, Bounded
<1>7. TermsExplained' BY <1>1, <1>6 DEF TermsExplained
<1>8. ASSUME NEW t \in Takers PROVE MayRely(t, taker[t].at)'
  <2>1. CASE taker'[t].at \in {"done", "refused"} BY <2>1 DEF MayRely
  <2>2. CASE taker'[t] = taker[t]
    <3>1. MayRely(t, taker[t].at) BY DEF TermsInv
    <3>2. ASSUME taker[t].at \in {"covered", "admitted", "settled"}, Task(t).by = "portal"
          PROVE  QuotaLeft(Task(t).contract)'
      <4>0. PICK k : k = Task(t).contract OBVIOUS
      <4>1. k \in Covered BY <3>2, <4>0, <1>1 DEF IntakeTypeOK, MayAsk
      <4>2. CountedQuota(t)' BY <3>2, <2>2 DEF CountedQuota
      <4>3. QuotaLeft(k) BY <3>1, <3>2, <4>0 DEF MayRely
      <4>4. ASSUME Bounded(k)' PROVE count_contract_orders_this_month(k)' < terms'[k].max
        <5>1. Bounded(k) /\ k \notin excused' BY <4>4, <4>1, <1>4 DEF Bounded
        <5>2. o.contract # k BY <5>1, <4>0, <4>1, <4>2
        <5> QED BY <5>1, <5>2, <4>1, <4>3, <1>2, <1>4 DEF QuotaLeft
      <4>5. QuotaLeft(k)' BY <4>4 DEF QuotaLeft
      <4>6. Task(t).contract' = k BY <4>0
      <4> QED BY <4>5, <4>6 DEF QuotaLeft, Bounded
    <3>3. ASSUME taker[t].at \in {"admitted", "settled"} PROVE PlanLeft'
      <4>1. CountedPlan(t)' BY <3>3, <2>2 DEF CountedPlan
      <4>2. Plan \in excused' BY <4>1
      <4> QED BY <4>2 DEF PlanLeft
    <3> QED BY <2>2, <3>1, <3>2, <3>3 DEF MayRely
  <2> QED BY <2>1, <2>2
<1>9. ASSUME NEW t \in Takers PROVE ComparedWith(t)'
  <2>1. SUFFICES ASSUME Stands(t, "amending")' PROVE ComparedWith(t)' BY DEF ComparedWith
  <2>2. taker'[t] = taker[t] /\ Stands(t, "amending") BY <2>1 DEF Stands
  <2>3. ComparedWith(t) BY DEF TermsInv
  <2>4. Given(t, taker[t].seen)' = Given(t, taker[t].seen) BY <2>2 DEF Given
  <2>5. \A u \in Takers : Stands(u, "amending")' => Stands(u, "amending") BY DEF Stands
  <2> QED BY <2>2, <2>3, <2>4, <2>5 DEF ComparedWith, Backwards
<1> QED BY <1>5, <1>7, <1>8, <1>9 DEF TermsInv

\* An order that is committed keeps the invariant: it took the room it had, and the others
\* that had counted are excused.
LEMMA CommitOrderKeeps == ASSUME TermsInv, NEW t \in Takers, CommitOrder(t) PROVE TermsInv'
<1> DEFINE k == Task(t).contract
           o == [kind |-> Task(t).kind, contract |-> k, customer |-> Task(t).customer,
                 day |-> today, due |-> taker[t].due]
           rivals == Takers \ {t}
<1>1. IntakeTypeOK /\ MayRely(t, taker[t].at) BY DEF TermsInv
<1>2. /\ Stands(t, "settled") /\ received' = Append(received, o) /\ Reply(t, "done")
      /\ excused' = excused
          \union (IF \/ Task(t).by = "desk"
                     \/ \E u \in rivals : CountedQuota(u) /\ Task(u).contract = k THEN {k} \ {NoTerms} ELSE {})
          \union (IF \E u \in rivals : CountedPlan(u) THEN {Plan} ELSE {})
      /\ UNCHANGED <<policies, terms, today, tangled>>
  BY DEF CommitOrder
<1>3. PICK rec : /\ DOMAIN rec = TakerFields /\ rec.work = Task(t) /\ rec.at = "done"
                 /\ rec.seen = taker[t].seen /\ taker' = [taker EXCEPT ![t] = rec]
  BY <1>1, <1>2, ReplyStep
<1>4. /\ taker' = [u \in Takers |-> taker'[u]]
      /\ taker'[t] = rec /\ \A u \in Takers \ {t} : taker'[u] = taker[u]
      /\ \A u \in Takers : Task(u)' = Task(u) /\ DOMAIN taker'[u] = TakerFields
  BY <1>1, <1>3, TakerStep
<1>5. o.day = today /\ o.contract = k OBVIOUS
<1>6. /\ ~CountedQuota(t)' /\ ~CountedPlan(t)'
      /\ \A u \in rivals : (CountedQuota(u)' => CountedQuota(u)) /\ (CountedPlan(u)' => CountedPlan(u))
  BY <1>3, <1>4 DEF CountedQuota, CountedPlan
<1>7. /\ Task(t).by \in {"portal", "desk"} /\ (Task(t).by = "portal" => QuotaLeft(k))
      /\ PlanLeft
  BY <1>1, <1>2 DEF MayRely, Stands
<1>8. ASSUME k \in Covered \ excused'
      PROVE  QuotaLeft(k) /\ \A u \in Takers : CountedQuota(u)' => Task(u).contract # k
  <2>1. k \in {k} \ {NoTerms} BY <1>8, ContractsAssumption DEF Covered
  <2> HIDE DEF k, o
  <2>2. Task(t).by # "desk" /\ ~ \E u \in rivals : CountedQuota(u) /\ Task(u).contract = k
    BY <2>1, <1>2, <1>8
  <2> QED BY <2>2, <1>6, <1>7
<1>9. ASSUME Plan \notin excused' PROVE PlanLeft /\ \A u \in Takers : ~CountedPlan(u)'
  <2> HIDE DEF k, o
  <2>1. ~ \E u \in rivals : CountedPlan(u) BY <1>2, <1>9
  <2> QED BY <2>1, <1>6, <1>7
<1>10. excused \subseteq excused' BY <1>2
<1>11. \A u \in Takers :
         /\ DOMAIN taker'[u] = TakerFields /\ Task(u)' = Task(u)
         /\ taker'[u].at \notin {"done", "refused"} => taker'[u] = taker[u]
  BY <1>3, <1>4
<1>12. UNCHANGED <<terms, today, tangled>> /\ received' = Append(received, o) BY <1>2
<1> HIDE DEF o, k
<1>13. o.contract \in Covered \ excused' =>
         QuotaLeft(o.contract) /\ \A u \in Takers : CountedQuota(u)' => Task(u).contract # o.contract
  BY <1>5, <1>8
<1> QED BY <1>4, <1>5, <1>9, <1>10, <1>11, <1>12, <1>13, OrderKeeps

\* An order of a desktop keeps the invariant: the plan is excused.
LEMMA PushOrderKeeps == ASSUME TermsInv, PushOrder PROVE TermsInv'
<1> DEFINE o == [kind |-> "pushed", contract |-> NoTerms, customer |-> NoTerms, day |-> today, due |-> Never]
<1>1. /\ received' = Append(received, o) /\ excused' = excused \cup {Plan}
      /\ UNCHANGED <<terms, today, taker, tangled>>
  BY DEF PushOrder
<1>2. o.day = today /\ o.contract \notin Covered BY ContractsAssumption DEF Covered
<1>3. /\ taker' = [t \in Takers |-> taker'[t]]
      /\ \A t \in Takers : /\ DOMAIN taker'[t] = TakerFields /\ Task(t)' = Task(t)
                           /\ taker'[t] = taker[t]
  BY <1>1 DEF TermsInv, IntakeTypeOK, Task
<1>4. excused \subseteq excused' /\ Plan \in excused' BY <1>1
<1> HIDE DEF o
<1> QED BY <1>1, <1>2, <1>3, <1>4, OrderKeeps

\* The next day keeps the invariant: a new month has no order yet.
LEMMA TomorrowKeeps == ASSUME TermsInv, Tomorrow PROVE TermsInv'
<1>1. IntakeTypeOK /\ TermsExplained BY DEF TermsInv
<1>2. /\ today' = today + 1 /\ UNCHANGED <<terms, received, taker, tangled>>
      /\ excused' = IF MonthOf(today') = MonthOf(today) THEN excused ELSE {}
  BY DEF Tomorrow
<1>3. today \in Nat /\ today' \in Nat BY <1>1, <1>2 DEF IntakeTypeOK
<1>4. \A i \in DOMAIN received : received[i].day \in Nat /\ received[i].day <= today BY <1>1 DEF IntakeTypeOK
<1>5. IntakeTypeOK'
  <2>1. \A i \in DOMAIN received : received[i].day <= today' BY <1>2, <1>3, <1>4
  <2>2. \A t \in Takers : Task(t)' = Task(t) /\ Stands(t, "amending")' = Stands(t, "amending")
    BY <1>2 DEF Task, Stands
  <2>3. \A t \in Takers : MayAsk(Task(t))' BY <1>1, <2>2 DEF IntakeTypeOK, MayAsk
  <2> QED BY <1>1, <1>2, <1>3, <2>1, <2>2, <2>3 DEF IntakeTypeOK
<1>6. \A t \in Takers : ComparedWith(t)'
  <2> TAKE t \in Takers
  <2>1. ComparedWith(t) BY DEF TermsInv
  <2>2. Given(t, taker[t].seen)' = Given(t, taker[t].seen) BY <1>2 DEF Given, Task
  <2> QED BY <2>1, <2>2, <1>2 DEF ComparedWith, Stands, Task, Backwards
<1>7. ASSUME QuotaExplained', \A t \in Takers : MayRely(t, taker[t].at)' PROVE TermsInv'
  BY <1>1, <1>2, <1>5, <1>6, <1>7 DEF TermsInv, TermsExplained
<1>8. /\ count_orders_current_month' = Cardinality(InMonth(received, today'))
      /\ \A k : count_contract_orders_this_month(k)' = Cardinality(OfContract(received, today', k))
  BY <1>2 DEF count_orders_current_month, count_contract_orders_this_month, ThisMonth, InMonth, OfContract,
              MonthOf
<1>9. CASE MonthOf(today') = MonthOf(today)
  <2>1. InMonth(received, today') = InMonth(received, today) BY <1>9 DEF InMonth
  <2>2. /\ count_orders_current_month' = count_orders_current_month
        /\ \A k : count_contract_orders_this_month(k)' = count_contract_orders_this_month(k)
    BY <1>8, <2>1, CountsAre DEF OfContract
  <2>3. excused' = excused BY <1>2, <1>9
  <2>4. PlanLeft' = PlanLeft /\ (\A k : QuotaLeft(k)' = QuotaLeft(k)) /\ QuotaExplained' = QuotaExplained
    BY <2>2, <2>3, <1>2 DEF PlanLeft, QuotaLeft, Bounded, QuotaExplained
  <2>5. \A t \in Takers : Task(t)' = Task(t) /\ MayRely(t, taker[t].at) BY <1>2 DEF Task, TermsInv
  <2>6. \A t \in Takers : MayRely(t, taker[t].at)' BY <2>4, <2>5, <1>2 DEF MayRely
  <2>7. QuotaExplained' BY <2>4, <1>1 DEF TermsExplained
  <2> QED BY <2>6, <2>7, <1>7
<1>10. CASE MonthOf(today') # MonthOf(today)
  <2>1. \A i \in DOMAIN received : MonthOf(received[i].day) # MonthOf(today')
    BY <1>2, <1>3, <1>4, <1>10, MonthsPass
  <2>2. InMonth(received, today') = {} BY <2>1 DEF InMonth
  <2>3. \A k : OfContract(received, today', k) = {} BY <2>2 DEF OfContract
  <2>4. count_orders_current_month' = 0 /\ \A k : count_contract_orders_this_month(k)' = 0
    BY <1>8, <2>2, <2>3, FS_EmptySet
  <2>5. \A k \in Covered : terms[k].max = Unlimited \/ terms[k].max \in Nat
    BY <1>1 DEF IntakeTypeOK, IsTerms, Quotas
  <2>6. PlanLimit = Unlimited \/ PlanLimit \in Nat BY MonthsAssumption DEF Quotas
  <2>7. DOMAIN terms = Covered BY <1>1 DEF IntakeTypeOK
  <2>8. QuotaExplained'
    <3>1. \A k \in Covered : terms'[k].max \in {0, Unlimited} \/ 0 <= terms'[k].max BY <2>5, <1>2
    <3>2. PlanLimit = Unlimited \/ 0 <= PlanLimit BY <2>6
    <3> QED BY <2>4, <2>7, <3>1, <3>2, <1>2 DEF QuotaExplained
  <2>9. ASSUME NEW k \in Covered PROVE QuotaLeft(k)'
    <3>1. ASSUME Bounded(k)' PROVE 0 < terms'[k].max BY <3>1, <2>5, <1>2 DEF Bounded
    <3> QED BY <3>1, <2>4 DEF QuotaLeft
  <2>10. ASSUME NEW t \in Takers PROVE MayRely(t, taker[t].at)'
    <3>1. MayRely(t, taker[t].at) BY DEF TermsInv
    <3>2. Task(t)' = Task(t) BY <1>2 DEF Task
    <3>3. PICK k : k = Task(t).contract OBVIOUS
    <3>4. Task(t).by = "portal" => QuotaLeft(k)' BY <2>9, <3>3, <1>1 DEF IntakeTypeOK, MayAsk
    <3>5. Task(t)'.by = "portal" => QuotaLeft(Task(t).contract)'
      BY <3>2, <3>3, <3>4 DEF QuotaLeft, Bounded
    <3>6. (PlanLimit = Unlimited \/ PlanLimit > 0) => PlanLeft' BY <2>4, <2>6 DEF PlanLeft
    <3> QED BY <3>1, <3>2, <3>5, <3>6, <1>2 DEF MayRely
  <2> QED BY <2>8, <2>10, <1>7
<1> QED BY <1>9, <1>10

\* The commit of an update keeps the invariant: it writes what it has compared.
LEMMA CommitUpdateKeeps == ASSUME TermsInv, NEW t \in Takers, CommitContractUpdate(t) PROVE TermsInv'
<1> DEFINE k == Task(t).contract
           seen == taker[t].seen
           given == Given(t, seen)
           new == [c \in DOMAIN seen |-> IF given[c] # seen[c] THEN given[c] ELSE terms[k][c]]
<1>1. IntakeTypeOK /\ TermsExplained /\ ComparedWith(t) BY DEF TermsInv
<1>2. /\ Stands(t, "amending") /\ terms' = [terms EXCEPT ![k] = new] /\ Reply(t, "done")
      /\ excused' = IF new.max # terms[k].max THEN excused \union {k} ELSE excused
      /\ UNCHANGED <<policies, received, today, tangled>>
  BY DEF CommitContractUpdate
<1>3. k \in Covered /\ IsTerms(seen) /\ IsTerms(terms[k])
      /\ ("max" \in DOMAIN Task(t).data => Task(t).data.max \in Quotas)
  BY <1>1, <1>2 DEF IntakeTypeOK, MayAsk
<1>4. DOMAIN new = TermColumns /\ DOMAIN given = TermColumns BY <1>3 DEF IsTerms, Given
<1>5. "max" \in DOMAIN seen /\ seen.max \in Quotas /\ terms[k].max \in Quotas
  BY <1>3 DEF IsTerms, TermColumns
<1>6. given.max \in Quotas BY <1>3, <1>5 DEF Given
<1>7. new.max = (IF given.max # seen.max THEN given.max ELSE terms[k].max) BY <1>5
<1>8. IsTerms(new) BY <1>4, <1>5, <1>6, <1>7 DEF IsTerms
<1>9. k \notin tangled => ~Backwards(new)
  <2>1. SUFFICES ASSUME k \notin tangled PROVE ~Backwards(new) OBVIOUS
  <2>2. terms[k] = seen /\ ~Backwards(given) BY <2>1, <1>1, <1>2 DEF ComparedWith
  <2>3. given = [c \in DOMAIN seen |-> given[c]] BY DEF Given
  <2>4. \A c \in DOMAIN seen : (IF given[c] # seen[c] THEN given[c] ELSE terms[k][c]) = given[c] BY <2>2
  <2> HIDE DEF given, seen, k
  <2>5. new = [c \in DOMAIN seen |-> given[c]] BY <2>4
  <2> QED BY <2>2, <2>3, <2>5
<1>10. PICK rec : /\ DOMAIN rec = TakerFields /\ rec.work = Task(t) /\ rec.at = "done"
                  /\ rec.seen = taker[t].seen /\ taker' = [taker EXCEPT ![t] = rec]
  BY <1>1, <1>2, ReplyStep
<1>11. /\ taker' = [u \in Takers |-> taker'[u]]
       /\ taker'[t] = rec /\ \A u \in Takers \ {t} : taker'[u] = taker[u]
       /\ \A u \in Takers : Task(u)' = Task(u) /\ DOMAIN taker'[u] = TakerFields
  BY <1>1, <1>10, TakerStep
<1>12. k = Task(t).contract OBVIOUS
<1>13. \A u \in Takers \ {t} : Stands(u, "amending") /\ Task(u).contract = k => k \in tangled
  BY <1>2, <1>12 DEF TermsInv, ComparedWith
<1> HIDE DEF new, given, seen, k
<1>14. /\ terms' = [j \in Covered |-> terms'[j]] /\ DOMAIN terms = Covered
       /\ \A j \in Covered : terms'[j] = IF j = k THEN new ELSE terms[j]
  <2>1. terms = [j \in Covered |-> terms[j]] BY <1>1 DEF IntakeTypeOK
  <2> QED BY <2>1, <1>2, <1>3
<1>15. /\ count_orders_current_month' = count_orders_current_month
       /\ \A j : count_contract_orders_this_month(j)' = count_contract_orders_this_month(j)
  BY <1>2, CountsSame
<1>16. excused \subseteq excused' /\ (new.max = terms[k].max \/ k \in excused') BY <1>2
<1>17. IntakeTypeOK'
  <2>1. ASSUME NEW u \in Takers
        PROVE  /\ MayAsk(Task(u))'
               /\ Stands(u, "amending")' => (Task(u).by = "office" /\ IsTerms(taker[u].seen))'
    <3>1. MayAsk(Task(u))' BY <1>1, <1>11 DEF IntakeTypeOK, MayAsk
    <3>2. ASSUME Stands(u, "amending")' PROVE (Task(u).by = "office" /\ IsTerms(taker[u].seen))'
      <4>1. taker'[u] = taker[u] BY <3>2, <1>10, <1>11 DEF Stands
      <4> QED BY <4>1, <3>2, <1>1 DEF IntakeTypeOK, Stands, Task
    <3> QED BY <3>1, <3>2
  <2>2. \A j \in Covered : IsTerms(terms'[j]) BY <1>1, <1>8, <1>14 DEF IntakeTypeOK
  <2> QED BY <1>1, <1>2, <1>11, <1>14, <2>1, <2>2 DEF IntakeTypeOK
<1>18. ASSUME NEW j \in Covered, Bounded(j)' PROVE Bounded(j) /\ terms'[j].max = terms[j].max
  BY <1>14, <1>16, <1>18 DEF Bounded
<1>19. TermsExplained'
  <2>1. ASSUME NEW j \in Covered, Backwards(terms'[j]) PROVE j \in tangled'
    <3>1. CASE j = k BY <3>1, <2>1, <1>2, <1>9, <1>14
    <3>2. CASE j # k
      <4>1. Backwards(terms[j]) BY <3>2, <2>1, <1>14
      <4> QED BY <4>1, <1>1, <1>2, <1>14 DEF TermsExplained
    <3> QED BY <3>1, <3>2
  <2>2. ASSUME NEW j \in Covered, Bounded(j)' PROVE count_contract_orders_this_month(j)' <= terms'[j].max
    <3>1. Bounded(j) /\ terms'[j].max = terms[j].max BY <2>2, <1>18
    <3>2. count_contract_orders_this_month(j) <= terms[j].max
      BY <3>1, <1>1, <1>14 DEF TermsExplained, QuotaExplained, Bounded
    <3> QED BY <3>1, <3>2, <1>15
  <2>3. PlanLimit = Unlimited \/ Plan \in excused' \/ count_orders_current_month' <= PlanLimit
    BY <1>1, <1>15, <1>16 DEF TermsExplained, QuotaExplained
  <2>4. DOMAIN terms' = Covered BY <1>14
  <2>5. QuotaExplained' BY <2>2, <2>3, <2>4 DEF QuotaExplained, Bounded
  <2> QED BY <2>1, <2>4, <2>5 DEF TermsExplained, Backwards
<1>20. ASSUME NEW u \in Takers PROVE MayRely(u, taker[u].at)'
  <2>1. CASE u = t BY <2>1, <1>10, <1>11 DEF MayRely
  <2>2. CASE u # t
    <3>1. taker'[u] = taker[u] /\ MayRely(u, taker[u].at) BY <2>2, <1>11 DEF TermsInv
    <3>2. PICK j : j = Task(u).contract OBVIOUS
    <3>3. ASSUME Task(u).by = "portal", QuotaLeft(j) PROVE QuotaLeft(j)'
      <4>1. j \in Covered BY <3>2, <3>3, <1>1 DEF IntakeTypeOK, MayAsk
      <4> QED BY <4>1, <3>3, <1>15, <1>18 DEF QuotaLeft
    <3>4. Task(u).by = "portal" /\ QuotaLeft(Task(u).contract) => QuotaLeft(Task(u).contract)'
      <4>1. QuotaLeft(Task(u).contract) => QuotaLeft(j) BY <3>2
      <4>2. Task(u).contract' = j BY <3>2, <1>11
      <4>3. QuotaLeft(j)' => QuotaLeft(Task(u).contract)' BY <4>2 DEF QuotaLeft, Bounded
      <4> QED BY <3>3, <4>1, <4>3
    <3>5. PlanLeft => PlanLeft' BY <1>15, <1>16 DEF PlanLeft
    <3> QED BY <3>1, <3>4, <3>5, <1>11 DEF MayRely
  <2> QED BY <2>1, <2>2
<1>21. ASSUME NEW u \in Takers PROVE ComparedWith(u)'
  <2>1. SUFFICES ASSUME Stands(u, "amending")' PROVE ComparedWith(u)' BY DEF ComparedWith
  <2>2. u # t /\ taker'[u] = taker[u] /\ Stands(u, "amending") BY <2>1, <1>10, <1>11 DEF Stands
  <2>3. ComparedWith(u) BY DEF TermsInv
  <2>4. Given(u, taker[u].seen)' = Given(u, taker[u].seen) BY <2>2, <1>11 DEF Given
  <2>5. \A v \in Takers : Stands(v, "amending")' => Stands(v, "amending") BY <1>10, <1>11 DEF Stands
  <2>6. Task(u).contract \in Covered BY <2>2, <1>1 DEF IntakeTypeOK, MayAsk
  <2>7. CASE Task(u).contract = k
    <3>1. k \in tangled BY <2>2, <2>7, <1>13
    <3> QED BY <3>1, <2>2, <2>3, <2>4, <2>7, <1>2, <1>11 DEF ComparedWith, Backwards
  <2>8. CASE Task(u).contract # k
    <3>1. terms'[Task(u).contract] = terms[Task(u).contract] BY <2>6, <2>8, <1>14
    <3> QED BY <3>1, <2>2, <2>3, <2>4, <2>5, <1>2, <1>11 DEF ComparedWith, Backwards
  <2> QED BY <2>7, <2>8
<1> QED BY <1>17, <1>19, <1>20, <1>21 DEF TermsInv

\* The invariant holds at the start.
LEMMA TermsStart == IntakeInit => TermsInv
<1> SUFFICES ASSUME IntakeInit PROVE TermsInv OBVIOUS
<1>1. terms = Contracts /\ received = <<>> /\ today = 0 /\ excused = {} /\ tangled = {} BY DEF IntakeInit
<1>2. PICK w \in IntakeWork :
        taker = [t \in Takers |-> [work |-> w[t], at |-> "start", due |-> Never, seen |-> NoTerms]]
  BY DEF IntakeInit
<1>3. taker = [t \in Takers |-> taker[t]]
      /\ \A t \in Takers : Task(t) = w[t] /\ taker[t].at = "start" /\ DOMAIN taker[t] = TakerFields
  BY <1>2 DEF Task, TakerFields
<1>4. terms = [k \in Covered |-> terms[k]] /\ \A k \in Covered : IsTerms(terms[k]) /\ ~Backwards(terms[k])
  <2>1. Contracts = [k \in Covered |-> Contracts[k]]
    BY ContractsAssumption DEF Covered
  <2> QED BY <2>1, <1>1, ContractsAssumption DEF Covered, IsTerms
<1>5. received \in Seq({}) /\ DOMAIN received = {} BY <1>1
<1>6. \A t \in Takers : MayAsk(Task(t)) BY <1>3, IntakeWorkAssumption DEF MayAsk, Covered
<1>7. IntakeTypeOK BY <1>1, <1>3, <1>4, <1>5, <1>6 DEF IntakeTypeOK, Stands
<1>8. count_orders_current_month = 0 /\ \A k : count_contract_orders_this_month(k) = 0
  <2>1. InMonth(received, today) = {} /\ \A k : OfContract(received, today, k) = {}
    BY <1>5 DEF InMonth, OfContract
  <2> QED BY <2>1, CountsAre, FS_EmptySet
<1>9. QuotaExplained
  <2>1. \A k \in Covered : terms[k].max \in {0, Unlimited} \/ 0 <= terms[k].max
    BY <1>4 DEF IsTerms, Quotas
  <2>2. PlanLimit = Unlimited \/ 0 <= PlanLimit BY MonthsAssumption DEF Quotas
  <2>3. DOMAIN terms = Covered BY <1>4
  <2> QED BY <2>1, <2>2, <2>3, <1>8 DEF QuotaExplained
<1>10. TermsExplained BY <1>4, <1>9 DEF TermsExplained
<1>11. \A t \in Takers : MayRely(t, taker[t].at) /\ ComparedWith(t) BY <1>3 DEF MayRely, ComparedWith, Stands
<1> QED BY <1>7, <1>10, <1>11 DEF TermsInv

\* Every step keeps the invariant.
LEMMA TermsKeep == TermsInv /\ [IntakeNext]_intakeVars => TermsInv'
<1> SUFFICES ASSUME TermsInv, [IntakeNext]_intakeVars PROVE TermsInv' OBVIOUS
<1>1. CASE \E t \in Takers : create_sla_policy(t) \/ update_sla_policy(t) \/ delete_sla_policy(t)
  BY <1>1, NothingMoves DEF create_sla_policy, update_sla_policy, delete_sla_policy
<1>2. CASE UNCHANGED intakeVars BY <1>2, NothingMoves DEF intakeVars
<1> QED
  BY <1>1, <1>2, CheckContractKeeps, CanCreateKeeps, SettleKeeps, CommitOrderKeeps, PushOrderKeeps,
     TomorrowKeeps, CheckUpdateKeeps, CommitUpdateKeeps
  DEF IntakeNext

\* A month holds more orders than the quota or the plan's limit only for the reasons named,
\* and a contract is valid backwards only when two updates of it overlapped
\* (order_service.py, contract_service.py, permission_service.py).
THEOREM QuotasHold == IntakeSpec => []TermsExplained
<1>1. TermsInv => TermsExplained BY DEF TermsInv
<1> QED BY <1>1, TermsStart, TermsKeep, PTL DEF IntakeSpec

------------------------------------------------------------------------------
(* SLA policies *)

\* The loop of find_matching_sla_policy, over the places in D of the candidates s.
Unfound == [policy |-> Never, score |-> -1]
Better(kind, priority, best, p) ==
  IF Applies(p, kind, priority) /\ Score(p, kind, priority) > best.score
  THEN [policy |-> p, score |-> Score(p, kind, priority)]
  ELSE best
Highest(T) == CHOOSE x \in T : \A y \in T : x >= y
Loops(g, kind, priority, s, D) ==
  g = [T \in SUBSET D |-> IF T = {} THEN Unfound
                          ELSE Better(kind, priority, g[T \ {Highest(T)}], s[Highest(T)])]
LoopAt(g, kind, priority, s, T) ==
  IF T = {} THEN Unfound ELSE Better(kind, priority, g[T \ {Highest(T)}], s[Highest(T)])

\* What the function finds is the recursion, at all the places.
LEMMA FindIs ==
  ASSUME NEW kind, NEW priority
  PROVE  find_matching_sla_policy(kind, priority) =
           (CHOOSE g : Loops(g, kind, priority, Candidates, DOMAIN Candidates))[DOMAIN Candidates].policy
BY DEF find_matching_sla_policy, FoldLeft, MapThenFoldSet, Max, Loops, Better, Unfound, Highest

\* The recursion at one set of places, a step of it unfolded.
LEMMA LoopsAt ==
  ASSUME NEW g, NEW kind, NEW priority, NEW s, NEW D, Loops(g, kind, priority, s, D), NEW T \in SUBSET D
  PROVE  g[T] = LoopAt(g, kind, priority, s, T)
<1>1. g = [U \in SUBSET D |-> LoopAt(g, kind, priority, s, U)] BY DEF Loops, LoopAt
<1> QED BY <1>1

\* The place the recursion takes first is the highest one.
LEMMA HighestIn ==
  ASSUME NEW n \in Nat, NEW T \in SUBSET (1..n), T # {}
  PROVE  Highest(T) \in T /\ \A y \in T : y <= Highest(T)
<1> DEFINE U == {n - i : i \in T}
<1>1. U \subseteq Nat /\ U # {} OBVIOUS
<1>2. PICK m \in U : \A u \in U : m <= u
  <2> HIDE DEF U
  <2> QED BY <1>1, NatMin
<1>3. PICK x \in T : m = n - x OBVIOUS
<1>4. \A y \in T : n - x <= n - y BY <1>2, <1>3
<1>5. \A y \in T : x >= y BY <1>4
<1>6. \E x_ \in T : \A y \in T : x_ >= y BY <1>5
<1>7. Highest(T) \in T /\ \A y \in T : Highest(T) >= y BY <1>6 DEF Highest
<1> QED BY <1>7

\* Two functions that satisfy the recursion are equal at every set of places.
LEMMA LoopsUnique ==
  ASSUME NEW n \in Nat, NEW kind, NEW priority, NEW s, NEW g, NEW h,
         Loops(g, kind, priority, s, 1..n), Loops(h, kind, priority, s, 1..n)
  PROVE  \A T \in SUBSET (1..n) : g[T] = h[T]
<1> DEFINE D == 1..n
           Bad == {T \in SUBSET D : g[T] # h[T]}
<1>0. IsFiniteSet(D) BY FS_Interval
<1>1. SUFFICES ASSUME Bad # {} PROVE FALSE OBVIOUS
<1>2. \E m \in Bad : \A u \in Bad : u \subseteq m => u = m
  <2>1. Bad \subseteq SUBSET D OBVIOUS
  <2> HIDE DEF Bad, D
  <2> QED BY <1>0, <1>1, <2>1, FinMin
<1>3. PICK m \in Bad : \A u \in Bad : u \subseteq m => u = m BY <1>2
<1>4. m \in SUBSET D /\ g[m] # h[m] OBVIOUS
<1>5. g[m] = LoopAt(g, kind, priority, s, m) /\ h[m] = LoopAt(h, kind, priority, s, m)
  BY <1>4, LoopsAt
<1>6. m # {} BY <1>4, <1>5 DEF LoopAt
<1>7. Highest(m) \in m BY <1>4, <1>6, HighestIn
<1>8. m \ {Highest(m)} \in SUBSET D /\ m \ {Highest(m)} \notin Bad BY <1>3, <1>4, <1>7
<1>9. g[m \ {Highest(m)}] = h[m \ {Highest(m)}] BY <1>8
<1> QED BY <1>4, <1>5, <1>6, <1>9 DEF LoopAt

---------------------------------------------------------------------------
(* What the loop finds, without the loop *)

\* Without the loop: the candidates that apply, the best of them, and the earliest of the
\* best.
Fit(kind, priority, s, T) == {i \in T : Applies(s[i], kind, priority)}
Best(kind, priority, s, T) ==
  {i \in Fit(kind, priority, s, T) :
     \A j \in Fit(kind, priority, s, T) : Score(s[j], kind, priority) <= Score(s[i], kind, priority)}
Lowest(B) == CHOOSE i \in B : \A j \in B : i <= j
Found(kind, priority, s, T) ==
  IF Fit(kind, priority, s, T) = {} THEN Unfound
  ELSE LET i == Lowest(Best(kind, priority, s, T))
       IN [policy |-> s[i], score |-> Score(s[i], kind, priority)]

\* A score is 0, 1, 2 or 3.
LEMMA Scores == \A p, kind, priority : Score(p, kind, priority) \in 0..3
BY DEF Score

\* The lowest place is one of the places.
LEMMA LowestIs ==
  ASSUME NEW B, B \subseteq Nat, B # {}
  PROVE  Lowest(B) \in B /\ \A j \in B : Lowest(B) <= j
BY NatMin DEF Lowest

\* When a candidate applies, one of the best is the earliest.
LEMMA BestIs ==
  ASSUME NEW kind, NEW priority, NEW s, NEW T, T \subseteq Nat, Fit(kind, priority, s, T) # {}
  PROVE  /\ Lowest(Best(kind, priority, s, T)) \in Best(kind, priority, s, T)
         /\ \A j \in Best(kind, priority, s, T) : Lowest(Best(kind, priority, s, T)) <= j
<1> DEFINE F == Fit(kind, priority, s, T)
           U == {3 - Score(s[i], kind, priority) : i \in F}
<1>1. U \subseteq Nat /\ U # {}
  <2>1. \A i \in F : Score(s[i], kind, priority) \in 0..3 BY Scores
  <2> HIDE DEF F
  <2>2. \A x \in 0..3 : 3 - x \in Nat OBVIOUS
  <2> QED BY <2>1, <2>2 DEF F
<1>2. PICK m \in U : \A u \in U : m <= u
  <2> HIDE DEF U
  <2> QED BY <1>1, NatMin
<1>3. PICK i \in F : m = 3 - Score(s[i], kind, priority) OBVIOUS
<1>4. \A j \in F : 3 - Score(s[i], kind, priority) <= 3 - Score(s[j], kind, priority) BY <1>2, <1>3
<1>5. \A j \in F : Score(s[j], kind, priority) <= Score(s[i], kind, priority)
  <2> TAKE j \in F
  <2>1. Score(s[j], kind, priority) \in 0..3 /\ Score(s[i], kind, priority) \in 0..3 BY Scores
  <2>2. 3 - Score(s[i], kind, priority) <= 3 - Score(s[j], kind, priority) BY <1>4
  <2> HIDE DEF F
  <2> QED BY <2>1, <2>2
<1>6. i \in Best(kind, priority, s, T) BY <1>5 DEF Best
<1>7. Best(kind, priority, s, T) \subseteq Nat BY DEF Best, Fit
<1> QED BY <1>6, <1>7, LowestIs

\* One more candidate, after all the others, is found only if it is better.
LEMMA FoundStep ==
  ASSUME NEW n \in Nat, NEW kind, NEW priority, NEW s, NEW T \in SUBSET (1..n), T # {}
  PROVE  Found(kind, priority, s, T) =
           Better(kind, priority, Found(kind, priority, s, T \ {Highest(T)}), s[Highest(T)])
<1> DEFINE x == Highest(T)
           r == T \ {x}
           F == Fit(kind, priority, s, T)
           G == Fit(kind, priority, s, r)
           B == Best(kind, priority, s, T)
           C == Best(kind, priority, s, r)
           sc(i) == Score(s[i], kind, priority)
<1>1. x \in T /\ \A y \in T : y <= x BY HighestIn
<1>2. \A i : sc(i) \in 0..3 BY Scores
<1>3. T \subseteq Nat /\ r \subseteq Nat
  <2>1. \A i \in 1..n : i \in Nat OBVIOUS
  <2>2. \A i \in T : i \in 1..n OBVIOUS
  <2> QED BY <2>1, <2>2
<1>4. B = {i \in F : \A j \in F : sc(j) <= sc(i)} /\ C = {i \in G : \A j \in G : sc(j) <= sc(i)} BY DEF Best
<1>5. Found(kind, priority, s, T) = IF F = {} THEN Unfound ELSE [policy |-> s[Lowest(B)], score |-> sc(Lowest(B))]
  BY DEF Found
<1>6. Found(kind, priority, s, r) = IF G = {} THEN Unfound ELSE [policy |-> s[Lowest(C)], score |-> sc(Lowest(C))]
  BY DEF Found
<1>7. F # {} => Lowest(B) \in B /\ \A j \in B : Lowest(B) <= j BY <1>3, BestIs
<1>8. G # {} => Lowest(C) \in C /\ \A j \in C : Lowest(C) <= j BY <1>3, BestIs
<1>9. G \subseteq r /\ x \notin G BY DEF Fit
<1>10. CASE ~Applies(s[x], kind, priority)
  <2>1. F = G BY <1>10 DEF Fit
  <2>2. B = C BY <2>1, <1>4
  <2>3. Better(kind, priority, Found(kind, priority, s, r), s[x]) = Found(kind, priority, s, r)
    BY <1>10 DEF Better
  <2> HIDE DEF F, G, B, C, r, x, sc
  <2> QED BY <2>1, <2>2, <2>3, <1>5, <1>6 DEF r, x
<1>11. CASE Applies(s[x], kind, priority)
  <2>1. F = G \cup {x} BY <1>1, <1>11 DEF Fit
  <2>2. Better(kind, priority, Found(kind, priority, s, r), s[x]) =
          IF sc(x) > Found(kind, priority, s, r).score THEN [policy |-> s[x], score |-> sc(x)]
          ELSE Found(kind, priority, s, r)
    BY <1>11 DEF Better
  <2>3. \A i \in G : i < x
    <3>1. \A i \in G : i \in T /\ i # x BY <1>9
    <3>2. x \in Nat BY <1>1, <1>3
    <3> QED BY <3>1, <3>2, <1>1, <1>3
  <2> HIDE DEF F, G, B, C, r, x, sc
  <2>4. CASE G = {}
    <3>1. Found(kind, priority, s, r).score = -1 BY <2>4, <1>6 DEF Unfound
    <3>2. sc(x) > -1 BY <1>2
    <3>3. Lowest(B) = x BY <2>1, <2>4, <1>4, <1>7
    <3> QED BY <3>1, <3>2, <3>3, <2>1, <2>2, <1>5 DEF r, x
  <2>5. CASE G # {} /\ sc(x) > sc(Lowest(C))
    <3>1. Lowest(C) \in G /\ \A j \in G : sc(j) <= sc(Lowest(C)) BY <2>5, <1>4, <1>8
    <3>2. B = {x}
      <4>1. \A j \in G : sc(j) < sc(x) BY <3>1, <2>5, <1>2
      <4>2. sc(x) <= sc(x) BY <1>2
      <4>3. x \in B BY <4>1, <4>2, <2>1, <1>2, <1>4
      <4>4. \A i \in G : i \notin B
        <5> TAKE i \in G
        <5>1. ~ (sc(x) <= sc(i)) BY <4>1, <1>2
        <5> QED BY <5>1, <2>1, <1>4
      <4> QED BY <4>3, <4>4, <2>1, <1>4
    <3>3. Lowest(B) = x BY <3>2, <2>1, <1>7
    <3>4. Found(kind, priority, s, r).score = sc(Lowest(C)) BY <2>5, <1>6
    <3> QED BY <3>3, <3>4, <2>1, <2>2, <2>5, <1>5 DEF r, x
  <2>6. CASE G # {} /\ ~ (sc(x) > sc(Lowest(C)))
    <3> DEFINE c == Lowest(C)
    <3>1. c \in G /\ c \in C /\ (\A j \in G : sc(j) <= sc(c)) /\ \A j \in C : c <= j BY <2>6, <1>4, <1>8
    <3>2. sc(x) <= sc(c) BY <2>6, <1>2
    <3> HIDE DEF c
    <3>3. c \in B BY <3>1, <3>2, <2>1, <1>4
    <3>4. \A j \in B : j \in C \/ j = x BY <2>1, <1>4
    <3>5. \A j \in B : c <= j
      <4>1. c < x BY <3>1, <2>3
      <4>2. c \in Nat /\ x \in Nat BY <3>1, <1>1, <1>3, <1>9
      <4>3. c <= x BY <4>1, <4>2
      <4> QED BY <4>3, <3>1, <3>4
    <3>6. Lowest(B) \in B /\ Lowest(B) <= c BY <3>3, <2>1, <1>7
    <3>7. c \in Nat /\ Lowest(B) \in Nat
      <4>1. \A i \in G : i \in Nat BY <1>3, <1>9
      <4>2. \A i \in B : i \in G \/ i = x BY <2>1, <1>4
      <4>3. x \in Nat BY <1>1, <1>3
      <4> QED BY <4>1, <4>2, <4>3, <3>1, <3>6
    <3>8. Lowest(B) = c BY <3>5, <3>6, <3>7
    <3>9. Found(kind, priority, s, r) = [policy |-> s[c], score |-> sc(c)] BY <2>6, <1>6 DEF c
    <3>10. Better(kind, priority, Found(kind, priority, s, r), s[x]) = Found(kind, priority, s, r)
      BY <3>9, <2>2, <2>6 DEF c
    <3> QED BY <3>8, <3>9, <3>10, <2>1, <1>5 DEF r, x
  <2> QED BY <2>4, <2>5, <2>6
<1> QED BY <1>10, <1>11

\* The loop finds the earliest of the best.
LEMMA LoopFinds ==
  ASSUME NEW n \in Nat, NEW kind, NEW priority, NEW s
  PROVE  (CHOOSE g : Loops(g, kind, priority, s, 1..n))[1..n] = Found(kind, priority, s, 1..n)
<1> DEFINE D == 1..n
           e(T) == Found(kind, priority, s, T)
           h == [T \in SUBSET D |-> e(T)]
           c == CHOOSE g : Loops(g, kind, priority, s, D)
<1>1. \A T \in SUBSET D : e(T) = LoopAt(h, kind, priority, s, T)
  <2>0. TAKE T \in SUBSET D
  <2>1. CASE T = {}
    <3>1. Fit(kind, priority, s, T) = {} BY <2>1 DEF Fit
    <3> QED BY <3>1, <2>1 DEF Found, LoopAt
  <2>2. CASE T # {}
    <3>1. T \ {Highest(T)} \in SUBSET D BY <2>0
    <3>2. h[T \ {Highest(T)}] = Found(kind, priority, s, T \ {Highest(T)}) BY <3>1
    <3>3. e(T) = Better(kind, priority, Found(kind, priority, s, T \ {Highest(T)}), s[Highest(T)])
      <4>1. T \in SUBSET (1..n) /\ T # {} BY <2>2
      <4> HIDE DEF c, h, D
      <4>2. Found(kind, priority, s, T) =
              Better(kind, priority, Found(kind, priority, s, T \ {Highest(T)}), s[Highest(T)])
        BY <4>1, FoundStep
      <4> QED BY <4>2
    <3>4. \A g : LoopAt(g, kind, priority, s, T) = Better(kind, priority, g[T \ {Highest(T)}], s[Highest(T)])
      BY <2>2, Zenon DEF LoopAt
    <3>5. LoopAt(h, kind, priority, s, T) =
            Better(kind, priority, Found(kind, priority, s, T \ {Highest(T)}), s[Highest(T)])
      <4> HIDE DEF h
      <4> QED BY <3>2, <3>4, Zenon
    <3> HIDE DEF h
    <3> QED BY <3>3, <3>5, Zenon
  <2> QED BY <2>1, <2>2
<1>2. h = [T \in SUBSET D |-> LoopAt(h, kind, priority, s, T)]
  <2> DEFINE l(T) == LoopAt(h, kind, priority, s, T)
  <2>1. \A T \in SUBSET D : e(T) = l(T) BY <1>1
  <2> HIDE DEF e, l, D
  <2>2. h = [T \in SUBSET D |-> l(T)] BY <2>1
  <2> QED BY <2>2 DEF l
<1>3. Loops(h, kind, priority, s, D) BY <1>2 DEF Loops, LoopAt
<1>4. Loops(c, kind, priority, s, D)
  <2>1. \E g : Loops(g, kind, priority, s, D)
    <3> HIDE DEF h
    <3> QED BY <1>3
  <2> QED BY <2>1
<1>5. c[D] = h[D]
  <2> HIDE DEF c, h
  <2> QED BY <1>3, <1>4, LoopsUnique
<1>6. h[D] = e(D) OBVIOUS
<1> QED BY <1>5, <1>6

\* So does the function, over the policies in reverse.
LEMMA FindIsFound ==
  ASSUME NEW kind, NEW priority, \E S : policies \in Seq(S)
  PROVE  /\ Len(policies) \in Nat /\ DOMAIN policies = 1..Len(policies)
         /\ find_matching_sla_policy(kind, priority) =
              Found(kind, priority, Candidates, 1..Len(policies)).policy
         /\ \A i \in 1..Len(policies) : Candidates[i] = policies[(Len(policies) - i) + 1]
<1>1. Len(policies) \in Nat /\ DOMAIN policies = 1..Len(policies)
  <2>1. PICK S : policies \in Seq(S) OBVIOUS
  <2> QED BY <2>1, LenProperties
<1>2. Candidates = [i \in 1..Len(policies) |-> policies[(Len(policies) - i) + 1]] BY DEF Candidates, Reverse
<1>3. DOMAIN Candidates = 1..Len(policies) BY <1>2
<1>4. find_matching_sla_policy(kind, priority) =
        (CHOOSE g : Loops(g, kind, priority, Candidates, 1..Len(policies)))[1..Len(policies)].policy
  BY <1>3, FindIs
<1>5. (CHOOSE g : Loops(g, kind, priority, Candidates, 1..Len(policies)))[1..Len(policies)] =
        Found(kind, priority, Candidates, 1..Len(policies)) BY <1>1, LoopFinds
<1> QED BY <1>1, <1>2, <1>4, <1>5

\* The level of the precedence a policy that applies is at.
Level(kind, priority, p) == 4 - Score(p, kind, priority)

\* A level of the precedence is a score among the policies that apply.
LEMMA SaysIs ==
  ASSUME NEW kind, NEW priority, kind # Unset, priority # Unset, NEW p, NEW n \in 1..4
  PROVE  Says(p, Precedence(kind, priority)[n]) <=>
           Applies(p, kind, priority) /\ Level(kind, priority, p) = n
<1>1. Precedence(kind, priority)[1] = <<kind, priority>> /\ Precedence(kind, priority)[2] = <<kind, Unset>>
      /\ Precedence(kind, priority)[3] = <<Unset, priority>> /\ Precedence(kind, priority)[4] = <<Unset, Unset>>
  BY DEF Precedence
<1>2. \A x, y : Says(p, <<x, y>>) <=> p.active /\ p.kind = x /\ p.priority = y BY DEF Says
<1>3. Applies(p, kind, priority) <=>
        p.active /\ (p.kind = Unset \/ p.kind = kind) /\ (p.priority = Unset \/ p.priority = priority)
  BY DEF Applies
<1>4. n = 1 \/ n = 2 \/ n = 3 \/ n = 4 OBVIOUS
<1>5. /\ p.kind = kind /\ p.priority = priority => Level(kind, priority, p) = 1
      /\ p.kind = kind /\ p.priority # priority => Level(kind, priority, p) = 2
      /\ p.kind # kind /\ p.priority = priority => Level(kind, priority, p) = 3
      /\ p.kind # kind /\ p.priority # priority => Level(kind, priority, p) = 4
  BY DEF Level, Score
<1>6. CASE n = 1 BY <1>6, <1>1, <1>2, <1>3, <1>5
<1>7. CASE n = 2 BY <1>7, <1>1, <1>2, <1>3, <1>5
<1>8. CASE n = 3 BY <1>8, <1>1, <1>2, <1>3, <1>5
<1>9. CASE n = 4 BY <1>9, <1>1, <1>2, <1>3, <1>5
<1> QED BY <1>4, <1>6, <1>7, <1>8, <1>9

\* A place counted from the other end.
LEMMA Mirrored ==
  ASSUME NEW n \in Nat, NEW i \in 1..n
  PROVE  (n - i) + 1 \in 1..n /\ (n - ((n - i) + 1)) + 1 = i
OBVIOUS

\* The function finds the newest policy of the first level that has one.
LEMMA MostSpecific ==
  ASSUME UnsetAssumption, \E S : policies \in Seq(S)
  PROVE  MatchIsMostSpecific
<1> DEFINE n == Len(policies)
           level(kind, priority, m) == {i \in DOMAIN policies : Says(policies[i], Precedence(kind, priority)[m])}
           find(kind, priority) == find_matching_sla_policy(kind, priority)
           Met(kind, priority) ==
             IF \A m \in 1..4 : level(kind, priority, m) = {}
             THEN find(kind, priority) = Never
             ELSE \E m \in 1..4 :
                    /\ \A l \in 1..(m - 1) : level(kind, priority, l) = {}
                    /\ \E i \in level(kind, priority, m) :
                         find(kind, priority) = policies[i] /\ \A j \in level(kind, priority, m) : j <= i
<1>1. SUFFICES ASSUME NEW kind \in OrderKinds, NEW priority \in Priorities PROVE Met(kind, priority)
  BY DEF MatchIsMostSpecific
<1> DEFINE s == Candidates
           D == 1..n
           F == Fit(kind, priority, s, D)
           B == Best(kind, priority, s, D)
           i0 == Lowest(B)
           at(i) == (n - i) + 1
           sc(p) == Score(p, kind, priority)
           lv(p) == Level(kind, priority, p)
           L(m) == level(kind, priority, m)
<1>2. n \in Nat /\ DOMAIN policies = D /\ \A i \in D : s[i] = policies[at(i)] BY FindIsFound
<1>3. find(kind, priority) = Found(kind, priority, s, D).policy BY FindIsFound
<1>4. kind # Unset /\ priority # Unset BY UnsetAssumption DEF UnsetAssumption
<1>5. \A m \in 1..4 : L(m) = {i \in D : Applies(policies[i], kind, priority) /\ lv(policies[i]) = m}
  <2> TAKE m \in 1..4
  <2>1. \A p : Says(p, Precedence(kind, priority)[m]) <=> Applies(p, kind, priority) /\ lv(p) = m
    <3> TAKE p
    <3> QED BY <1>4, SaysIs
  <2>2. L(m) = {i \in D : Says(policies[i], Precedence(kind, priority)[m])} BY <1>2
  <2> HIDE DEF L, lv, D
  <2> QED BY <2>1, <2>2
<1>6. \A p : sc(p) \in 0..3 /\ lv(p) = 4 - sc(p) BY Scores DEF Level
<1>7. \A i \in D : at(i) \in D /\ at(at(i)) = i
  <2>1. n \in Nat BY <1>2
  <2> HIDE DEF n
  <2> QED BY <2>1, Mirrored
<1>8. F = {i \in D : Applies(policies[at(i)], kind, priority)} BY <1>2 DEF Fit
<1>9. CASE F = {}
  <2>1. \A m \in 1..4 : L(m) = {}
    <3>1. \A i \in D : ~ Applies(policies[i], kind, priority)
      <4> TAKE i \in D
      <4>1. at(i) \in D /\ at(at(i)) = i /\ at(i) \notin F BY <1>7, <1>9
      <4> HIDE DEF at, F, D
      <4> QED BY <4>1, <1>8
    <3> HIDE DEF L, D
    <3> QED BY <3>1, <1>5
  <2>2. Found(kind, priority, s, D).policy = Never BY <1>9 DEF Found, Unfound
  <2> QED BY <2>1, <2>2, <1>3
<1>10. CASE F # {}
  <2>1. D \subseteq Nat BY <1>2
  <2>2. i0 \in B /\ \A j \in B : i0 <= j BY <2>1, <1>10, BestIs
  <2>3. B = {i \in F : \A j \in F : sc(s[j]) <= sc(s[i])} BY DEF Best
  <2>4. Found(kind, priority, s, D).policy = s[i0] BY <1>10 DEF Found
  <2> DEFINE p == policies[at(i0)]
             m == lv(p)
  <2> HIDE DEF F, B, i0, L, D, s, lv, sc
  <2>5. i0 \in F /\ i0 \in D /\ s[i0] = p BY <2>2, <2>3, <1>8, <1>2
  <2>6. find(kind, priority) = p BY <2>4, <2>5, <1>3
  <2>7. m \in 1..4 /\ at(i0) \in D
    <3>1. at(i0) \in D
      <4> HIDE DEF at
      <4> QED BY <1>7, <2>5
    <3>2. m = 4 - sc(p) /\ sc(p) \in 0..3
      <4> HIDE DEF p
      <4> QED BY <1>6
    <3> HIDE DEF m, p, at
    <3> QED BY <3>1, <3>2
  <2>8. at(i0) \in L(m)
    <3>1. Applies(p, kind, priority) BY <2>5, <1>8
    <3> HIDE DEF at
    <3> QED BY <3>1, <2>7, <1>5
  <2>9. ASSUME NEW l \in 1..4, NEW j \in L(l)
        PROVE  at(j) \in F /\ s[at(j)] = policies[j] /\ sc(policies[j]) = 4 - l /\ sc(policies[j]) <= sc(p)
               /\ j \in D
    <3>1. j \in D /\ Applies(policies[j], kind, priority) /\ lv(policies[j]) = l BY <1>5
    <3>2. at(j) \in D /\ at(at(j)) = j BY <3>1, <1>7
    <3>3. at(j) \in F /\ s[at(j)] = policies[j]
      <4> HIDE DEF at
      <4> QED BY <3>1, <3>2, <1>8, <1>2
    <3>4. sc(policies[j]) = 4 - l
      <4>1. lv(policies[j]) = l /\ sc(policies[j]) \in 0..3 /\ lv(policies[j]) = 4 - sc(policies[j]) BY <3>1, <1>6
      <4> QED BY <4>1
    <3>5. sc(policies[j]) <= sc(p)
      <4> HIDE DEF at, p
      <4> QED BY <3>3, <2>2, <2>3, <2>5
    <3> HIDE DEF at, p
    <3> QED BY <3>1, <3>3, <3>4, <3>5
  <2>10. sc(p) = 4 - m /\ sc(p) \in 0..3 BY <1>6
  <2> HIDE DEF p, m
  <2>11. \A l \in 1..(m - 1) : L(l) = {}
    <3> SUFFICES ASSUME NEW l \in 1..(m - 1), NEW j \in L(l) PROVE FALSE OBVIOUS
    <3>1. l \in 1..4 /\ l < m BY <2>7
    <3>2. sc(policies[j]) = 4 - l /\ sc(policies[j]) <= sc(p) BY <3>1, <2>9
    <3> QED BY <3>1, <3>2, <2>10, <2>7
  <2>12. \A j \in L(m) : j <= at(i0)
    <3> TAKE j \in L(m)
    <3>1. at(j) \in F /\ s[at(j)] = policies[j] /\ sc(policies[j]) = 4 - m /\ j \in D BY <2>9, <2>7
    <3>2. sc(s[at(j)]) = sc(s[i0]) BY <3>1, <2>10, <2>5
    <3>3. at(j) \in B
      <4> HIDE DEF at
      <4> QED BY <3>1, <3>2, <2>2, <2>3
    <3>4. i0 <= at(j) BY <3>3, <2>2
    <3>5. n \in Nat /\ j \in Nat /\ i0 \in Nat BY <1>2, <2>1, <2>5, <3>1
    <3> HIDE DEF n
    <3> QED BY <3>4, <3>5
  <2>13. \A l \in 1..4 : L(l) = level(kind, priority, l) BY DEF L
  <2>14. \A l \in 1..(m - 1) : level(kind, priority, l) = {} BY <2>11 DEF L
  <2>15. at(i0) \in level(kind, priority, m) /\ \A j \in level(kind, priority, m) : j <= at(i0)
    BY <2>8, <2>12 DEF L
  <2>16. find(kind, priority) = policies[at(i0)] BY <2>6 DEF p
  <2> HIDE DEF level, find, at
  <2> QED BY <2>7, <2>14, <2>15, <2>16
<1> QED BY <1>9, <1>10

\* Policies stay a sequence when one is created, changed or removed.
LEMMA PoliciesStay ==
  ASSUME \E S : policies \in Seq(S), [IntakeNext]_intakeVars
  PROVE  \E S : policies' \in Seq(S)
<1>1. PICK S : policies \in Seq(S) OBVIOUS
<1>2. CASE \E t \in Takers : create_sla_policy(t)
  <2>1. PICK f : policies' = Append(policies, f) BY <1>2 DEF create_sla_policy
  <2>2. policies \in Seq(S \union {f}) BY <1>1, SeqOfMore
  <2>3. policies' \in Seq(S \union {f}) BY <2>1, <2>2
  <2> QED BY <2>3
<1>3. CASE \E t \in Takers : update_sla_policy(t)
  <2>0. PICK t \in Takers : update_sla_policy(t) BY <1>3
  <2>1. PICK i \in DOMAIN policies, f \in Edits(t) :
          \E given \in {{"span"}, {"active"}, {"kind", "priority"}} :
            /\ policies' = [policies EXCEPT ![i] = [c \in DOMAIN @ |-> IF c \in given THEN f[c] ELSE @[c]]]
            /\ UNCHANGED <<terms, received, today, taker, excused, tangled>>
    BY <2>0, Zenon DEF update_sla_policy
  <2>6. PICK given :
          policies' = [policies EXCEPT ![i] = [c \in DOMAIN @ |-> IF c \in given THEN f[c] ELSE @[c]]]
    BY <2>1, Zenon
  <2> DEFINE new == [c \in DOMAIN policies[i] |-> IF c \in given THEN f[c] ELSE policies[i][c]]
  <2>2. policies' = [policies EXCEPT ![i] = new] BY <2>6
  <2> HIDE DEF new
  <2>3. policies \in Seq(S \union {new}) BY <1>1, SeqOfMore
  <2>4. i \in 1..Len(policies) BY <1>1
  <2>5. policies' \in Seq(S \union {new})
    <3> DEFINE T == S \union {new}
    <3>1. new \in T /\ policies \in Seq(T) BY <2>3
    <3> HIDE DEF T
    <3>2. [policies EXCEPT ![i] = new] \in Seq(T) BY <3>1, <2>4, ExceptSeq
    <3> QED BY <2>2, <3>2 DEF T
  <2> QED BY <2>5
<1>4. CASE \E t \in Takers : delete_sla_policy(t)
  <2>1. PICK i \in DOMAIN policies : policies' = RemoveAt(policies, i) BY <1>4 DEF delete_sla_policy
  <2>2. i \in 1..Len(policies) /\ Len(policies) \in Nat BY <1>1
  <2>3. policies' = SubSeq(policies, 1, i-1) \o SubSeq(policies, i+1, Len(policies)) BY <2>1 DEF RemoveAt
  <2>4. \A j \in 1..Len(policies) : policies[j] \in S BY <1>1
  <2>5. SubSeq(policies, 1, i-1) \in Seq(S)
    <3>1. 1 \in Int /\ i-1 \in Int /\ \A j \in 1..(i-1) : policies[j] \in S BY <2>2, <2>4
    <3> QED BY <3>1, SubSeqProperties
  <2>6. SubSeq(policies, i+1, Len(policies)) \in Seq(S)
    <3>1. i+1 \in Int /\ Len(policies) \in Int /\ \A j \in (i+1)..Len(policies) : policies[j] \in S BY <2>2, <2>4
    <3> QED BY <3>1, SubSeqProperties
  <2>7. policies' \in Seq(S) BY <2>3, <2>5, <2>6, ConcatProperties
  <2> QED BY <2>7
<1>5. CASE UNCHANGED policies BY <1>5
<1>6. QED
  <2>1. \/ \E t \in Takers : create_sla_policy(t)
        \/ \E t \in Takers : update_sla_policy(t)
        \/ \E t \in Takers : delete_sla_policy(t)
        \/ UNCHANGED policies
    <3>1. CASE IntakeNext
      <4>1. CASE PushOrder \/ Tomorrow BY <4>1 DEF PushOrder, Tomorrow
      <4>2. CASE \E t \in Takers :
                   \/ create_sla_policy(t) \/ update_sla_policy(t) \/ delete_sla_policy(t)
                   \/ CheckContract(t) \/ can_create_order(t) \/ Settle(t) \/ CommitOrder(t)
                   \/ CheckContractUpdate(t) \/ CommitContractUpdate(t)
        <5>1. \A t : CheckContract(t) \/ can_create_order(t) \/ Settle(t) => UNCHANGED policies
          BY DEF CheckContract, can_create_order, Settle
        <5>2. \A t : CommitOrder(t) \/ CheckContractUpdate(t) \/ CommitContractUpdate(t) => UNCHANGED policies
          BY DEF CommitOrder, CheckContractUpdate, CommitContractUpdate
        <5> QED BY <4>2, <5>1, <5>2
      <4> QED BY <3>1, <4>1, <4>2 DEF IntakeNext
    <3>2. CASE UNCHANGED intakeVars BY <3>2 DEF intakeVars
    <3> QED BY <3>1, <3>2
  <2> QED BY <2>1, <1>2, <1>3, <1>4, <1>5

\* An order gets the newest active policy of the most specific level, whatever was created,
\* changed and removed (sla_policy_service.py).
THEOREM PolicyMatches == IntakeSpec => []MatchIsMostSpecific
<1>1. IntakeInit => \E S : policies \in Seq(S)
  <2>1. <<>> \in Seq({}) OBVIOUS
  <2> QED BY <2>1 DEF IntakeInit
<1>2. (\E S : policies \in Seq(S)) /\ [IntakeNext]_intakeVars => (\E S : policies \in Seq(S))' BY PoliciesStay
<1>3. (\E S : policies \in Seq(S)) => MatchIsMostSpecific BY MostSpecific, UnsetAssumption
<1> QED BY <1>1, <1>2, <1>3, PTL DEF IntakeSpec

------------------------------------------------------------------------------
(* Documents *)

\* Where a request may be.
Stages == {"start", "counting", "coding", "committing", "printing", "ended"}

\* What the fields may be.
AnyCode == Codes \cup {NoCode} \cup {Fresh[o].code : o \in Printed}
AnyStatus == {"none", "delivered"} \cup {Fresh[o].status : o \in Printed}
AnyWork == UNION {{w[p] : p \in Printers} : w \in PrintWork}
AnyFormats == Seq(Formats) \cup {w.formats : w \in AnyWork}

\* A row, the sheet of an order, what a file says, and a request with all it has read and
\* drawn.
Slips == [order : Printed, type : Types, format : Formats, path : Paths, revision : Nat, copy : BOOLEAN]
Sheets == [status : AnyStatus, code : AnyCode]
Pages == [revision : Nat, code : AnyCode]
PrinterRecord == [work : AnyWork, at : Stages, formats : AnyFormats, status : AnyStatus, code : AnyCode,
                  drew : BOOLEAN, revision : Nat, rows : Seq(Slips)]

\* The types of the variables.
DocumentTypeOK ==
  /\ sheet \in [Printed -> Sheets] /\ documents \in Seq(Slips)
  /\ file \in [Paths -> Pages] /\ second \in 0..LastSecond
  /\ printer \in [Printers -> PrinterRecord]
  /\ shown \subseteq [order : Printed, code : AnyCode, drawn : BOOLEAN]

\* A request that will save rows, and one that may give its order a code.
Runs(e) == e.at \in {"counting", "coding", "committing"}
Gives(e) == Runs(e) /\ (e.code = NoCode \/ e.drew)

\* What a row is a document of, what a request makes a document of now, the rows of an
\* order, a type and a format, and what a request has counted.
TopicOf(r) == <<r.order, r.type, r.format>>
TopicNow(e) == <<e.work.order, e.work.type, Head(e.formats)>>
RowsIn(docs, topic) == {i \in DOMAIN docs : TopicOf(docs[i]) = topic}
Relies(e, topic) ==
  \/ \E k \in DOMAIN e.rows : TopicOf(e.rows[k]) = topic
  \/ e.at = "coding" /\ TopicNow(e) = topic

\* What a request has at each of its places: the formats it is asked for, no code before it
\* has read its order, no row without a code.
ShapeOK(e) ==
  /\ e.at = "start" => e.code = NoCode /\ ~e.drew /\ e.rows = <<>> /\ e.formats = e.work.formats
  /\ e.at # "start" => e.work \in Papers
  /\ Runs(e) => e.work.task # "summary" /\ e.formats \in Seq(Formats) /\ Once(e.formats)
  /\ e.at = "printing" => e.work.task = "summary"
  /\ e.at \in {"counting", "coding"} => e.formats # <<>>
  /\ e.drew => e.code # NoCode
  /\ e.rows # <<>> => e.code # NoCode

\* The rows that wait for the commit are of the order, one for each format, none of a format
\* that is still to come.
SlipsOK(e) ==
  Runs(e) =>
    /\ \A k \in DOMAIN e.rows :
         /\ e.rows[k].order = e.work.order /\ e.rows[k].type = e.work.type
         /\ e.rows[k].path[1] = e.work.order
         /\ \A i \in DOMAIN e.formats : e.formats[i] # e.rows[k].format
    /\ \A k, l \in DOMAIN e.rows : e.rows[k].format = e.rows[l].format => k = l

\* The next revision of a document, and whether it is a copy.
NextNumber(docs, topic, r, c) == r = Cardinality(RowsIn(docs, topic)) + 1 /\ c = (r > 1)

\* What a request has counted is still true, and so is the revision of each row that waits.
RevOK(e, docs, over) ==
  Runs(e) =>
    /\ e.at = "coding" /\ TopicNow(e) \notin over => e.revision = Cardinality(RowsIn(docs, TopicNow(e))) + 1
    /\ \A k \in DOMAIN e.rows :
         TopicOf(e.rows[k]) \notin over =>
           NextNumber(docs, TopicOf(e.rows[k]), e.rows[k].revision, e.rows[k].copy)

\* The file of a row is there and says its revision, unless its name was taken twice.
OnPaper(r, fl, crowd) == fl[r.path] # Blank /\ (r.path \notin crowd => fl[r.path].revision = r.revision)

\* The files of the rows that wait are there, with the code the request has.
FileOK(e, fl, rec, crowd) ==
  Runs(e) => \A k \in DOMAIN e.rows :
    OnPaper(e.rows[k], fl, crowd) /\ (e.work.order \notin rec => fl[e.rows[k].path].code = e.code)

\* The code a request has is its order's; when its order has none it gives one nobody else
\* has.
CodeOK(e, sh, rec) ==
  /\ e.work.order \notin rec /\ Gives(e) => sh[e.work.order].code = NoCode
  /\ e.work.order \notin rec /\ (Runs(e) \/ e.at = "printing") /\ ~e.drew /\ e.code # NoCode
       => e.code = sh[e.work.order].code
  /\ \A u \in Printed : e.drew /\ sh[u].code = e.code => u = e.work.order /\ e.at = "ended" /\ e.work.task # "summary"

\* Two requests count the same documents, or give one order a code, only as the histories
\* say; no two draw the same code.
PairOK(e, g, over, rec) ==
  /\ Runs(e) /\ Runs(g) => \A t \in Printed \X Types \X Formats : Relies(e, t) /\ Relies(g, t) => t \in over
  /\ e.drew /\ g.drew => e.code # g.code
  /\ Gives(e) /\ Gives(g) /\ e.work.order = g.work.order => e.work.order \in rec

\* The committed rows of an order, a type and a format are numbered in their order.
RevsOK(docs, over) ==
  \A i \in DOMAIN docs :
    TopicOf(docs[i]) \notin over =>
      /\ docs[i].revision = Cardinality({j \in RowsIn(docs, TopicOf(docs[i])) : j <= i})
      /\ docs[i].copy = (docs[i].revision > 1)

\* The files of the committed rows are there and show the code of their order.
FilesOK(docs, sh, fl, rec, crowd) ==
  \A i \in DOMAIN docs :
    /\ OnPaper(docs[i], fl, crowd) /\ docs[i].path[1] = docs[i].order
    /\ docs[i].order \notin rec =>
         fl[docs[i].path].code = sh[docs[i].order].code /\ sh[docs[i].order].code # NoCode

\* No two orders have one code.
CodesOK(sh) == \A o, u \in Printed : sh[o].code = sh[u].code => o = u \/ sh[o].code = NoCode

\* A summary shows the code of its order, or one that no order has and that no request will
\* save.
Leads(s, sh, rec) ==
  IF s.drawn THEN \A o \in Printed : sh[o].code # s.code
  ELSE s.order \in rec \/ (sh[s.order].code = s.code /\ s.code # NoCode)
Unsaved(s, e) == s.drawn /\ e.drew /\ e.code = s.code => e.work.task = "summary"

\* All of it, of one request.
EntryOK(e, sh, docs, fl, over, rec, crowd) ==
  ShapeOK(e) /\ SlipsOK(e) /\ RevOK(e, docs, over) /\ FileOK(e, fl, rec, crowd) /\ CodeOK(e, sh, rec)

\* The invariant.
DocumentsInv ==
  /\ DocumentTypeOK
  /\ \A p \in Printers : EntryOK(printer[p], sheet, documents, file, overlapped, recoded, crowded)
  /\ \A p, q \in Printers : p # q => PairOK(printer[p], printer[q], overlapped, recoded)
  /\ RevsOK(documents, overlapped)
  /\ FilesOK(documents, sheet, file, recoded, crowded)
  /\ CodesOK(sheet)
  /\ \A s \in shown : Leads(s, sheet, recoded)
  /\ \A s \in shown, p \in Printers : Unsaved(s, printer[p])

\* The histories only excuse: what is true of a request stays true when they grow.
LEMMA EntryGrows ==
  ASSUME NEW e, NEW over, NEW over2, NEW rec, NEW rec2, NEW crowd, NEW crowd2, NEW sh, NEW docs, NEW fl,
         EntryOK(e, sh, docs, fl, over, rec, crowd),
         over \subseteq over2, rec \subseteq rec2, crowd \subseteq crowd2
  PROVE  EntryOK(e, sh, docs, fl, over2, rec2, crowd2)
<1>1. ShapeOK(e) /\ SlipsOK(e) BY DEF EntryOK
<1>2. RevOK(e, docs, over2) BY DEF EntryOK, RevOK
<1>3. FileOK(e, fl, rec2, crowd2) BY DEF EntryOK, FileOK, OnPaper
<1>4. CodeOK(e, sh, rec2) BY DEF EntryOK, CodeOK
<1> QED BY <1>1, <1>2, <1>3, <1>4 DEF EntryOK

\* So does what is true of two requests.
LEMMA PairGrows ==
  ASSUME NEW e, NEW g, NEW over, NEW over2, NEW rec, NEW rec2, PairOK(e, g, over, rec),
         over \subseteq over2, rec \subseteq rec2
  PROVE  PairOK(e, g, over2, rec2)
BY DEF PairOK

\* The relation of two requests is symmetric.
LEMMA PairTurns ==
  ASSUME NEW e, NEW g, NEW over, NEW rec, PairOK(e, g, over, rec) PROVE PairOK(g, e, over, rec)
<1>1. Runs(g) /\ Runs(e) =>
        \A t \in Printed \X Types \X Formats : Relies(g, t) /\ Relies(e, t) => t \in over
  BY DEF PairOK
<1>2. g.drew /\ e.drew => g.code # e.code BY DEF PairOK
<1>3. Gives(g) /\ Gives(e) /\ g.work.order = e.work.order => g.work.order \in rec BY DEF PairOK
<1> QED BY <1>1, <1>2, <1>3 DEF PairOK

\* A step of one request keeps the invariant when its new place, the tables and the others
\* agree.
LEMMA TurnKeeps ==
  ASSUME DocumentsInv, NEW p \in Printers, NEW e \in PrinterRecord,
         printer' = [printer EXCEPT ![p] = e],
         sheet' \in [Printed -> Sheets], documents' \in Seq(Slips), file' \in [Paths -> Pages],
         shown' \subseteq [order : Printed, code : AnyCode, drawn : BOOLEAN], second' = second,
         overlapped \subseteq overlapped', recoded \subseteq recoded', crowded \subseteq crowded',
         EntryOK(e, sheet', documents', file', overlapped', recoded', crowded'),
         \A q \in Printers \ {p} :
           EntryOK(printer[q], sheet', documents', file', overlapped', recoded', crowded'),
         \A q \in Printers \ {p} : PairOK(e, printer[q], overlapped', recoded'),
         RevsOK(documents', overlapped'),
         FilesOK(documents', sheet', file', recoded', crowded'),
         CodesOK(sheet'),
         \A s \in shown' : Leads(s, sheet', recoded') /\ Unsaved(s, e),
         \A s \in shown', q \in Printers \ {p} : Unsaved(s, printer[q])
  PROVE  DocumentsInv'
<1>1. DocumentTypeOK BY DEF DocumentsInv
<1>2. DOMAIN printer = Printers BY <1>1 DEF DocumentTypeOK
<1>3. printer'[p] = e /\ \A q \in Printers \ {p} : printer'[q] = printer[q] BY <1>2
<1>4. DocumentTypeOK' BY <1>1 DEF DocumentTypeOK
<1>5. \A q \in Printers : EntryOK(printer[q], sheet, documents, file, overlapped, recoded, crowded)'
  BY <1>3
<1>6. \A q, r \in Printers : q # r => PairOK(printer[q], printer[r], overlapped, recoded)'
  <2> SUFFICES ASSUME NEW q \in Printers, NEW r \in Printers, q # r
               PROVE  PairOK(printer'[q], printer'[r], overlapped', recoded')
    OBVIOUS
  <2>1. CASE q = p BY <2>1, <1>3
  <2>2. CASE r = p
    <3>1. PairOK(e, printer[q], overlapped', recoded') BY <2>2
    <3>2. PairOK(printer[q], e, overlapped', recoded') BY <3>1, PairTurns
    <3> QED BY <3>2, <2>2, <1>3
  <2>3. CASE q # p /\ r # p
    <3>1. PairOK(printer[q], printer[r], overlapped, recoded) BY DEF DocumentsInv
    <3>2. PairOK(printer[q], printer[r], overlapped', recoded') BY <3>1, PairGrows
    <3> QED BY <3>2, <2>3, <1>3
  <2> QED BY <2>1, <2>2, <2>3
<1>7. \A s \in shown', q \in Printers : Unsaved(s, printer'[q]) BY <1>3
<1> QED BY <1>4, <1>5, <1>6, <1>7 DEF DocumentsInv

\* The others do when the tables stay as they are.
LEMMA MoveKeeps ==
  ASSUME DocumentsInv, NEW p \in Printers, NEW e \in PrinterRecord,
         printer' = [printer EXCEPT ![p] = e],
         UNCHANGED <<sheet, documents, file, second, shown>>,
         overlapped \subseteq overlapped', recoded \subseteq recoded', crowded \subseteq crowded',
         EntryOK(e, sheet, documents, file, overlapped', recoded', crowded'),
         \A q \in Printers \ {p} : PairOK(e, printer[q], overlapped', recoded'),
         \A s \in shown : Unsaved(s, e)
  PROVE  DocumentsInv'
<1>1. DocumentTypeOK BY DEF DocumentsInv
<1>2. /\ sheet' \in [Printed -> Sheets] /\ documents' \in Seq(Slips) /\ file' \in [Paths -> Pages]
      /\ shown' \subseteq [order : Printed, code : AnyCode, drawn : BOOLEAN] /\ second' = second
  BY <1>1 DEF DocumentTypeOK
<1>3. \A q \in Printers \ {p} :
        EntryOK(printer[q], sheet', documents', file', overlapped', recoded', crowded')
  <2> TAKE q \in Printers \ {p}
  <2>1. EntryOK(printer[q], sheet, documents, file, overlapped, recoded, crowded) BY DEF DocumentsInv
  <2>2. EntryOK(printer[q], sheet, documents, file, overlapped', recoded', crowded') BY <2>1, EntryGrows
  <2> QED BY <2>2
<1>4. RevsOK(documents', overlapped')
  <2>1. RevsOK(documents, overlapped) BY DEF DocumentsInv
  <2>2. RevsOK(documents, overlapped') BY <2>1 DEF RevsOK
  <2> QED BY <2>2
<1>5. FilesOK(documents', sheet', file', recoded', crowded')
  <2>1. FilesOK(documents, sheet, file, recoded, crowded) BY DEF DocumentsInv
  <2>2. FilesOK(documents, sheet, file, recoded', crowded') BY <2>1 DEF FilesOK, OnPaper
  <2> QED BY <2>2
<1>6. CodesOK(sheet') BY DEF DocumentsInv
<1>7. \A s \in shown' : Leads(s, sheet', recoded') /\ Unsaved(s, e) BY DEF DocumentsInv, Leads
<1>8. \A s \in shown', q \in Printers \ {p} : Unsaved(s, printer[q]) BY DEF DocumentsInv
<1> QED BY <1>2, <1>3, <1>4, <1>5, <1>6, <1>7, <1>8, TurnKeeps

\* What the invariant says of one request.
LEMMA TurnTo ==
  ASSUME DocumentsInv, NEW p \in Printers
  PROVE  /\ printer[p] \in PrinterRecord
         /\ EntryOK(printer[p], sheet, documents, file, overlapped, recoded, crowded)
         /\ \A q \in Printers \ {p} : PairOK(printer[p], printer[q], overlapped, recoded)
         /\ \A s \in shown : Unsaved(s, printer[p])
         /\ \A q \in Printers \ {p} : printer[q] \in PrinterRecord
BY DEF DocumentsInv, DocumentTypeOK

\* A request that ends without writing keeps the invariant.
LEMMA EndKeeps ==
  ASSUME DocumentsInv, NEW p \in Printers, printer[p].work \in Papers,
         printer' = [printer EXCEPT ![p].at = "ended"],
         UNCHANGED <<sheet, documents, file, second, shown, overlapped, recoded, crowded>>
  PROVE  DocumentsInv'
<1> DEFINE o == printer[p]
           e == [o EXCEPT !.at = "ended"]
<1>1. o \in PrinterRecord /\ EntryOK(o, sheet, documents, file, overlapped, recoded, crowded) BY TurnTo
<1>2. printer' = [printer EXCEPT ![p] = e] OBVIOUS
<1>3. e \in PrinterRecord /\ e.at = "ended" /\ e.work = o.work /\ e.code = o.code /\ e.drew = o.drew
       /\ e.rows = o.rows
  BY <1>1 DEF PrinterRecord, Stages
<1> HIDE DEF e
<1>4. ~Runs(e) /\ ~Gives(e) BY <1>3 DEF Runs, Gives
<1>5. EntryOK(e, sheet, documents, file, overlapped', recoded', crowded')
  <2>1. ShapeOK(e)
    <3>1. ShapeOK(o) BY <1>1 DEF EntryOK
    <3> QED BY <3>1, <1>3, <1>4 DEF ShapeOK
  <2>2. SlipsOK(e) /\ RevOK(e, documents, overlapped') /\ FileOK(e, file, recoded', crowded')
    BY <1>4 DEF SlipsOK, RevOK, FileOK
  <2>3. CodeOK(e, sheet, recoded')
    <3>1. CodeOK(o, sheet, recoded) BY <1>1 DEF EntryOK
    <3> QED BY <3>1, <1>3, <1>4 DEF CodeOK
  <2> QED BY <2>1, <2>2, <2>3 DEF EntryOK
<1>6. \A q \in Printers \ {p} : PairOK(e, printer[q], overlapped', recoded')
  <2> TAKE q \in Printers \ {p}
  <2>1. PairOK(o, printer[q], overlapped, recoded) BY TurnTo
  <2> QED BY <2>1, <1>3, <1>4 DEF PairOK
<1>7. \A s \in shown : Unsaved(s, e) BY <1>3, TurnTo DEF Unsaved
<1> HIDE DEF o
<1> QED BY <1>2, <1>3, <1>5, <1>6, <1>7, MoveKeeps

\* A transaction that is lost keeps the invariant.
LEMMA LoseKeeps ==
  ASSUME DocumentsInv, NEW p \in Printers, LoseDocuments(p)
  PROVE  DocumentsInv'
<1>1. printer[p].at = "committing" BY DEF LoseDocuments, Where
<1>2. EntryOK(printer[p], sheet, documents, file, overlapped, recoded, crowded) BY TurnTo
<1>3. printer[p].work \in Papers BY <1>1, <1>2 DEF EntryOK, ShapeOK
<1> QED BY <1>3, EndKeeps DEF LoseDocuments

\* What a request is asked, as PrintWorkAssumption has it.
LEMMA WorkIs ==
  ASSUME DocumentsInv, NEW p \in Printers, Asks(p).task \in Tasks
  PROVE  /\ printer[p].work \in Papers
         /\ printer[p].work.task = "summary" <=> printer[p].work.formats = <<>>
         /\ printer[p].work.formats \in Seq(Formats) /\ Once(printer[p].work.formats)
<1>1. printer[p].work \in AnyWork BY TurnTo DEF PrinterRecord
<1>2. PICK w \in PrintWork : printer[p].work \in {w[q] : q \in Printers} BY <1>1 DEF AnyWork
<1>3. PICK q \in Printers : printer[p].work = w[q] BY <1>2
<1>4. w[q].task \in Tasks BY <1>3 DEF Asks
<1>5. w[q] \in Papers /\ (w[q].task = "summary" <=> w[q].formats = <<>>) BY <1>4, PrintWorkAssumption
<1>6. w[q].formats \in {l \in BoundedSeq(Formats, 2) : Once(l)} BY <1>5 DEF Papers
<1>7. w[q].formats \in BoundedSeq(Formats, 2) /\ Once(w[q].formats) BY <1>6
<1>8. \A l \in BoundedSeq(Formats, 2) : l \in Seq(Formats) BY DEF BoundedSeq, SeqOf
<1> QED BY <1>3, <1>5, <1>7, <1>8

\* Reading the order keeps the invariant.
LEMMA LoadKeeps ==
  ASSUME DocumentsInv, NEW p \in Printers, LoadOrder(p)
  PROVE  DocumentsInv'
<1> DEFINE o == printer[p]
           u == o.work.order
           seen == sheet[u]
<1>1. o.at = "start" /\ o.work.task \in Tasks /\ UNCHANGED <<sheet, documents, file, second, shown, overlapped, crowded>>
  BY DEF LoadOrder, Where, Asks
<1>2. /\ o \in PrinterRecord /\ ShapeOK(o)
      /\ \A q \in Printers \ {p} : PairOK(o, printer[q], overlapped, recoded)
      /\ CodeOK(o, sheet, recoded)
  BY TurnTo DEF EntryOK
<1>3. /\ o.work \in Papers /\ (o.work.task = "summary" <=> o.work.formats = <<>>)
      /\ o.work.formats \in Seq(Formats) /\ Once(o.work.formats)
  BY <1>1, WorkIs DEF Asks
<1>4. u \in Printed /\ seen \in Sheets
  BY <1>3 DEF Papers, DocumentsInv, DocumentTypeOK
<1>5. CASE Asks(p).task = "deliver" /\ seen.status # "completed"
  <2>1. printer' = [printer EXCEPT ![p].at = "ended"] /\ UNCHANGED recoded
    BY <1>5 DEF LoadOrder, Asks
  <2> QED BY <1>1, <1>3, <2>1, EndKeeps
<1>6. CASE ~ (Asks(p).task = "deliver" /\ seen.status # "completed")
  <2> DEFINE at == IF o.work.task = "summary" THEN "printing" ELSE "counting"
             status == IF o.work.task = "deliver" THEN "delivered" ELSE seen.status
             e == [o EXCEPT !.at = at, !.status = status, !.code = seen.code]
  <2>1. printer' = [printer EXCEPT ![p].at = at, ![p].status = status, ![p].code = seen.code]
    BY <1>6 DEF LoadOrder, Asks
  <2>2. recoded' = IF /\ seen.code = NoCode /\ o.work.task # "summary"
                      /\ Coding(u) # {} THEN recoded \union {u} ELSE recoded
    BY <1>6 DEF LoadOrder, Asks
  <2>3. at \in {"printing", "counting"} /\ status \in AnyStatus /\ seen.code \in AnyCode
    BY <1>4 DEF Sheets, AnyStatus
  <2>4. printer' = [printer EXCEPT ![p] = e]
    <3> HIDE DEF at, status, seen
    <3> QED BY <2>1, <1>2
  <2>5. /\ e \in PrinterRecord /\ e.at = at /\ e.status = status /\ e.code = seen.code
        /\ e.work = o.work /\ e.drew = o.drew /\ e.rows = o.rows /\ e.formats = o.formats /\ e.revision = o.revision
    <3> HIDE DEF at, status, seen
    <3> QED BY <1>2, <2>3 DEF PrinterRecord, Stages
  <2> HIDE DEF e
  <2>6. ~e.drew /\ e.rows = <<>> /\ e.formats = o.work.formats /\ e.formats \in Seq(Formats)
    BY <1>1, <1>2, <1>3, <2>5 DEF ShapeOK
  <2>7. e.at = "counting" => e.work.task # "summary" BY <2>5
  <2>8. e.at = "printing" => e.work.task = "summary" BY <2>5
  <2>9. Runs(e) <=> e.at = "counting" BY <2>5, <2>3 DEF Runs
  <2>10. Gives(e) <=> e.at = "counting" /\ seen.code = NoCode BY <2>5, <2>6, <2>9 DEF Gives
  <2>11. DOMAIN e.rows = {} BY <2>6
  <2>12. EntryOK(e, sheet, documents, file, overlapped', recoded', crowded')
    <3> HIDE DEF at, seen, status
    <3>1. ShapeOK(e) BY <1>3, <2>3, <2>5, <2>6, <2>7, <2>8, <2>9 DEF ShapeOK
    <3>2. SlipsOK(e) /\ FileOK(e, file, recoded', crowded') BY <2>11 DEF SlipsOK, FileOK
    <3>3. RevOK(e, documents, overlapped') BY <2>3, <2>5, <2>11 DEF RevOK
    <3>4. CodeOK(e, sheet, recoded') BY <2>5, <2>6, <2>10 DEF CodeOK, seen
    <3> QED BY <3>1, <3>2, <3>3, <3>4 DEF EntryOK
  <2>13. \A q \in Printers \ {p} : PairOK(e, printer[q], overlapped', recoded')
    <3> TAKE q \in Printers \ {p}
    <3> HIDE DEF at, status, seen
    <3>1. \A t : ~ Relies(e, t) BY <2>3, <2>5, <2>11 DEF Relies
    <3>2. Gives(e) /\ Gives(printer[q]) /\ e.work.order = printer[q].work.order => u \in recoded'
      <4> SUFFICES ASSUME Gives(e), Gives(printer[q]), e.work.order = printer[q].work.order PROVE u \in recoded'
        OBVIOUS
      <4>1. q \in Coding(u) BY <2>5 DEF Coding, Running, Gives, Runs, Asks
      <4>2. seen.code = NoCode /\ o.work.task # "summary" BY <2>5, <2>7, <2>10
      <4> QED BY <4>1, <4>2, <2>2
    <3> QED BY <3>1, <3>2, <2>5, <2>6 DEF PairOK
  <2>14. \A s \in shown : Unsaved(s, e) BY <2>6 DEF Unsaved
  <2>15. recoded \subseteq recoded' BY <2>2
  <2> HIDE DEF o
  <2> QED BY <1>1, <2>4, <2>5, <2>12, <2>13, <2>14, <2>15, MoveKeeps
<1> QED BY <1>5, <1>6

\* The head and the tail of a sequence.
LEMMA PlacesLeft ==
  ASSUME NEW S, NEW s \in Seq(S), s # <<>>
  PROVE  /\ Head(s) \in S /\ Head(s) = s[1] /\ 1 \in DOMAIN s /\ Tail(s) \in Seq(S)
         /\ \A i \in DOMAIN Tail(s) : i + 1 \in DOMAIN s /\ Tail(s)[i] = s[i + 1]
         /\ Len(s) > 1 => Tail(s) # <<>>
<1>1. Len(s) \in Nat /\ DOMAIN s = 1..Len(s) /\ Len(s) # 0 BY EmptySeq, LenProperties
<1>2. Head(s) \in S /\ Tail(s) \in Seq(S) /\ Len(Tail(s)) = Len(s) - 1 /\ Head(s) = s[1] OBVIOUS
<1>3. DOMAIN Tail(s) = 1..(Len(s) - 1) BY <1>2, LenProperties
<1>4. \A i \in 1..(Len(s) - 1) : i + 1 \in 1..Len(s) /\ Tail(s)[i] = s[i + 1]
  BY <1>1, <1>2, HeadTailProperties
<1>5. Len(s) > 1 => Tail(s) # <<>>
  <2>1. Tail(s) = <<>> => Len(Tail(s)) = 0 BY EmptySeq
  <2> QED BY <2>1, <1>1, <1>2
<1> QED BY <1>1, <1>2, <1>3, <1>4, <1>5

\* A format that is taken does not come again.
LEMMA OnceLeft ==
  ASSUME NEW S, NEW s \in Seq(S), s # <<>>, Once(s)
  PROVE  Once(Tail(s)) /\ \A i \in DOMAIN Tail(s) : Tail(s)[i] # Head(s)
<1>1. \A i, j \in DOMAIN s : s[i] = s[j] => i = j BY DEF Once
<1>2. \A i \in DOMAIN Tail(s) : i \in Nat /\ i + 1 \in DOMAIN s /\ Tail(s)[i] = s[i + 1] /\ i + 1 # 1
  OBVIOUS
<1>3. Head(s) = s[1] /\ 1 \in DOMAIN s BY PlacesLeft
<1>4. \A i, j \in DOMAIN Tail(s) : Tail(s)[i] = Tail(s)[j] => i = j
  <2> TAKE i, j \in DOMAIN Tail(s)
  <2>1. Tail(s)[i] = Tail(s)[j] => i + 1 = j + 1 BY <1>1, <1>2
  <2> QED BY <2>1, <1>2
<1>5. \A i \in DOMAIN Tail(s) : Tail(s)[i] # Head(s) BY <1>1, <1>2, <1>3
<1> QED BY <1>4, <1>5 DEF Once

\* Where a request goes on.
LEMMA OnwardIs ==
  ASSUME NEW p \in Printers
  PROVE  Onward(p) \in {"counting", "committing"} /\ Skipped(p) \in {"counting", "committing", "ended"}
         /\ (Onward(p) = "counting" \/ Skipped(p) = "counting" => Len(printer[p].formats) > 1)
BY DEF Onward, Skipped

\* Going on without a row keeps the invariant.
LEMMA SkipKeeps ==
  ASSUME DocumentsInv, NEW p \in Printers, printer[p].at \in {"counting", "coding"},
         printer' = [printer EXCEPT ![p].at = Skipped(p), ![p].formats = Tail(@)],
         UNCHANGED <<sheet, documents, file, second, shown, overlapped, recoded, crowded>>
  PROVE  DocumentsInv'
<1> DEFINE o == printer[p]
           at == Skipped(p)
           left == Tail(o.formats)
           e == [o EXCEPT !.at = at, !.formats = left]
<1>1. /\ o \in PrinterRecord /\ ShapeOK(o) /\ SlipsOK(o) /\ RevOK(o, documents, overlapped)
      /\ FileOK(o, file, recoded, crowded) /\ CodeOK(o, sheet, recoded)
      /\ \A q \in Printers \ {p} : PairOK(o, printer[q], overlapped, recoded)
      /\ \A s \in shown : Unsaved(s, o)
  BY TurnTo DEF EntryOK
<1>2. Runs(o) BY DEF Runs
<1>3. o.formats \in Seq(Formats) /\ o.formats # <<>> /\ Once(o.formats) /\ o.work \in Papers
      /\ o.work.task # "summary"
  BY <1>1, <1>2 DEF ShapeOK
<1>4. at \in {"counting", "committing", "ended"} /\ (at = "counting" => Len(o.formats) > 1)
  BY OnwardIs
<1>5. left \in Seq(Formats) /\ (at = "counting" => left # <<>>) /\ Once(left)
      /\ \A i \in DOMAIN left : i + 1 \in DOMAIN o.formats /\ left[i] = o.formats[i + 1]
  BY <1>3, <1>4, PlacesLeft, OnceLeft
<1>6. printer' = [printer EXCEPT ![p] = e]
  <2>1. printer' = [printer EXCEPT ![p].at = at, ![p].formats = Tail(@)] OBVIOUS
  <2> HIDE DEF at
  <2> QED BY <1>1, <2>1
<1>7. /\ e \in PrinterRecord /\ e.at = at /\ e.formats = left /\ e.code = o.code /\ e.status = o.status
      /\ e.work = o.work /\ e.drew = o.drew /\ e.rows = o.rows /\ e.revision = o.revision
  <2> HIDE DEF at, left
  <2> QED BY <1>1, <1>4, <1>5 DEF PrinterRecord, Stages, AnyFormats
<1> HIDE DEF at, left, e
<1>8. Gives(e) => Gives(o) BY <1>2, <1>7 DEF Gives
<1>9. e.at # "coding" /\ e.at # "start" /\ e.at # "printing" BY <1>4, <1>7
<1>10. EntryOK(e, sheet, documents, file, overlapped', recoded', crowded')
  <2>1. ShapeOK(e) BY <1>1, <1>2, <1>3, <1>5, <1>7, <1>9 DEF ShapeOK
  <2>2. SlipsOK(e) BY <1>1, <1>2, <1>5, <1>7 DEF SlipsOK
  <2>3. RevOK(e, documents, overlapped') BY <1>1, <1>2, <1>7, <1>9 DEF RevOK
  <2>4. FileOK(e, file, recoded', crowded') BY <1>1, <1>2, <1>7 DEF FileOK
  <2>5. CodeOK(e, sheet, recoded')
    <3>1. ~ (e.drew /\ \E v \in Printed : sheet[v].code = e.code)
      BY <1>1, <1>2, <1>7 DEF CodeOK, Runs
    <3> QED BY <1>1, <1>2, <1>7, <1>8, <1>9, <3>1 DEF CodeOK
  <2> QED BY <2>1, <2>2, <2>3, <2>4, <2>5 DEF EntryOK
<1>11. \A q \in Printers \ {p} : PairOK(e, printer[q], overlapped', recoded')
  <2> TAKE q \in Printers \ {p}
  <2>1. PairOK(o, printer[q], overlapped, recoded) BY <1>1
  <2>2. \A t : Relies(e, t) => Relies(o, t) BY <1>7, <1>9 DEF Relies
  <2> QED BY <2>1, <2>2, <1>2, <1>7, <1>8 DEF PairOK
<1>12. \A s \in shown : Unsaved(s, e) BY <1>1, <1>7 DEF Unsaved
<1> HIDE DEF o
<1> QED BY <1>6, <1>7, <1>10, <1>11, <1>12, MoveKeeps

\* A rendering that fails keeps the invariant.
LEMMA RenderFailsKeeps ==
  ASSUME DocumentsInv, NEW p \in Printers, RenderFails(p)
  PROVE  DocumentsInv'
BY SkipKeeps DEF RenderFails, Where

\* The rows of a document are finitely many.
LEMMA RowsFinite ==
  ASSUME NEW docs \in Seq(Slips), NEW topic
  PROVE  /\ IsFiniteSet(RowsIn(docs, topic)) /\ Cardinality(RowsIn(docs, topic)) \in Nat
         /\ RowsIn(docs, topic) \subseteq 1..Len(docs)
<1>1. DOMAIN docs = 1..Len(docs) /\ Len(docs) \in Nat BY LenProperties
<1>2. RowsIn(docs, topic) \subseteq 1..Len(docs) BY <1>1 DEF RowsIn
<1>3. IsFiniteSet(1..Len(docs)) BY <1>1, FS_Interval
<1> QED BY <1>2, <1>3, FS_Subset, FS_CardinalityType

\* Counting keeps the invariant: who counts the same at that time is in the history.
LEMMA CountKeeps ==
  ASSUME DocumentsInv, NEW p \in Printers, CountDocuments(p)
  PROVE  DocumentsInv'
<1> DEFINE o == printer[p]
           topic == TopicNow(o)
           n == Cardinality(RowsIn(documents, topic)) + 1
           e == [o EXCEPT !.at = "coding", !.revision = n]
<1>1. o.at = "counting" /\ UNCHANGED <<sheet, documents, file, second, shown, recoded, crowded>>
  BY DEF CountDocuments, Where
<1>2. CASE Asks(p).type = "delivery_receipt" /\ printer[p].status \notin {"completed", "delivered"}
  BY <1>1, <1>2, SkipKeeps DEF CountDocuments
<1>3. CASE ~ (Asks(p).type = "delivery_receipt" /\ printer[p].status \notin {"completed", "delivered"})
  <2>1. /\ o \in PrinterRecord /\ ShapeOK(o) /\ SlipsOK(o) /\ RevOK(o, documents, overlapped)
        /\ FileOK(o, file, recoded, crowded) /\ CodeOK(o, sheet, recoded)
        /\ \A q \in Printers \ {p} : PairOK(o, printer[q], overlapped, recoded) /\ printer[q] \in PrinterRecord
        /\ \A s \in shown : Unsaved(s, o)
    BY TurnTo DEF EntryOK
  <2>2. Topic(p) = topic BY DEF Topic, TopicNow, Asks, Format
  <2>3. Rows(Topic(p)) = RowsIn(documents, topic) BY <2>2 DEF Rows, RowsIn, TopicOf
  <2>4. printer' = [printer EXCEPT ![p].at = "coding", ![p].revision = n]
    BY <1>3, <2>3 DEF CountDocuments
  <2>5. overlapped' = IF \E q \in Printers \ {p} : Running(q) /\ topic \in Counted(q)
                      THEN overlapped \union {topic} ELSE overlapped
    BY <1>3, <2>2 DEF CountDocuments
  <2>6. n \in Nat
    <3>1. Cardinality(RowsIn(documents, topic)) \in Nat
      BY RowsFinite DEF DocumentsInv, DocumentTypeOK
    <3> QED BY <3>1
  <2>7. printer' = [printer EXCEPT ![p] = e]
    <3> HIDE DEF n
    <3> QED BY <2>1, <2>4
  <2>8. /\ e \in PrinterRecord /\ e.at = "coding" /\ e.formats = o.formats /\ e.code = o.code
        /\ e.work = o.work /\ e.drew = o.drew /\ e.rows = o.rows /\ e.revision = n
    <3> HIDE DEF n
    <3> QED BY <2>1, <2>6 DEF PrinterRecord, Stages
  <2> HIDE DEF e
  <2>9. Runs(e) /\ Runs(o) /\ (Gives(e) <=> Gives(o)) BY <1>1, <2>8 DEF Runs, Gives
  <2>10. TopicNow(e) = topic BY <2>8 DEF TopicNow
  <2>11. overlapped \subseteq overlapped' BY <2>5
  <2>12. EntryOK(e, sheet, documents, file, overlapped', recoded', crowded')
    <3> HIDE DEF n, topic
    <3>1. ShapeOK(e) BY <1>1, <2>1, <2>8, <2>9 DEF ShapeOK
    <3>2. SlipsOK(e) BY <2>1, <2>8, <2>9 DEF SlipsOK
    <3>3. RevOK(e, documents, overlapped')
      <4>1. RevOK(o, documents, overlapped') BY <2>1, <2>11 DEF RevOK
      <4> QED BY <4>1, <2>8, <2>9, <2>10 DEF RevOK, n
    <3>4. FileOK(e, file, recoded', crowded') BY <1>1, <2>1, <2>8, <2>9 DEF FileOK
    <3>5. CodeOK(e, sheet, recoded') BY <1>1, <2>1, <2>8, <2>9 DEF CodeOK
    <3> QED BY <3>1, <3>2, <3>3, <3>4, <3>5 DEF EntryOK
  <2>13. \A q \in Printers \ {p} : PairOK(e, printer[q], overlapped', recoded')
    <3> TAKE q \in Printers \ {p}
    <3> HIDE DEF topic
    <3>1. PairOK(o, printer[q], overlapped', recoded') BY <1>1, <2>1, <2>11, PairGrows
    <3>2. \A t : Relies(e, t) => Relies(o, t) \/ t = topic BY <2>8, <2>10 DEF Relies
    <3>3. Runs(printer[q]) /\ Relies(printer[q], topic) => topic \in overlapped'
      <4> SUFFICES ASSUME Runs(printer[q]), Relies(printer[q], topic) PROVE topic \in overlapped' OBVIOUS
      <4>1. Running(q) BY DEF Running, Runs
      <4>2. topic \in Counted(q)
        <5>1. CASE printer[q].at = "coding" /\ TopicNow(printer[q]) = topic
          BY <5>1 DEF Counted, Where, Topic, TopicNow, Asks, Format
        <5>2. CASE \E k \in DOMAIN printer[q].rows : TopicOf(printer[q].rows[k]) = topic
          BY <5>2 DEF Counted, ToSet, TopicOf
        <5> QED BY <5>1, <5>2 DEF Relies
      <4> QED BY <4>1, <4>2, <2>5
    <3>4. Runs(e) /\ Runs(printer[q]) =>
            \A t \in Printed \X Types \X Formats : Relies(e, t) /\ Relies(printer[q], t) => t \in overlapped'
      BY <2>9, <3>1, <3>2, <3>3 DEF PairOK
    <3> QED BY <3>1, <3>4, <2>8, <2>9 DEF PairOK
  <2>14. \A s \in shown : Unsaved(s, e) BY <2>1, <2>8 DEF Unsaved
  <2> HIDE DEF o
  <2> QED BY <1>1, <2>7, <2>8, <2>11, <2>12, <2>13, <2>14, MoveKeeps
<1> QED BY <1>2, <1>3

\* Drawing a code keeps the invariant: nobody has it.
LEMMA DrawKeeps ==
  ASSUME DocumentsInv, NEW p \in Printers, ensure_order_tracking_code(p)
  PROVE  DocumentsInv'
<1> DEFINE o == printer[p]
<1>1. /\ o.at \in {"coding", "printing"} /\ o.code = NoCode
      /\ UNCHANGED <<sheet, documents, file, second, shown, overlapped, recoded, crowded>>
  BY DEF ensure_order_tracking_code
<1>2. PICK c \in Codes \ Drawn : printer' = [printer EXCEPT ![p].code = c, ![p].drew = TRUE]
  BY DEF ensure_order_tracking_code
<1> DEFINE e == [o EXCEPT !.code = c, !.drew = TRUE]
<1>3. /\ o \in PrinterRecord /\ ShapeOK(o) /\ SlipsOK(o) /\ RevOK(o, documents, overlapped)
      /\ FileOK(o, file, recoded, crowded) /\ CodeOK(o, sheet, recoded)
      /\ \A q \in Printers \ {p} : PairOK(o, printer[q], overlapped, recoded)
  BY TurnTo DEF EntryOK
<1>4. c \in AnyCode /\ c # NoCode BY CodesAssumption DEF AnyCode
<1>5. /\ \A u \in Printed : sheet[u].code # c
      /\ \A q \in Printers : printer[q].code # c
      /\ \A s \in shown : s.code # c
  BY DEF Drawn
<1>6. printer' = [printer EXCEPT ![p] = e] BY <1>2, <1>3
<1>7. /\ e \in PrinterRecord /\ e.at = o.at /\ e.formats = o.formats /\ e.code = c
      /\ e.work = o.work /\ e.drew = TRUE /\ e.rows = o.rows /\ e.revision = o.revision
  BY <1>3, <1>4 DEF PrinterRecord
<1> HIDE DEF e
<1>8. o.rows = <<>> /\ DOMAIN e.rows = {} BY <1>1, <1>3, <1>7 DEF ShapeOK
<1>9. (Runs(e) <=> Runs(o)) /\ (Gives(e) <=> Gives(o)) BY <1>1, <1>7 DEF Runs, Gives
<1>10. EntryOK(e, sheet, documents, file, overlapped', recoded', crowded')
  <2>1. ShapeOK(e) BY <1>1, <1>3, <1>4, <1>7, <1>9 DEF ShapeOK
  <2>2. SlipsOK(e) /\ FileOK(e, file, recoded', crowded') BY <1>8 DEF SlipsOK, FileOK
  <2>3. RevOK(e, documents, overlapped') BY <1>1, <1>3, <1>7, <1>8, <1>9 DEF RevOK, TopicNow
  <2>4. CodeOK(e, sheet, recoded') BY <1>1, <1>3, <1>5, <1>7, <1>9 DEF CodeOK
  <2> QED BY <2>1, <2>2, <2>3, <2>4 DEF EntryOK
<1>11. \A q \in Printers \ {p} : PairOK(e, printer[q], overlapped', recoded')
  <2> TAKE q \in Printers \ {p}
  <2>1. PairOK(o, printer[q], overlapped, recoded) BY <1>3
  <2>2. \A t : Relies(e, t) <=> Relies(o, t) BY <1>7 DEF Relies, TopicNow
  <2> QED BY <2>1, <2>2, <1>1, <1>5, <1>7, <1>9 DEF PairOK
<1>12. \A s \in shown : Unsaved(s, e) BY <1>5, <1>7 DEF Unsaved
<1> HIDE DEF o
<1> QED BY <1>1, <1>6, <1>7, <1>10, <1>11, <1>12, MoveKeeps

\* Answering a summary keeps the invariant: the code it drew is never saved.
LEMMA PrintKeeps ==
  ASSUME DocumentsInv, NEW p \in Printers, print_order(p)
  PROVE  DocumentsInv'
<1> DEFINE o == printer[p]
           e == [o EXCEPT !.at = "ended"]
           n == [order |-> o.work.order, code |-> o.code, drawn |-> o.drew]
<1>1. /\ o.at = "printing" /\ o.code # NoCode
      /\ UNCHANGED <<sheet, documents, file, second, overlapped, recoded, crowded>>
      /\ printer' = [printer EXCEPT ![p].at = "ended"]
      /\ shown' = shown \union {n}
  BY DEF print_order, Where, Asks
<1>2. /\ o \in PrinterRecord /\ ShapeOK(o) /\ CodeOK(o, sheet, recoded)
      /\ \A q \in Printers \ {p} : PairOK(o, printer[q], overlapped, recoded)
      /\ \A s \in shown : Unsaved(s, o)
  BY TurnTo DEF EntryOK
<1>3. o.work \in Papers /\ o.work.task = "summary" BY <1>1, <1>2 DEF ShapeOK
<1>4. n \in [order : Printed, code : AnyCode, drawn : BOOLEAN] BY <1>2, <1>3 DEF PrinterRecord, Papers
<1>5. printer' = [printer EXCEPT ![p] = e] BY <1>1
<1>6. e \in PrinterRecord /\ e.at = "ended" /\ e.work = o.work /\ e.code = o.code /\ e.drew = o.drew
       /\ e.rows = o.rows
  BY <1>2 DEF PrinterRecord, Stages
<1>7. n.order = o.work.order /\ n.code = o.code /\ n.drawn = o.drew OBVIOUS
<1> HIDE DEF e, n
<1>8. ~Runs(e) /\ ~Gives(e) BY <1>6 DEF Runs, Gives
<1>9. ~ (o.drew /\ \E u \in Printed : sheet[u].code = o.code) BY <1>1, <1>2 DEF CodeOK
<1>10. EntryOK(e, sheet', documents', file', overlapped', recoded', crowded')
  <2>1. ShapeOK(e) BY <1>2, <1>3, <1>6, <1>8 DEF ShapeOK
  <2>2. SlipsOK(e) /\ RevOK(e, documents', overlapped') /\ FileOK(e, file', recoded', crowded')
    BY <1>8 DEF SlipsOK, RevOK, FileOK
  <2>3. CodeOK(e, sheet', recoded') BY <1>1, <1>6, <1>8, <1>9 DEF CodeOK
  <2> QED BY <2>1, <2>2, <2>3 DEF EntryOK
<1>11. \A q \in Printers \ {p} : PairOK(e, printer[q], overlapped', recoded')
  <2> TAKE q \in Printers \ {p}
  <2>1. PairOK(o, printer[q], overlapped, recoded) BY <1>2
  <2> QED BY <2>1, <1>6, <1>8 DEF PairOK
<1>12. Leads(n, sheet, recoded)
  <2>1. ~o.drew => o.work.order \in recoded \/ (sheet[o.work.order].code = o.code /\ o.code # NoCode)
    BY <1>1, <1>2 DEF CodeOK
  <2> QED BY <1>7, <1>9, <2>1 DEF Leads
<1>13. Unsaved(n, e) BY <1>3, <1>6 DEF Unsaved
<1>14. \A q \in Printers \ {p} : Unsaved(n, printer[q])
  BY <1>2, <1>7 DEF Unsaved, PairOK
<1>15. \A s \in shown : Leads(s, sheet, recoded) /\ Unsaved(s, e)
  BY <1>2, <1>6 DEF DocumentsInv, Unsaved
<1>16. \A s \in shown' : Leads(s, sheet', recoded') /\ Unsaved(s, e)
  BY <1>1, <1>12, <1>13, <1>15
<1>17. \A s \in shown', q \in Printers \ {p} : Unsaved(s, printer[q])
  BY <1>1, <1>14 DEF DocumentsInv
<1>18. /\ sheet' \in [Printed -> Sheets] /\ documents' \in Seq(Slips) /\ file' \in [Paths -> Pages]
       /\ shown' \subseteq [order : Printed, code : AnyCode, drawn : BOOLEAN] /\ second' = second
  BY <1>1, <1>4 DEF DocumentsInv, DocumentTypeOK
<1>19. /\ \A q \in Printers \ {p} :
            EntryOK(printer[q], sheet', documents', file', overlapped', recoded', crowded')
       /\ RevsOK(documents', overlapped') /\ FilesOK(documents', sheet', file', recoded', crowded')
       /\ CodesOK(sheet')
  BY <1>1 DEF DocumentsInv
<1>20. overlapped \subseteq overlapped' /\ recoded \subseteq recoded' /\ crowded \subseteq crowded' BY <1>1
<1> HIDE DEF o
<1> QED BY <1>5, <1>6, <1>10, <1>11, <1>16, <1>17, <1>18, <1>19, <1>20, TurnKeeps

\* The rows that wait, and one more.
LEMMA RowsMore ==
  ASSUME NEW s \in Seq(Slips), NEW x \in Slips
  PROVE  /\ Append(s, x) \in Seq(Slips)
         /\ \A k \in DOMAIN Append(s, x) :
              (k \in DOMAIN s /\ Append(s, x)[k] = s[k]) \/ (k = Len(s) + 1 /\ Append(s, x)[k] = x)
         /\ \A k \in DOMAIN s : k \in DOMAIN Append(s, x) /\ Append(s, x)[k] = s[k]
         /\ Len(s) + 1 \in DOMAIN Append(s, x) /\ Append(s, x)[Len(s) + 1] = x
<1>1. Len(s) \in Nat /\ DOMAIN s = 1..Len(s) BY LenProperties
<1>2. Append(s, x) \in Seq(Slips) /\ Len(Append(s, x)) = Len(s) + 1 OBVIOUS
<1>3. DOMAIN Append(s, x) = 1..(Len(s) + 1) BY <1>2, LenProperties
<1>4. \A k \in 1..Len(s) : Append(s, x)[k] = s[k] BY <1>1
<1>5. Append(s, x)[Len(s) + 1] = x BY <1>1
<1>6. \A k \in 1..(Len(s) + 1) : k \in 1..Len(s) \/ k = Len(s) + 1 BY <1>1
<1>7. Len(s) + 1 \in 1..(Len(s) + 1) /\ \A k \in 1..Len(s) : k \in 1..(Len(s) + 1) BY <1>1
<1> QED BY <1>1, <1>2, <1>3, <1>4, <1>5, <1>6, <1>7

\* Two requests for one order have one code, unless the history names the order.
LEMMA SameCode ==
  ASSUME NEW e, NEW g, CodeOK(e, sheet, recoded), CodeOK(g, sheet, recoded), PairOK(e, g, overlapped, recoded),
         Runs(e), Runs(g), e.work.order = g.work.order, e.work.order \notin recoded,
         e.code # NoCode, g.code # NoCode
  PROVE  e.code = g.code
BY DEF CodeOK, PairOK, Gives

\* Writing a file keeps what is true of the rows, unless it has their name.
LEMMA WriteKeepsPaper ==
  ASSUME NEW path \in Paths, NEW page \in Pages, page.code # NoCode, file \in [Paths -> Pages],
         file' = [file EXCEPT ![path] = page],
         crowded' = IF file[path] # Blank THEN crowded \union {path} ELSE crowded,
         NEW x \in Slips, OnPaper(x, file, crowded)
  PROVE  /\ OnPaper(x, file', crowded')
         /\ x.path # path => file'[x.path] = file[x.path]
<1>1. x.path \in Paths BY DEF Slips
<1>2. page # Blank BY DEF Blank
<1>3. CASE x.path = path BY <1>1, <1>2, <1>3 DEF OnPaper
<1>4. CASE x.path # path BY <1>1, <1>4 DEF OnPaper
<1> QED BY <1>3, <1>4

\* Saving a document keeps the invariant: its file is written, its row waits.
LEMMA SaveKeeps ==
  ASSUME DocumentsInv, NEW p \in Printers, SaveDocument(p)
  PROVE  DocumentsInv'
<1> DEFINE o == printer[p]
           u == o.work.order
           f == Head(o.formats)
           path == Path(u, o.work.type, f)
           page == [revision |-> o.revision, code |-> o.code]
           r == [order |-> u, type |-> o.work.type, format |-> f, path |-> path,
                 revision |-> o.revision, copy |-> o.revision > 1]
           at == Onward(p)
           left == Tail(o.formats)
           rows == Append(o.rows, r)
           e == [o EXCEPT !.at = at, !.formats = left, !.rows = rows]
<1>1. /\ o.at = "coding" /\ o.code # NoCode
      /\ UNCHANGED <<sheet, documents, second, shown, overlapped, recoded>>
      /\ file' = [file EXCEPT ![path] = page]
      /\ crowded' = IF file[path] # Blank THEN crowded \union {path} ELSE crowded
      /\ printer' = [printer EXCEPT ![p].at = at, ![p].formats = Tail(@), ![p].rows = Append(@, r)]
  BY DEF SaveDocument, Where, Asks, Format
<1>2. /\ o \in PrinterRecord /\ ShapeOK(o) /\ SlipsOK(o) /\ RevOK(o, documents, overlapped)
      /\ FileOK(o, file, recoded, crowded) /\ CodeOK(o, sheet, recoded)
      /\ \A q \in Printers \ {p} : PairOK(o, printer[q], overlapped, recoded)
      /\ \A s \in shown : Unsaved(s, o)
  BY TurnTo DEF EntryOK
<1>3. DocumentTypeOK BY DEF DocumentsInv
<1>4. Runs(o) BY <1>1 DEF Runs
<1>5. o.formats \in Seq(Formats) /\ o.formats # <<>> /\ Once(o.formats) /\ o.work \in Papers
      /\ o.work.task # "summary"
  BY <1>1, <1>2, <1>4 DEF ShapeOK
<1>6. /\ left \in Seq(Formats) /\ (at = "counting" => left # <<>>) /\ Once(left)
      /\ \A i \in DOMAIN left : i + 1 \in DOMAIN o.formats /\ left[i] = o.formats[i + 1] /\ left[i] # f
      /\ f \in Formats /\ 1 \in DOMAIN o.formats /\ o.formats[1] = f
  BY <1>5, OnwardIs, PlacesLeft, OnceLeft
<1>7. at \in {"counting", "committing"} BY OnwardIs
<1>8. u \in Printed /\ o.work.type \in Types BY <1>5 DEF Papers
<1>9. path \in Paths /\ path[1] = u BY <1>3, <1>6, <1>8 DEF Paths, Path, DocumentTypeOK
<1>10. o.revision \in Nat /\ o.code \in AnyCode /\ o.rows \in Seq(Slips) BY <1>2 DEF PrinterRecord
<1>11. page \in Pages /\ page.code = o.code /\ page.revision = o.revision BY <1>10 DEF Pages
<1> HIDE DEF path
<1>12. /\ r \in Slips /\ r.order = u /\ r.type = o.work.type /\ r.format = f /\ r.path = path
       /\ r.revision = o.revision /\ r.copy = (o.revision > 1)
  BY <1>6, <1>8, <1>9, <1>10 DEF Slips
<1> HIDE DEF f, r, page
<1>13. rows \in Seq(Slips)
       /\ (\A k \in DOMAIN rows : (k \in DOMAIN o.rows /\ rows[k] = o.rows[k]) \/ (k = Len(o.rows) + 1 /\ rows[k] = r))
       /\ (\A k \in DOMAIN o.rows : k \in DOMAIN rows /\ rows[k] = o.rows[k])
       /\ Len(o.rows) + 1 \in DOMAIN rows /\ rows[Len(o.rows) + 1] = r
  BY <1>10, <1>12, RowsMore
<1>14. printer' = [printer EXCEPT ![p] = e]
  <2> HIDE DEF at
  <2> QED BY <1>1, <1>2
<1>15. /\ e \in PrinterRecord /\ e.at = at /\ e.formats = left /\ e.rows = rows /\ e.code = o.code
       /\ e.work = o.work /\ e.drew = o.drew /\ e.revision = o.revision
  <2> HIDE DEF at, left, rows
  <2> QED BY <1>2, <1>6, <1>7, <1>13 DEF PrinterRecord, Stages, AnyFormats
<1> HIDE DEF at, left, rows, e
<1>16. Runs(e) /\ (Gives(e) <=> Gives(o)) BY <1>4, <1>7, <1>15 DEF Runs, Gives
<1>17. e.at # "coding" /\ e.at # "start" /\ e.at # "printing" BY <1>7, <1>15
<1>18. TopicOf(r) = TopicNow(o) BY <1>12 DEF TopicOf, TopicNow, f
<1>19. page.code # NoCode BY <1>1, <1>11
<1>20. \A x \in Slips : OnPaper(x, file, crowded) =>
          OnPaper(x, file', crowded') /\ (x.path # path => file'[x.path] = file[x.path])
  BY <1>1, <1>3, <1>9, <1>11, <1>19, WriteKeepsPaper DEF DocumentTypeOK
<1>21. file'[path] = page /\ path \in DOMAIN file BY <1>1, <1>3, <1>9 DEF DocumentTypeOK
<1>22. OnPaper(r, file', crowded') BY <1>11, <1>12, <1>19, <1>21 DEF OnPaper, Blank
<1>23. EntryOK(e, sheet', documents', file', overlapped', recoded', crowded')
  <2>1. ShapeOK(e) BY <1>1, <1>2, <1>5, <1>6, <1>15, <1>16, <1>17 DEF ShapeOK
  <2>2. SlipsOK(e)
    <3>1. \A k \in DOMAIN rows :
            /\ rows[k].order = u /\ rows[k].type = o.work.type /\ rows[k].path[1] = u
            /\ \A i \in DOMAIN left : left[i] # rows[k].format
      BY <1>2, <1>4, <1>6, <1>9, <1>12, <1>13 DEF SlipsOK
    <3>2. \A k \in DOMAIN o.rows : o.rows[k].format # r.format
      BY <1>2, <1>4, <1>6, <1>12 DEF SlipsOK
    <3>3. \A k, l \in DOMAIN o.rows : o.rows[k].format = o.rows[l].format => k = l
      BY <1>2, <1>4 DEF SlipsOK
    <3>4. \A k, l \in DOMAIN rows : rows[k].format = rows[l].format => k = l
      BY <3>2, <3>3, <1>13
    <3> QED BY <3>1, <3>4, <1>15 DEF SlipsOK
  <2>3. RevOK(e, documents', overlapped')
    <3>1. TopicOf(r) \notin overlapped => NextNumber(documents, TopicOf(r), r.revision, r.copy)
      BY <1>1, <1>2, <1>4, <1>12, <1>18 DEF RevOK, NextNumber
    <3>2. \A k \in DOMAIN o.rows : TopicOf(o.rows[k]) \notin overlapped =>
            NextNumber(documents, TopicOf(o.rows[k]), o.rows[k].revision, o.rows[k].copy)
      BY <1>2, <1>4 DEF RevOK
    <3>3. \A k \in DOMAIN rows : TopicOf(rows[k]) \notin overlapped =>
            NextNumber(documents, TopicOf(rows[k]), rows[k].revision, rows[k].copy)
      BY <3>1, <3>2, <1>13
    <3> QED BY <3>3, <1>1, <1>15, <1>17 DEF RevOK
  <2>4. FileOK(e, file', recoded', crowded')
    <3> SUFFICES ASSUME NEW k \in DOMAIN rows
                 PROVE  OnPaper(rows[k], file', crowded')
                        /\ (u \notin recoded => file'[rows[k].path].code = o.code)
      BY <1>1, <1>15 DEF FileOK
    <3>1. CASE rows[k] = r BY <3>1, <1>11, <1>12, <1>21, <1>22
    <3>2. CASE k \in DOMAIN o.rows /\ rows[k] = o.rows[k]
      <4>1. o.rows[k] \in Slips BY <3>2, <1>10
      <4>2. OnPaper(o.rows[k], file, crowded) /\ (u \notin recoded => file[o.rows[k].path].code = o.code)
        BY <3>2, <1>2, <1>4 DEF FileOK
      <4> QED BY <4>1, <4>2, <3>2, <1>11, <1>20, <1>21
    <3> QED BY <3>1, <3>2, <1>13
  <2>5. CodeOK(e, sheet', recoded')
    <3>1. ~ (e.drew /\ \E v \in Printed : sheet[v].code = e.code)
      BY <1>1, <1>2, <1>15 DEF CodeOK
    <3> QED BY <3>1, <1>1, <1>2, <1>4, <1>15, <1>16 DEF CodeOK
  <2> QED BY <2>1, <2>2, <2>3, <2>4, <2>5 DEF EntryOK
<1>24. \A q \in Printers \ {p} :
         EntryOK(printer[q], sheet', documents', file', overlapped', recoded', crowded')
  <2> TAKE q \in Printers \ {p}
  <2> DEFINE g == printer[q]
  <2>1. /\ g \in PrinterRecord /\ ShapeOK(g) /\ SlipsOK(g) /\ RevOK(g, documents, overlapped)
        /\ FileOK(g, file, recoded, crowded) /\ CodeOK(g, sheet, recoded)
    BY TurnTo DEF EntryOK
  <2>2. PairOK(o, g, overlapped, recoded) BY <1>2
  <2> HIDE DEF g
  <2>3. FileOK(g, file', recoded', crowded')
    <3> SUFFICES ASSUME Runs(g), NEW k \in DOMAIN g.rows
                 PROVE  OnPaper(g.rows[k], file', crowded')
                        /\ (g.work.order \notin recoded => file'[g.rows[k].path].code = g.code)
      BY <1>1 DEF FileOK
    <3>1. g.rows[k] \in Slips BY <2>1 DEF PrinterRecord
    <3>2. OnPaper(g.rows[k], file, crowded) /\ (g.work.order \notin recoded => file[g.rows[k].path].code = g.code)
      BY <2>1 DEF FileOK
    <3>3. g.rows[k].path = path => g.work.order = u BY <2>1, <1>9 DEF SlipsOK
    <3>4. g.code # NoCode BY <2>1 DEF ShapeOK
    <3>5. g.rows[k].path = path /\ u \notin recoded => o.code = g.code
      <4> SUFFICES ASSUME g.rows[k].path = path, u \notin recoded PROVE o.code = g.code OBVIOUS
      <4>1. o.work.order = g.work.order BY <3>3
      <4>2. CodeOK(o, sheet, recoded) /\ CodeOK(g, sheet, recoded) BY <1>2, <2>1
      <4> HIDE DEF o
      <4> DEFINE w == u
      <4> QED BY <4>1, <4>2, <2>2, <1>4, <1>1, <3>4, SameCode
    <3> QED BY <3>1, <3>2, <3>3, <3>5, <1>11, <1>20, <1>21
  <2> QED BY <2>1, <2>3, <1>1 DEF EntryOK, g
<1>25. \A q \in Printers \ {p} : PairOK(e, printer[q], overlapped', recoded')
  <2> TAKE q \in Printers \ {p}
  <2>1. PairOK(o, printer[q], overlapped, recoded) BY <1>2
  <2>2. \A t : Relies(e, t) => Relies(o, t) BY <1>1, <1>13, <1>15, <1>17, <1>18 DEF Relies
  <2> QED BY <2>1, <2>2, <1>1, <1>4, <1>15, <1>16 DEF PairOK
<1>26. FilesOK(documents', sheet', file', recoded', crowded')
  <2> SUFFICES ASSUME NEW i \in DOMAIN documents
               PROVE  /\ OnPaper(documents[i], file', crowded') /\ documents[i].path[1] = documents[i].order
                      /\ documents[i].order \notin recoded =>
                           file'[documents[i].path].code = sheet[documents[i].order].code
                           /\ sheet[documents[i].order].code # NoCode
    BY <1>1 DEF FilesOK
  <2> DEFINE d == documents[i]
  <2>1. d \in Slips BY <1>3 DEF DocumentTypeOK
  <2>2. /\ OnPaper(d, file, crowded) /\ d.path[1] = d.order
        /\ d.order \notin recoded =>
             file[d.path].code = sheet[d.order].code /\ sheet[d.order].code # NoCode
    BY DEF DocumentsInv, FilesOK
  <2>3. d.path = path => d.order = u BY <2>2, <1>9
  <2>4. d.path = path /\ u \notin recoded => o.code = sheet[u].code
    BY <2>2, <2>3, <1>1, <1>2, <1>4 DEF CodeOK, Gives
  <2> HIDE DEF d
  <2>5. d.path # path => file'[d.path] = file[d.path] BY <2>1, <2>2, <1>20
  <2>6. OnPaper(d, file', crowded') BY <2>1, <2>2, <1>20
  <2>7. d.order \notin recoded => file'[d.path].code = sheet[d.order].code
    BY <2>2, <2>3, <2>4, <2>5, <1>11, <1>21
  <2> QED BY <2>2, <2>6, <2>7 DEF d
<1>27. /\ RevsOK(documents', overlapped') /\ CodesOK(sheet')
       /\ \A s \in shown' : Leads(s, sheet', recoded') /\ Unsaved(s, e)
       /\ \A s \in shown', q \in Printers \ {p} : Unsaved(s, printer[q])
  BY <1>1, <1>2, <1>15 DEF DocumentsInv, Unsaved
<1>28. /\ sheet' \in [Printed -> Sheets] /\ documents' \in Seq(Slips) /\ file' \in [Paths -> Pages]
       /\ shown' \subseteq [order : Printed, code : AnyCode, drawn : BOOLEAN] /\ second' = second
  BY <1>1, <1>3, <1>9, <1>11 DEF DocumentTypeOK
<1>29. overlapped \subseteq overlapped' /\ recoded \subseteq recoded' /\ crowded \subseteq crowded' BY <1>1
<1> HIDE DEF o
<1> QED BY <1>14, <1>15, <1>23, <1>24, <1>25, <1>26, <1>27, <1>28, <1>29, TurnKeeps

\* What a request has counted are documents of orders.
LEMMA TopicsIn ==
  ASSUME NEW e \in PrinterRecord, ShapeOK(e), Runs(e)
  PROVE  /\ \A k \in DOMAIN e.rows : TopicOf(e.rows[k]) \in Printed \X Types \X Formats
         /\ e.at = "coding" => TopicNow(e) \in Printed \X Types \X Formats
<1>1. \A k \in DOMAIN e.rows : e.rows[k] \in Slips BY DEF PrinterRecord
<1>2. \A r \in Slips : TopicOf(r) \in Printed \X Types \X Formats BY DEF Slips, TopicOf
<1>3. e.work \in Papers /\ e.formats \in Seq(Formats) BY DEF ShapeOK, Runs
<1>4. e.at = "coding" => Head(e.formats) \in Formats BY <1>3, PlacesLeft DEF ShapeOK
<1> QED BY <1>1, <1>2, <1>3, <1>4 DEF TopicNow, Papers

\* The committed rows, followed by those that waited.
LEMMA Joined ==
  ASSUME NEW s \in Seq(Slips), NEW t \in Seq(Slips)
  PROVE  /\ s \o t \in Seq(Slips) /\ Len(s) \in Nat /\ DOMAIN s = 1..Len(s) /\ DOMAIN t = 1..Len(t)
         /\ \A i \in DOMAIN s : i \in DOMAIN (s \o t) /\ (s \o t)[i] = s[i]
         /\ \A k \in DOMAIN t : Len(s) + k \in DOMAIN (s \o t) /\ (s \o t)[Len(s) + k] = t[k]
         /\ \A i \in DOMAIN (s \o t) : i \in DOMAIN s \/ \E k \in DOMAIN t : i = Len(s) + k
<1>1. /\ s \o t \in Seq(Slips) /\ Len(s \o t) = Len(s) + Len(t)
      /\ \A i \in 1..(Len(s) + Len(t)) : (s \o t)[i] = IF i <= Len(s) THEN s[i] ELSE t[i - Len(s)]
  BY ConcatProperties
<1>2. Len(s) \in Nat /\ Len(t) \in Nat /\ DOMAIN s = 1..Len(s) /\ DOMAIN t = 1..Len(t) BY LenProperties
<1>3. DOMAIN (s \o t) = 1..(Len(s) + Len(t)) BY <1>1, LenProperties
<1> DEFINE m == Len(s)
           n == Len(t)
           j == s \o t
<1> HIDE DEF m, n, j
<1>4. \A i \in 1..m : i \in 1..(m + n) /\ i <= m BY <1>2 DEF m, n
<1>5. \A k \in 1..n : m + k \in 1..(m + n) /\ ~(m + k <= m) /\ m + k - m = k BY <1>2 DEF m, n
<1>6. \A i \in 1..(m + n) : i \in 1..m \/ (i - m \in 1..n /\ i = m + (i - m)) BY <1>2 DEF m, n
<1>7. \A i \in 1..m : j[i] = s[i] BY <1>1, <1>4 DEF m, n, j
<1>8. \A k \in 1..n : j[m + k] = t[k] BY <1>1, <1>5 DEF m, n, j
<1>9. DOMAIN j = 1..(m + n) /\ DOMAIN s = 1..m /\ DOMAIN t = 1..n BY <1>2, <1>3 DEF m, n, j
<1>10. \A i \in DOMAIN s : i \in DOMAIN j /\ j[i] = s[i] BY <1>4, <1>7, <1>9
<1>11. \A k \in DOMAIN t : m + k \in DOMAIN j /\ j[m + k] = t[k] BY <1>5, <1>8, <1>9
<1>12. \A i \in DOMAIN j : i \in DOMAIN s \/ \E k \in DOMAIN t : i = m + k BY <1>6, <1>9
<1> QED BY <1>1, <1>2, <1>10, <1>11, <1>12 DEF m, j

\* How many of them are documents of one kind.
LEMMA RowsJoined ==
  ASSUME NEW s \in Seq(Slips), NEW t \in Seq(Slips), NEW topic
  PROVE  /\ (\A k \in DOMAIN t : TopicOf(t[k]) # topic) => RowsIn(s \o t, topic) = RowsIn(s, topic)
         /\ \A i \in DOMAIN s :
              {j \in RowsIn(s \o t, topic) : j <= i} = {j \in RowsIn(s, topic) : j <= i}
         /\ \A k \in DOMAIN t :
              (TopicOf(t[k]) = topic /\ \A l \in DOMAIN t : TopicOf(t[l]) = topic => l = k)
              => Cardinality({j \in RowsIn(s \o t, topic) : j <= Len(s) + k}) = Cardinality(RowsIn(s, topic)) + 1
<1> DEFINE u == s \o t
           m == Len(s)
<1>1. /\ m \in Nat /\ DOMAIN s = 1..m /\ DOMAIN t = 1..Len(t) /\ Len(t) \in Nat
      /\ \A i \in DOMAIN s : i \in DOMAIN u /\ u[i] = s[i]
      /\ \A k \in DOMAIN t : m + k \in DOMAIN u /\ u[m + k] = t[k]
      /\ \A i \in DOMAIN u : i \in DOMAIN s \/ \E k \in DOMAIN t : i = m + k
  BY Joined, LenProperties
<1>2. \A i \in DOMAIN s : i \in Nat /\ i <= m BY <1>1
<1>3. \A k \in DOMAIN t : k \in Nat /\ k >= 1 BY <1>1
<1> HIDE DEF u, m
<1>4. ASSUME \A k \in DOMAIN t : TopicOf(t[k]) # topic PROVE RowsIn(u, topic) = RowsIn(s, topic)
  BY <1>1, <1>4 DEF RowsIn
<1>5. ASSUME NEW i \in DOMAIN s
      PROVE  {j \in RowsIn(u, topic) : j <= i} = {j \in RowsIn(s, topic) : j <= i}
  <2>1. \A j \in DOMAIN u : j <= i => j \in DOMAIN s
    <3> TAKE j \in DOMAIN u
    <3>1. \A k \in DOMAIN t : ~ (m + k <= i) BY <1>1, <1>2, <1>3
    <3> QED BY <1>1, <3>1
  <2> QED BY <1>1, <2>1 DEF RowsIn
<1>6. ASSUME NEW k \in DOMAIN t, TopicOf(t[k]) = topic, \A l \in DOMAIN t : TopicOf(t[l]) = topic => l = k
      PROVE  Cardinality({j \in RowsIn(u, topic) : j <= m + k}) = Cardinality(RowsIn(s, topic)) + 1
  <2> DEFINE R == RowsIn(s, topic)
             T == {j \in RowsIn(u, topic) : j <= m + k}
  <2>1. IsFiniteSet(R) /\ R \subseteq DOMAIN s BY <1>1, RowsFinite DEF m
  <2>2. \A j \in DOMAIN u : TopicOf(u[j]) = topic => j \in R \/ j = m + k BY <1>1, <1>6 DEF RowsIn
  <2>3. \A j \in R : j \in DOMAIN u /\ TopicOf(u[j]) = topic /\ j <= m + k
    <3>1. \A j \in R : j \in DOMAIN s /\ TopicOf(s[j]) = topic BY DEF RowsIn
    <3>2. \A j \in DOMAIN s : j <= m + k BY <1>1, <1>2, <1>3
    <3> HIDE DEF R
    <3> QED BY <1>1, <3>1, <3>2
  <2>4. m + k \in DOMAIN u /\ TopicOf(u[m + k]) = topic /\ m + k <= m + k BY <1>1, <1>3, <1>6
  <2>5. T = R \cup {m + k} BY <2>2, <2>3, <2>4 DEF RowsIn
  <2>6. m + k \notin R
    <3>1. ~ (m + k <= m) BY <1>1, <1>3
    <3> QED BY <2>1, <3>1, <1>2
  <2> HIDE DEF R, T
  <2>7. Cardinality(R \cup {m + k}) = Cardinality(R) + 1 BY <2>1, <2>6, FS_AddElement
  <2>8. Cardinality(T) = Cardinality(R) + 1 BY <2>5, <2>7
  <2> QED BY <2>8 DEF T, R
<1> QED BY <1>4, <1>5, <1>6 DEF u, m

\* What the commit leaves on the sheet of its order.
LEMMA CommitEffect ==
  ASSUME DocumentsInv, NEW p \in Printers, CommitDocuments(p)
  PROVE  /\ printer[p].at = "committing" /\ printer[p].work \in Papers /\ printer[p].work.order \in Printed
         /\ sheet' \in [Printed -> Sheets] /\ documents' = documents \o printer[p].rows
         /\ sheet'[printer[p].work.order].code =
              IF printer[p].drew THEN printer[p].code ELSE sheet[printer[p].work.order].code
         /\ \A v \in Printed : v # printer[p].work.order => sheet'[v] = sheet[v]
         /\ UNCHANGED <<file, second, shown, overlapped, recoded, crowded>>
         /\ printer' = [printer EXCEPT ![p].at = "ended"]
<1> DEFINE o == printer[p]
           u == o.work.order
           status == IF o.work.task = "deliver" THEN "delivered" ELSE sheet[u].status
           code == IF o.drew THEN o.code ELSE sheet[u].code
           n == [status |-> status, code |-> code]
<1>1. o.at = "committing" /\ documents' = documents \o o.rows
      /\ UNCHANGED <<file, second, shown, overlapped, recoded, crowded>>
      /\ printer' = [printer EXCEPT ![p].at = "ended"]
  BY DEF CommitDocuments, Where
<1>2. o \in PrinterRecord /\ ShapeOK(o) BY TurnTo DEF EntryOK
<1>3. o.work \in Papers /\ u \in Printed BY <1>1, <1>2 DEF ShapeOK, Papers
<1>4. sheet \in [Printed -> Sheets] BY DEF DocumentsInv, DocumentTypeOK
<1>5. sheet' = [sheet EXCEPT ![u] = [status |-> IF o.work.task = "deliver" THEN "delivered" ELSE @.status,
                                     code |-> IF o.drew THEN o.code ELSE @.code]]
  BY DEF CommitDocuments, Asks
<1>6. sheet' = [sheet EXCEPT ![u] = n] BY <1>5
<1>7. status \in AnyStatus /\ code \in AnyCode BY <1>2, <1>3, <1>4 DEF Sheets, AnyStatus, PrinterRecord
<1>8. n \in Sheets /\ n.code = code
  <2> HIDE DEF status, code
  <2> QED BY <1>7 DEF Sheets
<1> HIDE DEF n
<1>9. sheet' \in [Printed -> Sheets] /\ sheet'[u] = n /\ \A v \in Printed : v # u => sheet'[v] = sheet[v]
  BY <1>3, <1>4, <1>6, <1>8
<1> QED BY <1>1, <1>3, <1>8, <1>9

\* The commit keeps the invariant: the rows get the numbers they were counted for, the order
\* gets the code its files show.
LEMMA CommitKeeps ==
  ASSUME DocumentsInv, NEW p \in Printers, CommitDocuments(p)
  PROVE  DocumentsInv'
<1> DEFINE o == printer[p]
           u == o.work.order
           e == [o EXCEPT !.at = "ended"]
           docs == documents \o o.rows
<1>1. /\ o.at = "committing" /\ o.work \in Papers /\ u \in Printed
      /\ sheet' \in [Printed -> Sheets] /\ documents' = docs
      /\ sheet'[u].code = IF o.drew THEN o.code ELSE sheet[u].code
      /\ \A v \in Printed : v # u => sheet'[v] = sheet[v]
      /\ UNCHANGED <<file, second, shown, overlapped, recoded, crowded>>
      /\ printer' = [printer EXCEPT ![p].at = "ended"]
  BY CommitEffect
<1>2. /\ o \in PrinterRecord /\ ShapeOK(o) /\ SlipsOK(o) /\ RevOK(o, documents, overlapped)
      /\ FileOK(o, file, recoded, crowded) /\ CodeOK(o, sheet, recoded)
      /\ \A q \in Printers \ {p} : PairOK(o, printer[q], overlapped, recoded)
      /\ \A s \in shown : Unsaved(s, o)
  BY TurnTo DEF EntryOK
<1>3. DocumentTypeOK BY DEF DocumentsInv
<1>4. Runs(o) BY <1>1 DEF Runs
<1>5. o.work.task # "summary" /\ (o.drew => o.code # NoCode) /\ (o.rows # <<>> => o.code # NoCode)
  BY <1>2, <1>4 DEF ShapeOK
<1>6. printer' = [printer EXCEPT ![p] = e] BY <1>1
<1>7. e \in PrinterRecord /\ e.at = "ended" /\ e.work = o.work /\ e.code = o.code /\ e.drew = o.drew
       /\ e.rows = o.rows
  BY <1>2 DEF PrinterRecord, Stages
<1> HIDE DEF e
<1>8. ~Runs(e) /\ ~Gives(e) BY <1>7 DEF Runs, Gives
<1>9. documents \in Seq(Slips) /\ o.rows \in Seq(Slips) BY <1>2, <1>3 DEF DocumentTypeOK, PrinterRecord
<1>10. /\ docs \in Seq(Slips)
       /\ \A i \in DOMAIN documents : i \in DOMAIN docs /\ docs[i] = documents[i]
       /\ \A k \in DOMAIN o.rows : docs[Len(documents) + k] = o.rows[k]
       /\ \A i \in DOMAIN docs : i \in DOMAIN documents \/ \E k \in DOMAIN o.rows : i = Len(documents) + k
  BY <1>9, Joined
<1>11. /\ \A t : (\A k \in DOMAIN o.rows : TopicOf(o.rows[k]) # t) => RowsIn(docs, t) = RowsIn(documents, t)
       /\ \A t : \A i \in DOMAIN documents :
            {j \in RowsIn(docs, t) : j <= i} = {j \in RowsIn(documents, t) : j <= i}
       /\ \A t : \A k \in DOMAIN o.rows :
            (TopicOf(o.rows[k]) = t /\ \A l \in DOMAIN o.rows : TopicOf(o.rows[l]) = t => l = k)
            => Cardinality({j \in RowsIn(docs, t) : j <= Len(documents) + k}) = Cardinality(RowsIn(documents, t)) + 1
  BY <1>9, RowsJoined
<1> HIDE DEF docs
\* The code its order had stays, or the order had none.
<1>12. u \notin recoded => sheet'[u].code = sheet[u].code \/ sheet[u].code = NoCode
  BY <1>1, <1>2, <1>4 DEF CodeOK, Gives
<1>13. \A v \in Printed : sheet'[v].code = sheet[v].code \/ (v = u /\ o.drew /\ sheet'[v].code = o.code)
  BY <1>1
<1>14. ~ (o.drew /\ \E v \in Printed : sheet[v].code = o.code)
  BY <1>1, <1>2 DEF CodeOK
<1>15. EntryOK(e, sheet', documents', file', overlapped', recoded', crowded')
  <2>1. ShapeOK(e) BY <1>1, <1>2, <1>7, <1>8 DEF ShapeOK
  <2>2. SlipsOK(e) /\ RevOK(e, documents', overlapped') /\ FileOK(e, file', recoded', crowded')
    BY <1>8 DEF SlipsOK, RevOK, FileOK
  <2>3. \A v \in Printed : e.drew /\ sheet'[v].code = e.code => v = u
    BY <1>7, <1>13, <1>14
  <2>4. CodeOK(e, sheet', recoded') BY <1>5, <1>7, <1>8, <2>3 DEF CodeOK
  <2> QED BY <2>1, <2>2, <2>4 DEF EntryOK
<1>16. \A q \in Printers \ {p} :
         EntryOK(printer[q], sheet', documents', file', overlapped', recoded', crowded')
  <2> TAKE q \in Printers \ {p}
  <2> DEFINE g == printer[q]
  <2>1. /\ g \in PrinterRecord /\ ShapeOK(g) /\ SlipsOK(g) /\ RevOK(g, documents, overlapped)
        /\ FileOK(g, file, recoded, crowded) /\ CodeOK(g, sheet, recoded)
    BY TurnTo DEF EntryOK
  <2>2. PairOK(o, g, overlapped, recoded) BY <1>2
  <2> HIDE DEF g
  <2>3. RevOK(g, documents', overlapped')
    <3> SUFFICES ASSUME Runs(g) PROVE RevOK(g, docs, overlapped) BY <1>1 DEF RevOK
    <3>1. \A t \in Printed \X Types \X Formats : Relies(g, t) /\ t \notin overlapped
             => RowsIn(docs, t) = RowsIn(documents, t)
      <4> SUFFICES ASSUME NEW t \in Printed \X Types \X Formats, Relies(g, t), t \notin overlapped
                   PROVE  RowsIn(docs, t) = RowsIn(documents, t)
        OBVIOUS
      <4>1. ~Relies(o, t) BY <1>4, <2>2 DEF PairOK
      <4> QED BY <4>1, <1>11 DEF Relies
    <3>2. /\ \A k \in DOMAIN g.rows : TopicOf(g.rows[k]) \in Printed \X Types \X Formats /\ Relies(g, TopicOf(g.rows[k]))
          /\ g.at = "coding" => TopicNow(g) \in Printed \X Types \X Formats /\ Relies(g, TopicNow(g))
      BY <2>1, TopicsIn DEF Relies
    <3>3. \A k \in DOMAIN g.rows : TopicOf(g.rows[k]) \notin overlapped =>
             NextNumber(docs, TopicOf(g.rows[k]), g.rows[k].revision, g.rows[k].copy)
      BY <2>1, <3>1, <3>2 DEF RevOK, NextNumber
    <3>4. g.at = "coding" /\ TopicNow(g) \notin overlapped => g.revision = Cardinality(RowsIn(docs, TopicNow(g))) + 1
      BY <2>1, <3>1, <3>2 DEF RevOK
    <3> QED BY <3>3, <3>4 DEF RevOK
  <2>4. CodeOK(g, sheet', recoded')
    <3>1. g.work.order \notin recoded /\ Gives(g) => g.work.order \in Printed /\ sheet'[g.work.order].code = NoCode
      <4> SUFFICES ASSUME g.work.order \notin recoded, Gives(g)
                   PROVE  g.work.order \in Printed /\ sheet'[g.work.order].code = NoCode
        OBVIOUS
      <4>1. g.work.order \in Printed BY <2>1 DEF ShapeOK, Gives, Runs, Papers
      <4>2. sheet[g.work.order].code = NoCode BY <2>1 DEF CodeOK
      <4>3. g.work.order = u => ~o.drew BY <2>2, <1>4 DEF PairOK, Gives
      <4> QED BY <4>1, <4>2, <4>3, <1>13
    <3>2. g.work.order \notin recoded /\ (Runs(g) \/ g.at = "printing") /\ ~g.drew /\ g.code # NoCode
            => g.code = sheet'[g.work.order].code
      <4> SUFFICES ASSUME g.work.order \notin recoded, Runs(g) \/ g.at = "printing", ~g.drew, g.code # NoCode
                   PROVE  g.code = sheet'[g.work.order].code
        OBVIOUS
      <4>1. g.work.order \in Printed BY <2>1 DEF ShapeOK, Runs, Papers
      <4>2. g.code = sheet[g.work.order].code BY <2>1 DEF CodeOK
      <4> QED BY <4>1, <4>2, <1>1, <1>12
    <3>3. \A v \in Printed : g.drew /\ sheet'[v].code = g.code
                               => v = g.work.order /\ g.at = "ended" /\ g.work.task # "summary"
      <4> TAKE v \in Printed
      <4>1. g.drew /\ o.drew => g.code # o.code BY <2>2 DEF PairOK
      <4> QED BY <4>1, <1>13, <2>1 DEF CodeOK
    <3> QED BY <3>1, <3>2, <3>3, <1>1 DEF CodeOK
  <2>5. FileOK(g, file', recoded', crowded') BY <1>1, <2>1
  <2> QED BY <2>1, <2>3, <2>4, <2>5, <1>1 DEF EntryOK, g
<1>17. \A q \in Printers \ {p} : PairOK(e, printer[q], overlapped', recoded')
  <2> TAKE q \in Printers \ {p}
  <2>1. PairOK(o, printer[q], overlapped, recoded) BY <1>2
  <2> QED BY <2>1, <1>7, <1>8 DEF PairOK
<1>18. RevsOK(documents', overlapped')
  <2> SUFFICES ASSUME NEW i \in DOMAIN docs, TopicOf(docs[i]) \notin overlapped
               PROVE  /\ docs[i].revision = Cardinality({j \in RowsIn(docs, TopicOf(docs[i])) : j <= i})
                      /\ docs[i].copy = (docs[i].revision > 1)
    BY <1>1 DEF RevsOK
  <2>1. CASE i \in DOMAIN documents
    <3>1. docs[i] = documents[i] BY <2>1, <1>10
    <3>2. /\ documents[i].revision = Cardinality({j \in RowsIn(documents, TopicOf(documents[i])) : j <= i})
          /\ documents[i].copy = (documents[i].revision > 1)
      BY <2>1, <3>1 DEF DocumentsInv, RevsOK
    <3>3. {j \in RowsIn(docs, TopicOf(documents[i])) : j <= i} = {j \in RowsIn(documents, TopicOf(documents[i])) : j <= i}
      BY <2>1, <1>11
    <3> QED BY <3>1, <3>2, <3>3
  <2>2. ASSUME NEW k \in DOMAIN o.rows, i = Len(documents) + k
        PROVE  /\ docs[i].revision = Cardinality({j \in RowsIn(docs, TopicOf(docs[i])) : j <= i})
               /\ docs[i].copy = (docs[i].revision > 1)
    <3>1. docs[i] = o.rows[k] BY <2>2, <1>10
    <3>2. NextNumber(documents, TopicOf(o.rows[k]), o.rows[k].revision, o.rows[k].copy)
      BY <3>1, <1>2, <1>4 DEF RevOK
    <3>3. \A l \in DOMAIN o.rows : TopicOf(o.rows[l]) = TopicOf(o.rows[k]) => l = k
      BY <1>2, <1>4 DEF SlipsOK, TopicOf
    <3>4. Cardinality({j \in RowsIn(docs, TopicOf(o.rows[k])) : j <= Len(documents) + k})
            = Cardinality(RowsIn(documents, TopicOf(o.rows[k]))) + 1
      BY <3>3, <1>11
    <3> QED BY <2>2, <3>1, <3>2, <3>4 DEF NextNumber
  <2> QED BY <2>1, <2>2, <1>10
<1>19. FilesOK(documents', sheet', file', recoded', crowded')
  <2> SUFFICES ASSUME NEW i \in DOMAIN docs
               PROVE  /\ OnPaper(docs[i], file, crowded) /\ docs[i].path[1] = docs[i].order
                      /\ docs[i].order \notin recoded =>
                           file[docs[i].path].code = sheet'[docs[i].order].code /\ sheet'[docs[i].order].code # NoCode
    BY <1>1 DEF FilesOK
  <2>1. docs[i] \in Slips BY <1>10
  <2>2. docs[i].order \in Printed BY <2>1 DEF Slips
  <2>3. CASE i \in DOMAIN documents
    <3>1. docs[i] = documents[i] BY <2>3, <1>10
    <3>2. /\ OnPaper(documents[i], file, crowded) /\ documents[i].path[1] = documents[i].order
          /\ documents[i].order \notin recoded =>
               file[documents[i].path].code = sheet[documents[i].order].code /\ sheet[documents[i].order].code # NoCode
      BY <2>3 DEF DocumentsInv, FilesOK
    <3> QED BY <3>1, <3>2, <2>2, <1>1, <1>12
  <2>4. ASSUME NEW k \in DOMAIN o.rows, i = Len(documents) + k
        PROVE  /\ OnPaper(docs[i], file, crowded) /\ docs[i].path[1] = docs[i].order
               /\ docs[i].order \notin recoded =>
                    file[docs[i].path].code = sheet'[docs[i].order].code /\ sheet'[docs[i].order].code # NoCode
    <3>1. docs[i] = o.rows[k] BY <2>4, <1>10
    <3>2. o.rows[k].order = u /\ o.rows[k].path[1] = u BY <1>2, <1>4 DEF SlipsOK
    <3>3. OnPaper(o.rows[k], file, crowded) /\ (u \notin recoded => file[o.rows[k].path].code = o.code)
      BY <1>2, <1>4 DEF FileOK
    <3>4. o.code # NoCode BY <1>5
    <3>5. u \notin recoded => o.code = sheet'[u].code
      BY <3>4, <1>1, <1>2, <1>4 DEF CodeOK
    <3> QED BY <3>1, <3>2, <3>3, <3>4, <3>5
  <2> QED BY <2>3, <2>4, <1>10
<1>20. CodesOK(sheet')
  <2>1. CodesOK(sheet) BY DEF DocumentsInv
  <2> SUFFICES ASSUME NEW v \in Printed, NEW w \in Printed, sheet'[v].code = sheet'[w].code
               PROVE  v = w \/ sheet'[v].code = NoCode
    BY DEF CodesOK
  <2> QED BY <2>1, <1>13, <1>14 DEF CodesOK
<1>21. \A s \in shown' : Leads(s, sheet', recoded') /\ Unsaved(s, e)
  <2> TAKE s \in shown'
  <2>1. s \in shown /\ s.order \in Printed BY <1>1, <1>3 DEF DocumentTypeOK
  <2>2. Leads(s, sheet, recoded) /\ Unsaved(s, o) BY <2>1, <1>2 DEF DocumentsInv
  <2>3. s.drawn => \A v \in Printed : sheet'[v].code # s.code
    BY <2>2, <1>5, <1>13 DEF Leads, Unsaved
  <2>4. ~s.drawn => s.order \in recoded \/ (sheet'[s.order].code = s.code /\ s.code # NoCode)
    BY <2>1, <2>2, <1>1, <1>12 DEF Leads
  <2> QED BY <2>2, <2>3, <2>4, <1>1, <1>7 DEF Leads, Unsaved
<1>22. \A s \in shown', q \in Printers \ {p} : Unsaved(s, printer[q]) BY <1>1 DEF DocumentsInv
<1>23. /\ documents' \in Seq(Slips) /\ file' \in [Paths -> Pages]
       /\ shown' \subseteq [order : Printed, code : AnyCode, drawn : BOOLEAN] /\ second' = second
       /\ overlapped \subseteq overlapped' /\ recoded \subseteq recoded' /\ crowded \subseteq crowded'
  BY <1>1, <1>3, <1>10 DEF DocumentTypeOK
<1> HIDE DEF o
<1> QED BY <1>1, <1>6, <1>7, <1>15, <1>16, <1>17, <1>18, <1>19, <1>20, <1>21, <1>22, <1>23, TurnKeeps

\* A second that passes keeps the invariant.
LEMMA StillKeeps ==
  ASSUME DocumentsInv, second' \in 0..LastSecond,
         UNCHANGED <<sheet, documents, file, printer, shown, overlapped, recoded, crowded>>
  PROVE  DocumentsInv'
<1>1. DocumentTypeOK' BY DEF DocumentsInv, DocumentTypeOK
<1>2. \A p \in Printers : EntryOK(printer[p], sheet, documents, file, overlapped, recoded, crowded)'
  BY DEF DocumentsInv
<1>3. \A p, q \in Printers : p # q => PairOK(printer[p], printer[q], overlapped, recoded)'
  BY DEF DocumentsInv
<1>4. (RevsOK(documents, overlapped) /\ FilesOK(documents, sheet, file, recoded, crowded) /\ CodesOK(sheet))'
  BY DEF DocumentsInv
<1>5. \A s \in shown' : Leads(s, sheet', recoded') BY DEF DocumentsInv
<1>6. \A s \in shown', p \in Printers : Unsaved(s, printer'[p]) BY DEF DocumentsInv
<1> QED BY <1>1, <1>2, <1>3, <1>4, <1>5, <1>6 DEF DocumentsInv

\* The invariant holds at the start.
LEMMA DocumentsStart == ASSUME DocumentInit PROVE DocumentsInv
<1>1. PICK w \in PrintWork :
        printer = [p \in Printers |->
                     [work |-> w[p], at |-> "start", formats |-> w[p].formats, status |-> "none",
                      code |-> NoCode, drew |-> FALSE, revision |-> 0, rows |-> <<>>]]
  BY DEF DocumentInit
<1>2. sheet = Fresh /\ documents = <<>> /\ second = 0 /\ file = [f \in Paths |-> Blank]
      /\ shown = {} /\ overlapped = {} /\ recoded = {} /\ crowded = {}
  BY DEF DocumentInit
<1>3. \A p \in Printers : w[p] \in AnyWork BY DEF AnyWork
<1>4. \A p \in Printers : w[p].formats \in AnyFormats BY <1>3 DEF AnyFormats
<1>5. <<>> \in Seq(Slips) BY EmptySeq
<1>6. printer \in [Printers -> PrinterRecord]
  <2> SUFFICES ASSUME NEW p \in Printers PROVE printer[p] \in PrinterRecord BY <1>1
  <2> QED BY <1>1, <1>3, <1>4, <1>5 DEF PrinterRecord, Stages, AnyStatus, AnyCode
<1>7. \A o \in Printed : Fresh[o].status \in AnyStatus /\ Fresh[o].code \in AnyCode
  BY DEF AnyStatus, AnyCode
<1>8. sheet \in [Printed -> Sheets]
  <2>1. \A o \in Printed : [status |-> Fresh[o].status, code |-> Fresh[o].code] \in Sheets BY <1>7 DEF Sheets
  <2>2. Fresh = [o \in Printed |-> [status |-> Fresh[o].status, code |-> Fresh[o].code]] BY FreshAssumption
  <2> QED BY <1>2, <2>1, <2>2, Zenon
<1>9. 0 \in 0..LastSecond BY CodesAssumption
<1>10. Blank \in Pages BY DEF Blank, Pages, AnyCode
<1>11. DocumentTypeOK BY <1>2, <1>5, <1>6, <1>8, <1>9, <1>10 DEF DocumentTypeOK
<1>12. \A p \in Printers : /\ printer[p].at = "start" /\ printer[p].code = NoCode /\ ~printer[p].drew
                           /\ printer[p].rows = <<>> /\ printer[p].formats = printer[p].work.formats
  BY <1>1
<1>13. \A p \in Printers : EntryOK(printer[p], sheet, documents, file, overlapped, recoded, crowded)
  <2> TAKE p \in Printers
  <2>1. ~Runs(printer[p]) /\ ~Gives(printer[p]) BY <1>12 DEF Runs, Gives
  <2>2. ShapeOK(printer[p]) BY <1>12, <2>1 DEF ShapeOK
  <2>3. SlipsOK(printer[p]) /\ RevOK(printer[p], documents, overlapped) /\ FileOK(printer[p], file, recoded, crowded)
    BY <2>1 DEF SlipsOK, RevOK, FileOK
  <2>4. CodeOK(printer[p], sheet, recoded) BY <1>12, <2>1 DEF CodeOK
  <2> QED BY <2>2, <2>3, <2>4 DEF EntryOK
<1>14. \A p, q \in Printers : p # q => PairOK(printer[p], printer[q], overlapped, recoded)
  BY <1>12 DEF PairOK, Runs, Gives
<1>15. RevsOK(documents, overlapped) /\ FilesOK(documents, sheet, file, recoded, crowded)
  <2>1. DOMAIN documents = {} BY <1>2
  <2> QED BY <2>1 DEF RevsOK, FilesOK
<1>16. CodesOK(sheet) BY <1>2, FreshAssumption DEF CodesOK
<1>17. \A s \in shown : Leads(s, sheet, recoded) BY <1>2
<1>18. \A s \in shown, p \in Printers : Unsaved(s, printer[p]) BY <1>2
<1> QED BY <1>11, <1>13, <1>14, <1>15, <1>16, <1>17, <1>18 DEF DocumentsInv

\* Every step keeps the invariant.
LEMMA DocumentsKeep == DocumentsInv /\ [DocumentNext]_documentVars => DocumentsInv'
<1> SUFFICES ASSUME DocumentsInv, [DocumentNext]_documentVars PROVE DocumentsInv' OBVIOUS
<1>1. CASE UNCHANGED documentVars
  BY <1>1, StillKeeps DEF documentVars, DocumentsInv, DocumentTypeOK
<1>2. CASE NextSecond
  <2>1. second' \in 0..LastSecond BY <1>2, CodesAssumption DEF NextSecond, DocumentsInv, DocumentTypeOK
  <2> QED BY <1>2, <2>1, StillKeeps DEF NextSecond
<1>3. CASE \E p \in Printers :
       \/ LoadOrder(p) \/ CountDocuments(p) \/ ensure_order_tracking_code(p) \/ SaveDocument(p)
       \/ RenderFails(p) \/ CommitDocuments(p) \/ LoseDocuments(p) \/ print_order(p)
  BY <1>3, LoadKeeps, CountKeeps, DrawKeeps, SaveKeeps, RenderFailsKeeps, CommitKeeps, LoseKeeps, PrintKeeps
<1> QED BY <1>1, <1>2, <1>3 DEF DocumentNext

\* The invariant explains the documents.
LEMMA InvExplainsDocuments == ASSUME DocumentsInv PROVE DocumentsExplained
<1>1. DocumentTypeOK BY DEF DocumentsInv
<1>2. RevsOK(documents, overlapped) /\ FilesOK(documents, sheet, file, recoded, crowded) /\ CodesOK(sheet)
  BY DEF DocumentsInv
<1>3. \A i \in DOMAIN documents : documents[i] \in Slips BY <1>1 DEF DocumentTypeOK
<1>4. RevisionsCount
  <2> SUFFICES ASSUME NEW i \in DOMAIN documents, TopicOf(documents[i]) \notin overlapped
               PROVE  documents[i].revision = Number(i) /\ documents[i].copy = (Number(i) > 1)
    BY DEF RevisionsCount, TopicOf
  <2>1. Number(i) = Cardinality({j \in RowsIn(documents, TopicOf(documents[i])) : j <= i})
    BY DEF Number, Rows, RowsIn, TopicOf
  <2> QED BY <1>2, <2>1 DEF RevsOK
<1>5. \A o \in Printed : sheet[o].code # NoCode => Tracked(sheet[o].code) = {o}
  BY <1>2 DEF CodesOK, Tracked
<1>6. FilesSayTheirRows
  <2> SUFFICES ASSUME NEW d \in ToSet(documents)
               PROVE  /\ Bytes(d) # Blank
                      /\ d.path \notin crowded => Bytes(d).revision = d.revision
                      /\ d.order \notin recoded => Tracked(Bytes(d).code) = {d.order}
    BY DEF FilesSayTheirRows
  <2>1. PICK i \in DOMAIN documents : d = documents[i] BY DEF ToSet
  <2>2. d.order \in Printed BY <1>3, <2>1 DEF Slips
  <2>3. OnPaper(d, file, crowded) /\ (d.order \notin recoded => file[d.path].code = sheet[d.order].code
                                                               /\ sheet[d.order].code # NoCode)
    BY <1>2, <2>1 DEF FilesOK
  <2> QED BY <1>5, <2>2, <2>3 DEF OnPaper, Bytes
<1>7. \A s \in shown : IF s.drawn THEN Tracked(s.code) = {} ELSE s.order \in recoded \/ Tracked(s.code) = {s.order}
  <2> TAKE s \in shown
  <2>1. Leads(s, sheet, recoded) BY DEF DocumentsInv
  <2>2. s.order \in Printed BY <1>1 DEF DocumentTypeOK
  <2>3. CASE s.drawn BY <2>1, <2>3 DEF Leads, Tracked
  <2>4. CASE ~s.drawn BY <1>5, <2>1, <2>2, <2>4 DEF Leads
  <2> QED BY <2>3, <2>4
<1> QED BY <1>4, <1>6, <1>7 DEF DocumentsExplained

\* Whatever requests print, draw, fail and commit at the same time, the committed documents
\* are numbered in their order, their files are there, and the codes they show lead to their
\* orders, but for the races named in the histories (order_document_registry.py,
\* tracking_code.py).
THEOREM DocumentsTell == DocumentSpec => []DocumentsExplained
<1>1. DocumentInit => DocumentsInv BY DocumentsStart
<1>2. DocumentsInv => DocumentsExplained BY InvExplainsDocuments
<1> QED BY <1>1, <1>2, DocumentsKeep, PTL DEF DocumentSpec
==============================================================================
