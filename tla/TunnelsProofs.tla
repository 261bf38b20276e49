--------------------------- MODULE TunnelsProofs ---------------------------
(***************************************************************************)
(* For any tunnels, reports, peers and number of readings: every row of    *)
(* the hub tells what its source last reported, a connected page shows the *)
(* hub's rows once it has merged what is on its way, and a list that       *)
(* Snapshot handed out is never changed under its reader.                  *)
(*                                                                         *)
(* The parsers are loops over a sequence, written as recursive functions:  *)
(* the first sections show that such a function exists and what holds of   *)
(* it after each turn of the loop, by induction on the turns.              *)
(***************************************************************************)
EXTENDS Tunnels, FiniteSetTheorems, WellFoundedInduction, TLAPS

-----------------------------------------------------------------------------
\* Induction, and functions defined by recursion.

\* A non-empty set of naturals has a least element.
LEMMA LeastElement ==
  ASSUME NEW T \in SUBSET Nat, T # {}
  PROVE  \E m \in T : \A k \in T : m <= k
<1>1. \E m \in T : \A k \in T : ~ (<<k, m>> \in OpToRel(<, Nat))
  BY WFMin, NatLessThanWellFounded
<1>2. PICK m \in T : \A k \in T : ~ (<<k, m>> \in OpToRel(<, Nat))
  BY <1>1
<1>3. ASSUME NEW k \in T, ~ (m <= k) PROVE FALSE
  <2>1. <<k, m>> \in OpToRel(<, Nat)
    BY <1>3 DEF OpToRel
  <2> QED
    BY <1>2, <2>1
<1> QED
  BY <1>3

\* Min finds it.
LEMMA LeastIsMin ==
  ASSUME NEW T \in SUBSET Nat, T # {}
  PROVE  Min(T) \in T /\ \A k \in T : Min(T) <= k
  BY LeastElement DEF Min

\* Induction, for a set of naturals.
LEMMA NatSetInduction ==
  ASSUME NEW T, 0 \in T, \A n \in Nat : n \in T => n + 1 \in T
  PROVE  Nat \subseteq T
<1> SUFFICES ASSUME Nat \ T # {} PROVE FALSE
  OBVIOUS
<1>1. PICK m \in Nat \ T : \A k \in Nat \ T : m <= k
  BY LeastElement
<1>2. m # 0 /\ m - 1 \in Nat /\ m - 1 < m
  BY <1>1
<1>3. m - 1 \in T
  BY <1>1, <1>2
<1> QED
  BY <1>1, <1>2, <1>3

\* A function defined by recursion on the length of a sequence exists.
\* A loop of n turns over values in V, as the function of each turn.
Steps(V, base, n, step) == base \in V /\ n \in Nat /\ step \in [1..n -> [V -> V]]
\* f holds the value after each turn.
Runs(V, base, n, step, f) ==
  f \in [0..n -> V] /\ f[0] = base /\ \A i \in 1..n : f[i] = step[i][f[i - 1]]

\* A loop has a value after each turn.
LEMMA RecursionExists ==
  ASSUME NEW V, NEW base, NEW n, NEW step, Steps(V, base, n, step)
  PROVE  \E f : Runs(V, base, n, step, f)
<1> USE DEF Steps
<1> DEFINE Good(k, f) == f \in [0..k -> V] /\ f[0] = base
                         /\ \A i \in 1..k : f[i] = step[i][f[i - 1]]
           T == {k \in Nat : k <= n => \E f : Good(k, f)}
<1>1. 0 \in T
  <2>1. Good(0, [i \in 0..0 |-> base])
    OBVIOUS
  <2> QED
    BY <2>1
<1>2. ASSUME NEW k \in Nat, k \in T PROVE k + 1 \in T
  <2> SUFFICES ASSUME k + 1 <= n PROVE \E f : Good(k + 1, f)
    OBVIOUS
  <2>1. PICK f : Good(k, f)
    BY <1>2
  <2> DEFINE v == step[k + 1][f[k]]
             g == [i \in 0 .. k + 1 |-> IF i = k + 1 THEN v ELSE f[i]]
  <2>2. v \in V
    BY <2>1
  <2> HIDE DEF v
  <2>3. g \in [0 .. k + 1 -> V] /\ g[0] = base /\ g[k + 1] = v
        /\ \A i \in 0..k : g[i] = f[i]
    BY <2>1, <2>2
  <2> HIDE DEF g
  <2>4. ASSUME NEW i \in 1 .. k + 1 PROVE g[i] = step[i][g[i - 1]]
    <3>1. CASE i = k + 1
      BY <3>1, <2>3 DEF v
    <3>2. CASE i # k + 1
      <4>1. i \in 1..k /\ g[i] = f[i] /\ g[i - 1] = f[i - 1]
        BY <3>2, <2>3
      <4> QED
        BY <2>1, <4>1
    <3> QED
      BY <3>1, <3>2
  <2>5. Good(k + 1, g)
    BY <2>3, <2>4
  <2> HIDE DEF Good
  <2> QED
    BY <2>5
<1> HIDE DEF T
<1>3. n \in T
  BY <1>1, <1>2, NatSetInduction
<1> QED
  BY <1>3 DEF T, Runs

\* Induction along an interval: the turns of a loop.
LEMMA IntervalInduction ==
  ASSUME NEW T, NEW n \in Nat, 0 \in T, \A i \in 1..n : i - 1 \in T => i \in T
  PROVE  0..n \subseteq T
<1> DEFINE S == {k \in Nat : k <= n => k \in T}
<1>1. 0 \in S
  OBVIOUS
<1>2. ASSUME NEW k \in Nat, k \in S PROVE k + 1 \in S
  <2> SUFFICES ASSUME k + 1 <= n PROVE k + 1 \in T
    OBVIOUS
  <2>1. k + 1 \in 1..n /\ (k + 1) - 1 = k /\ k \in T
    BY <1>2
  <2> QED
    BY <2>1
<1> HIDE DEF S
<1>3. Nat \subseteq S
  BY <1>1, <1>2, NatSetInduction
<1> QED
  BY <1>3 DEF S

-----------------------------------------------------------------------------
\* The age of a handshake.

\* The units wg prints, and a number of one.
Units == DOMAIN handshakeUnit \cup {"year"}
Part == [n : Nat, unit : Units]

\* The seconds of a part; a year's are not counted.
LEMMA PartLength ==
  ASSUME NEW n \in Nat, NEW unit \in Units
  PROVE  /\ Length([n |-> n, unit |-> unit]) \in Nat
         /\ Length([n |-> n, unit |-> unit]) # 0 <=> n # 0 /\ unit \in DOMAIN handshakeUnit
<1> DEFINE part == [n |-> n, unit |-> unit]
<1>1. \A u \in DOMAIN handshakeUnit : handshakeUnit[u] \in Nat \ {0}
  BY DEF handshakeUnit
<1>2. \A x \in Nat : \A y \in Nat \ {0} : x * y \in Nat /\ (x * y # 0 <=> x # 0)
  OBVIOUS
<1>3. Length(part) = IF unit \in DOMAIN handshakeUnit THEN n * handshakeUnit[unit] ELSE 0
  BY DEF Length
<1> HIDE DEF part
<1>4. Length(part) \in Nat /\ (Length(part) # 0 <=> n # 0 /\ unit \in DOMAIN handshakeUnit)
  BY <1>1, <1>2, <1>3
<1> QED
  BY <1>4 DEF part

\* The loop of ParseHandshakeAge, the seconds after each part.
LEMMA AgeRuns ==
  ASSUME NEW parts \in Seq(Part)
  PROVE  \E age \in [0 .. Len(parts) -> Nat] :
           /\ age[0] = 0
           /\ \A i \in 1 .. Len(parts) : age[i] = age[i - 1] + Length(parts[i])
           /\ ParseHandshakeAge(parts) = age[Len(parts)]
<1> DEFINE n == Len(parts)
           next(i, a) == a + Length(parts[i])
           step == [i \in 1..n |-> [a \in Nat |-> next(i, a)]]
           Is(f) == f = [i \in 0..n |-> IF i = 0 THEN 0 ELSE next(i, f[i - 1])]
           age == CHOOSE g : Is(g)
<1>1. ParseHandshakeAge(parts) = age[n]
  BY DEF ParseHandshakeAge
<1>2. n \in Nat /\ \A i \in 1..n : parts[i] \in Part
  OBVIOUS
<1>4. \A i \in 1..n : \A a \in Nat : next(i, a) \in Nat
  <2>1. ASSUME NEW i \in 1..n PROVE Length(parts[i]) \in Nat
    <3>1. PICK x \in Nat, u \in Units : parts[i] = [n |-> x, unit |-> u]
      BY <1>2 DEF Part
    <3> QED
      BY <3>1, PartLength
  <2>2. \A a, b \in Nat : a + b \in Nat
    OBVIOUS
  <2> QED
    BY <2>1, <2>2
<1> HIDE DEF n, next
<1>5. step \in [1..n -> [Nat -> Nat]]
  BY <1>4
<1>6. PICK f \in [0..n -> Nat] : f[0] = 0 /\ \A i \in 1..n : f[i] = step[i][f[i - 1]]
  <2>1. Steps(Nat, 0, n, step)
    BY <1>2, <1>5 DEF Steps
  <2> HIDE DEF step
  <2>2. \E f : Runs(Nat, 0, n, step, f)
    BY <2>1, RecursionExists
  <2> QED
    BY <2>2 DEF Runs
<1>7. ASSUME NEW i \in 1..n PROVE f[i] = next(i, f[i - 1])
  <2>1. i - 1 \in 0..n
    BY <1>2
  <2>2. f[i - 1] \in Nat
    BY <2>1
  <2>3. step[i] = [a \in Nat |-> next(i, a)]
    OBVIOUS
  <2>4. f[i] = step[i][f[i - 1]]
    BY <1>6
  <2> HIDE DEF step
  <2> QED
    BY <2>2, <2>3, <2>4
<1> HIDE DEF step
<1>8. Is(f)
  BY <1>6, <1>7
<1>9. Is(age)
  BY <1>8
<1> HIDE DEF age
<1>10. age[0] = 0 /\ DOMAIN age = 0..n
  BY <1>2, <1>9
<1>11. ASSUME NEW i \in 1..n PROVE age[i] = next(i, age[i - 1])
  <2>1. i \in 0..n /\ i # 0
    BY <1>2
  <2> QED
    BY <1>9, <2>1
<1> DEFINE T == {i \in 0..n : age[i] \in Nat}
<1>12. 0..n \subseteq T
  <2>1. 0 \in T
    BY <1>2, <1>10
  <2>2. ASSUME NEW i \in 1..n, i - 1 \in T PROVE i \in T
    <3>1. age[i - 1] \in Nat /\ i \in 0..n
      BY <2>2, <1>2
    <3>2. age[i] \in Nat
      BY <3>1, <1>4, <1>11
    <3> QED
      BY <3>1, <3>2
  <2> HIDE DEF T
  <2> QED
    BY <2>1, <2>2, <1>2, IntervalInduction
<1>13. age = [i \in 0..n |-> age[i]]
  BY <1>9
<1>14. age \in [0..n -> Nat]
  BY <1>12, <1>13
<1> QED
  BY <1>1, <1>10, <1>11, <1>14 DEF n, next

\* The parts are read as that age, and none is recognised for zero only.
Prints(parts, a) ==
  /\ parts \in Seq(Part) /\ a \in Nat /\ ParseHandshakeAge(parts) = a
  /\ Recognised(parts) <=> (a # 0)

\* One more part adds its seconds.
LEMMA PartAdds ==
  ASSUME NEW parts, NEW a, NEW n \in Nat, NEW unit \in Units, Prints(parts, a)
  PROVE  Prints(WithPart(parts, n, unit), a + Length([n |-> n, unit |-> unit]))
<1> DEFINE part == [n |-> n, unit |-> unit]
           longer == Append(parts, part)
           k == Len(parts)
<1>0. parts \in Seq(Part) /\ a \in Nat /\ ParseHandshakeAge(parts) = a /\ (Recognised(parts) <=> (a # 0))
  BY DEF Prints
<1>1. PICK age \in [0..k -> Nat] :
        /\ age[0] = 0
        /\ \A i \in 1..k : age[i] = age[i - 1] + Length(parts[i])
        /\ ParseHandshakeAge(parts) = age[k]
  BY <1>0, AgeRuns
<1>2. /\ Length(part) \in Nat /\ part \in Part /\ part.unit = unit
      /\ Length(part) # 0 <=> n # 0 /\ unit \in DOMAIN handshakeUnit
  BY PartLength DEF Part
<1>3. k \in Nat
  BY <1>0
<1>4. CASE n = 0
  <2>1. WithPart(parts, n, unit) = parts
    BY <1>4 DEF WithPart
  <2>2. Length(part) = 0
    BY <1>2, <1>4
  <2>3. a + Length(part) = a
    BY <1>0, <2>2
  <2> QED
    BY <2>1, <2>3
<1>5. CASE n > 0
  <2>1. WithPart(parts, n, unit) = longer
    BY <1>5 DEF WithPart
  <2>3. /\ longer \in Seq(Part) /\ Len(longer) = k + 1
        /\ longer[k + 1] = part
        /\ \A i \in 1..k : longer[i] = parts[i]
    BY <1>0, <1>2
  <2> HIDE DEF longer, k, part
  <2>4. PICK more \in [0 .. Len(longer) -> Nat] :
          /\ more[0] = 0
          /\ \A i \in 1 .. Len(longer) :
               more[i] = more[i - 1] + Length(longer[i])
          /\ ParseHandshakeAge(longer) = more[Len(longer)]
    BY <2>3, AgeRuns
  <2> DEFINE T == {i \in 0..k : more[i] = age[i]}
  <2>5. 0 \in T
    BY <1>1, <1>3, <2>4
  <2>6. ASSUME NEW i \in 1..k, i - 1 \in T PROVE i \in T
    <3>1. i \in 0..k /\ i \in 1 .. Len(longer) /\ longer[i] = parts[i]
      BY <1>3, <2>3
    <3>2. more[i] = more[i - 1] + Length(parts[i])
      BY <3>1, <2>4
    <3>3. age[i] = age[i - 1] + Length(parts[i])
      BY <1>1
    <3> QED
      BY <2>6, <3>1, <3>2, <3>3
  <2>7. more[k] = age[k]
    <3> HIDE DEF T
    <3>1. 0..k \subseteq T
      BY <1>3, <2>5, <2>6, IntervalInduction
    <3> QED
      BY <1>3, <3>1 DEF T
  <2>8. more[k + 1] = more[k] + Length(part)
    <3>1. k + 1 \in 1 .. Len(longer) /\ (k + 1) - 1 = k
      BY <1>3, <2>3
    <3> QED
      BY <2>3, <2>4, <3>1
  <2>9. ParseHandshakeAge(longer) = ParseHandshakeAge(parts) + Length(part)
    BY <1>1, <2>3, <2>4, <2>7, <2>8
  <2>10. Recognised(longer) <=> Recognised(parts) \/ unit \in DOMAIN handshakeUnit
    <3>1. DOMAIN longer = 1 .. k + 1 /\ DOMAIN parts = 1..k
      BY <1>0, <1>3, <2>3 DEF k
    <3>2. k + 1 \in DOMAIN longer /\ \A i \in DOMAIN longer : i = k + 1 \/ i \in DOMAIN parts
      BY <1>3, <3>1
    <3>3. DOMAIN parts \subseteq DOMAIN longer
      BY <1>3, <3>1
    <3> QED
      BY <1>2, <2>3, <3>1, <3>2, <3>3 DEF Recognised
  <2>11. a + Length(part) \in Nat /\ (a + Length(part) # 0 <=> a # 0 \/ Length(part) # 0)
    BY <1>0, <1>2
  <2>12. Recognised(longer) <=> a + Length(part) # 0
    BY <1>0, <1>2, <1>5, <2>10, <2>11
  <2>13. longer \in Seq(Part) /\ ParseHandshakeAge(longer) = a + Length(part)
    BY <1>0, <2>3, <2>9
  <2> QED
    BY <2>1, <2>11, <2>12, <2>13, Zenon DEF Prints, part
<1> QED
  BY <1>4, <1>5

\* What wg prints of an age is read back to the second, but for its years.
LEMMA AgeReadBack == \A a \in Nat : Prints(Ago(a), a % Year)
<1> SUFFICES ASSUME NEW a \in Nat PROVE Prints(Ago(a), a % Year)
  OBVIOUS
<1> DEFINE y == a \div Year
           rest == a % Year
           d == rest \div 86400
           h == (rest % 86400) \div 3600
           m == (rest % 3600) \div 60
           s == rest % 60
           years == WithPart(<<>>, y, "year")
           days == WithPart(years, d, "day")
           hours == WithPart(days, h, "hour")
           minutes == WithPart(hours, m, "minute")
           all == WithPart(minutes, s, "second")
           L(n, unit) == Length([n |-> n, unit |-> unit])
<1>1. Ago(a) = all
  BY DEF Ago
<1>2. y \in Nat /\ rest \in Nat
  BY DEF Year
<1> HIDE DEF y, rest
<1>3. /\ d \in Nat /\ h \in Nat /\ m \in Nat /\ s \in Nat
      /\ rest = (((0 + d * 86400) + h * 3600) + m * 60) + s
  BY <1>2
<1> HIDE DEF d, h, m, s
<1>4. /\ L(y, "year") = 0 /\ L(d, "day") = d * 86400 /\ L(h, "hour") = h * 3600
      /\ L(m, "minute") = m * 60 /\ L(s, "second") = s
  BY <1>2, <1>3 DEF Length, handshakeUnit
<1>5. {"year", "day", "hour", "minute", "second"} \subseteq Units
  BY DEF Units, handshakeUnit
<1>6. Prints(<<>>, 0)
  <2>1. <<>> \in Seq(Part) /\ Len(<<>>) = 0 /\ DOMAIN <<>> = {}
    OBVIOUS
  <2>2. ParseHandshakeAge(<<>>) = 0
    BY <2>1, AgeRuns
  <2>3. ~ Recognised(<<>>)
    BY <2>1 DEF Recognised
  <2> QED
    BY <2>1, <2>2, <2>3 DEF Prints
<1>7. Prints(years, 0 + L(y, "year"))
  BY <1>2, <1>5, <1>6, PartAdds
<1>8. Prints(years, 0)
  BY <1>4, <1>7
<1> HIDE DEF years
<1>9. Prints(days, 0 + L(d, "day"))
  BY <1>3, <1>5, <1>8, PartAdds
<1> HIDE DEF days
<1>10. Prints(hours, (0 + L(d, "day")) + L(h, "hour"))
  BY <1>3, <1>5, <1>9, PartAdds
<1> HIDE DEF hours
<1>11. Prints(minutes, ((0 + L(d, "day")) + L(h, "hour")) + L(m, "minute"))
  BY <1>3, <1>5, <1>10, PartAdds
<1> HIDE DEF minutes
<1>12. Prints(all, (((0 + L(d, "day")) + L(h, "hour")) + L(m, "minute")) + L(s, "second"))
  BY <1>3, <1>5, <1>11, PartAdds
<1> HIDE DEF all, L
<1> QED
  BY <1>1, <1>3, <1>4, <1>12 DEF rest

\* What parseHandshakeAge makes of the words wg prints for an age of whole
\* seconds: from one second to a year it is read back exactly; from a year on
\* its years are lost; and of "Now", or of whole years, nothing is recognised.
THEOREM HandshakeAgeReadBack ==
  \A a \in Nat : /\ ParseHandshakeAge(Ago(a)) = a % Year
                 /\ a < Year => ParseHandshakeAge(Ago(a)) = a
                 /\ Recognised(Ago(a)) <=> a % Year # 0
<1> SUFFICES ASSUME NEW a \in Nat
             PROVE  /\ ParseHandshakeAge(Ago(a)) = a % Year
                    /\ a < Year => ParseHandshakeAge(Ago(a)) = a
                    /\ Recognised(Ago(a)) <=> a % Year # 0
  OBVIOUS
<1>1. Prints(Ago(a), a % Year)
  BY AgeReadBack
<1>2. a < Year => a % Year = a
  BY DEF Year
<1> QED
  BY <1>1, <1>2 DEF Prints

-----------------------------------------------------------------------------
\* Sums over a set, in any order.

\* The element that MapThenSumSet takes next.
Elem(s) == CHOOSE x \in s : TRUE
\* g adds up the weights of every subset, an element of Elem's choice at a time.
Sums(S, w, g) ==
  /\ IsFiniteSet(S) /\ w \in [S -> Nat]
  /\ g \in [SUBSET S -> Nat]
  /\ \A s \in SUBSET S : g[s] = IF s = {} THEN 0 ELSE w[Elem(s)] + g[s \ {Elem(s)}]

\* Elem picks an element.
LEMMA ElemIn == \A s : s # {} => Elem(s) \in s
  BY DEF Elem

\* A subset is no larger, and without an element one smaller.
LEMMA Sizes ==
  ASSUME NEW S, IsFiniteSet(S)
  PROVE  \A s \in SUBSET S :
           /\ IsFiniteSet(s) /\ Cardinality(s) \in Nat /\ Cardinality(s) <= Cardinality(S)
           /\ Cardinality(s) <= 0 => s = {}
           /\ \A x \in s : /\ Cardinality(s \ {x}) \in Nat
                            /\ Cardinality(s) = Cardinality(s \ {x}) + 1
<1> SUFFICES ASSUME NEW s \in SUBSET S
             PROVE  /\ IsFiniteSet(s) /\ Cardinality(s) \in Nat
                    /\ Cardinality(s) <= Cardinality(S)
                    /\ Cardinality(s) <= 0 => s = {}
                    /\ \A x \in s : /\ Cardinality(s \ {x}) \in Nat
                                     /\ Cardinality(s) = Cardinality(s \ {x}) + 1
  OBVIOUS
<1>1. IsFiniteSet(s) /\ Cardinality(s) <= Cardinality(S)
  BY FS_Subset
<1>2. Cardinality(s) \in Nat
  BY <1>1, FS_CardinalityType
<1>3. Cardinality(s) <= 0 => s = {}
  BY <1>1, <1>2, FS_EmptySet
<1>4. ASSUME NEW x \in s
      PROVE  Cardinality(s \ {x}) \in Nat /\ Cardinality(s) = Cardinality(s \ {x}) + 1
  <2>1. IsFiniteSet(s \ {x}) /\ Cardinality(s \ {x}) = Cardinality(s) - 1
    BY <1>1, FS_RemoveElement
  <2>2. Cardinality(s \ {x}) \in Nat
    BY <2>1, FS_CardinalityType
  <2> QED
    BY <1>2, <2>1, <2>2
<1> QED
  BY <1>1, <1>2, <1>3, <1>4

\* Such a function exists: in n turns it is right for subsets of n elements.
LEMMA SumsExist ==
  ASSUME NEW S, IsFiniteSet(S), NEW w \in [S -> Nat]
  PROVE  \E g : Sums(S, w, g)
<1> DEFINE V == [SUBSET S -> Nat]
           zero == [s \in SUBSET S |-> 0]
           add(g) == [s \in SUBSET S |->
                        IF s = {} THEN 0 ELSE w[Elem(s)] + g[s \ {Elem(s)}]]
           n == Cardinality(S)
           step == [i \in 1 .. n + 1 |-> [g \in V |-> add(g)]]
<1>1. n \in Nat
  BY FS_CardinalityType
<1>2. zero \in V
  OBVIOUS
<1>3. \A g \in V : add(g) \in V
  <2> SUFFICES ASSUME NEW g \in V, NEW s \in SUBSET S, s # {}
               PROVE  w[Elem(s)] + g[s \ {Elem(s)}] \in Nat
    OBVIOUS
  <2>1. Elem(s) \in S
    BY ElemIn
  <2>2. s \ {Elem(s)} \in SUBSET S
    OBVIOUS
  <2>3. w[Elem(s)] \in Nat /\ g[s \ {Elem(s)}] \in Nat
    BY <2>1, <2>2
  <2> QED
    BY <2>3
<1>4. Steps(V, zero, n + 1, step)
  <2>1. step \in [1 .. n + 1 -> [V -> V]]
    <3> HIDE DEF V, add
    <3> QED
      BY <1>3
  <2> HIDE DEF V, zero, step, n
  <2> QED
    BY <1>1, <1>2, <2>1 DEF Steps
<1>5. PICK f : Runs(V, zero, n + 1, step, f)
  <2> HIDE DEF V, zero, step, n
  <2> QED
    BY <1>4, RecursionExists
<1>6. f \in [0 .. n + 1 -> V] /\ f[0] = zero
  <2> HIDE DEF V, zero, step, n
  <2> QED
    BY <1>5 DEF Runs
<1>7. ASSUME NEW i \in 1 .. n + 1 PROVE f[i - 1] \in V /\ f[i] = add(f[i - 1])
  <2>1. f[i] = step[i][f[i - 1]]
    <3> HIDE DEF V, zero, step, n
    <3> QED
      BY <1>5 DEF Runs
  <2>2. f[i - 1] \in V
    <3> HIDE DEF V, n
    <3> QED
      BY <1>1, <1>6
  <2>3. step[i] = [g \in V |-> add(g)]
    <3> HIDE DEF V, add, n
    <3> QED
      OBVIOUS
  <2> HIDE DEF V, add, step
  <2> QED
    BY <2>1, <2>2, <2>3
<1> DEFINE T == {k \in 0..n : \A s \in SUBSET S : Cardinality(s) <= k => f[k][s] = f[k + 1][s]}
<1>8. 0 \in T
  <2>1. 0 \in 0..n
    BY <1>1
  <2>2. ASSUME NEW s \in SUBSET S, Cardinality(s) <= 0 PROVE f[0][s] = f[0 + 1][s]
    <3>2. s = {}
      BY <2>2, Sizes
    <3>3. f[0][s] = 0
      BY <1>6
    <3>4. 1 \in 1 .. n + 1 /\ 1 - 1 = 0
      BY <1>1
    <3>5. f[1] = add(f[0])
      BY <1>7, <3>4
    <3>6. f[1][s] = 0
      BY <3>2, <3>5
    <3> QED
      BY <3>3, <3>6
  <2> QED
    BY <2>1, <2>2
<1>9. ASSUME NEW k \in 1..n, k - 1 \in T PROVE k \in T
  <2>1. k \in 0..n /\ k \in 1 .. n + 1 /\ k + 1 \in 1 .. n + 1 /\ (k + 1) - 1 = k
        /\ (k - 1) + 1 = k /\ k - 1 \in Nat /\ k \in Nat
    BY <1>1
  <2>2. f[k] = add(f[k - 1]) /\ f[k + 1] = add(f[k])
    BY <1>7, <2>1
  <2>3. ASSUME NEW s \in SUBSET S, Cardinality(s) <= k PROVE f[k][s] = f[k + 1][s]
    <3>1. CASE s = {}
      BY <2>2, <3>1
    <3>2. CASE s # {}
      <4> DEFINE c == Elem(s)
                 rest == s \ {c}
      <4>1. c \in s
        BY <3>2, ElemIn
      <4>2. rest \in SUBSET S /\ Cardinality(rest) <= k - 1
        BY <2>1, <2>3, <4>1, Sizes
      <4>3. f[k - 1][rest] = f[k][rest]
        BY <1>9, <2>1, <4>2
      <4>4. f[k][s] = w[c] + f[k - 1][rest] /\ f[k + 1][s] = w[c] + f[k][rest]
        BY <2>2, <3>2
      <4> QED
        BY <4>3, <4>4
    <3> QED
      BY <3>1, <3>2
  <2> QED
    BY <2>1, <2>3
<1>10. n \in T
  <2> HIDE DEF T, n
  <2>1. 0..n \subseteq T
    BY <1>1, <1>8, <1>9, IntervalInduction
  <2> QED
    BY <1>1, <2>1
<1>11. \A s \in SUBSET S : f[n][s] = f[n + 1][s]
  <2> SUFFICES ASSUME NEW s \in SUBSET S PROVE Cardinality(s) <= n
    BY <1>10
  <2> QED
    BY Sizes
<1>12. f[n] \in V /\ f[n + 1] = add(f[n])
  <2>1. n + 1 \in 1 .. n + 1 /\ (n + 1) - 1 = n
    BY <1>1
  <2> HIDE DEF V, add, n
  <2> QED
    BY <1>7, <2>1
<1>13. Sums(S, w, f[n])
  BY <1>11, <1>12 DEF Sums
<1> QED
  BY <1>13

\* The same recursion, without a type.
Adds(S, w, g) ==
  g = [s \in SUBSET S |-> IF s = {} THEN 0 ELSE w[Elem(s)] + g[s \ {Elem(s)}]]
\* A function that satisfies the recursion adds up naturals.
LEMMA AddsIsSums ==
  ASSUME NEW S, IsFiniteSet(S), NEW w, w \in [S -> Nat], NEW g, Adds(S, w, g)
  PROVE  Sums(S, w, g)
<1> DEFINE n == Cardinality(S)
           T == {k \in 0..n : \A s \in SUBSET S : Cardinality(s) <= k => g[s] \in Nat}
<1>1. n \in Nat
  BY FS_CardinalityType
<1>2. /\ \A s \in SUBSET S : g[s] = IF s = {} THEN 0 ELSE w[Elem(s)] + g[s \ {Elem(s)}]
      /\ g = [s \in SUBSET S |-> g[s]]
  BY DEF Adds
<1>20. g[{}] = 0
  <2>1. {} \in SUBSET S
    OBVIOUS
  <2> QED
    BY <1>2, <2>1, Zenon
<1>21. \A s \in SUBSET S : s # {} => g[s] = w[Elem(s)] + g[s \ {Elem(s)}]
  BY <1>2, Zenon
<1>3. 0 \in T
  <2>1. ASSUME NEW s \in SUBSET S, Cardinality(s) <= 0 PROVE g[s] \in Nat
    <3>2. s = {}
      BY <2>1, Sizes
    <3> QED
      BY <1>20, <3>2
  <2> QED
    BY <1>1, <2>1
<1>4. ASSUME NEW k \in 1..n, k - 1 \in T PROVE k \in T
  <2>1. k \in 0..n /\ k - 1 \in Nat /\ k \in Nat
    BY <1>1
  <2>2. ASSUME NEW s \in SUBSET S, Cardinality(s) <= k, s # {} PROVE g[s] \in Nat
    <3> DEFINE c == Elem(s)
    <3>1. c \in s
      BY <2>2, ElemIn
    <3>2. s \ {c} \in SUBSET S /\ Cardinality(s \ {c}) <= k - 1
      BY <2>1, <2>2, <3>1, Sizes
    <3>3. g[s \ {c}] \in Nat /\ w[c] \in Nat
      BY <1>4, <3>1, <3>2
    <3> QED
      BY <1>21, <2>2, <3>3
  <2>3. g[{}] \in Nat
    BY <1>20
  <2> QED
    BY <2>1, <2>2, <2>3
<1>5. ASSUME NEW s \in SUBSET S PROVE g[s] \in Nat
  <2>1. n \in T
    <3> HIDE DEF T, n
    <3>1. 0..n \subseteq T
      BY <1>1, <1>3, <1>4, IntervalInduction
    <3> QED
      BY <1>1, <3>1
  <2>2. Cardinality(s) <= n
    BY Sizes
  <2> QED
    BY <2>1, <2>2
<1>6. g \in [SUBSET S -> Nat]
  BY <1>2, <1>5
<1> QED
  BY <1>2, <1>6 DEF Sums

\* The order in which the elements are chosen does not matter.
\* The sum of a subset is that without any one element, plus its weight.
Additive(S, w, g) == \A s \in SUBSET S : \A x \in s : g[s] = w[x] + g[s \ {x}]

\* Any element may be taken first: by induction on the size of the subset.
LEMMA SumTakesAny == ASSUME NEW S, NEW w, NEW g, Sums(S, w, g) PROVE Additive(S, w, g)
<1>0. IsFiniteSet(S) /\ w \in [S -> Nat]
  BY DEF Sums
<1> DEFINE n == Cardinality(S)
           TakesAny(s) == \A x \in s : g[s] = w[x] + g[s \ {x}]
           T == {k \in 0..n : \A s \in SUBSET S : Cardinality(s) <= k => TakesAny(s)}
<1>1. n \in Nat
  BY <1>0, FS_CardinalityType
<1>2. 0 \in T
  <2>1. ASSUME NEW s \in SUBSET S, Cardinality(s) <= 0 PROVE s = {}
    <3> QED
      BY <1>0, <2>1, Sizes
  <2> QED
    BY <1>1, <2>1
<1>3. ASSUME NEW k \in 1..n, k - 1 \in T PROVE k \in T
  <2>1. ASSUME NEW s \in SUBSET S, Cardinality(s) <= k, NEW x \in s
        PROVE  g[s] = w[x] + g[s \ {x}]
    <3> DEFINE c == Elem(s)
    <3>1. c \in s /\ g[s] = w[c] + g[s \ {c}]
      BY ElemIn DEF Sums
    <3>2. CASE x = c
      BY <3>1, <3>2
    <3>3. CASE x # c
      <4>1. k - 1 \in Nat /\ k \in Nat
        BY <1>1
      <4>2. s \ {c} \in SUBSET S /\ Cardinality(s \ {c}) <= k - 1 /\ x \in s \ {c}
        BY <2>1, <3>1, <3>3, <1>0, <4>1, Sizes
      <4>3. s \ {x} \in SUBSET S /\ Cardinality(s \ {x}) <= k - 1 /\ c \in s \ {x}
        BY <2>1, <3>1, <3>3, <1>0, <4>1, Sizes
      <4>4. TakesAny(s \ {c}) /\ TakesAny(s \ {x})
        BY <1>3, <4>2, <4>3
      <4>5. (s \ {c}) \ {x} = (s \ {x}) \ {c}
        OBVIOUS
      <4>6. g[s \ {c}] = w[x] + g[(s \ {x}) \ {c}] /\ g[s \ {x}] = w[c] + g[(s \ {x}) \ {c}]
        BY <4>2, <4>3, <4>4, <4>5
      <4>7. w[x] \in Nat /\ w[c] \in Nat /\ g[(s \ {x}) \ {c}] \in Nat
        BY <1>0, <3>1 DEF Sums
      <4> HIDE DEF c
      <4>8. \A a, b, d \in Nat : a + (b + d) = b + (a + d)
        OBVIOUS
      <4> QED
        BY <3>1, <4>6, <4>7, <4>8
    <3> QED
      BY <3>2, <3>3
  <2>2. k \in 0..n
    BY <1>1
  <2> QED
    BY <2>1, <2>2
<1> SUFFICES ASSUME NEW s \in SUBSET S PROVE TakesAny(s)
  BY DEF Additive
<1>4. n \in T
  <2> HIDE DEF T, n
  <2>1. 0..n \subseteq T
    BY <1>1, <1>2, <1>3, IntervalInduction
  <2> QED
    BY <1>1, <2>1
<1>5. Cardinality(s) <= n
  BY <1>0, Sizes
<1> HIDE DEF TakesAny
<1> QED
  BY <1>4, <1>5

\* A loop over the elements, each met once, that adds up their weights in f.
InOrder(S, w, n, order, f) ==
  /\ n \in Nat /\ order \in [1..n -> S]
  /\ \A i, j \in 1..n : i # j => order[i] # order[j]
  /\ \A x \in S : \E i \in 1..n : order[i] = x
  /\ f[0] = 0 /\ \A i \in 1..n : f[i] = f[i - 1] + w[order[i]]

\* Whatever the order of the loop, it adds up the same.
LEMMA SumInOrder ==
  ASSUME NEW S, NEW w, NEW g, NEW n, NEW order, NEW f,
         Sums(S, w, g), InOrder(S, w, n, order, f)
  PROVE  f[n] = g[S]
<1> SUFFICES ASSUME n \in Nat, order \in [1..n -> S],
                    \A i, j \in 1..n : i # j => order[i] # order[j],
                    \A x \in S : \E i \in 1..n : order[i] = x,
                    f[0] = 0, \A i \in 1..n : f[i] = f[i - 1] + w[order[i]]
             PROVE  f[n] = g[S]
  BY DEF InOrder
<1> DEFINE met(k) == {order[i] : i \in 1..k}
           T == {k \in 0..n : f[k] = g[met(k)]}
<1>1. 0 \in T
  <2>1. met(0) = {}
    OBVIOUS
  <2>2. g[{}] = 0
    BY DEF Sums
  <2>3. 0 \in 0..n
    OBVIOUS
  <2> HIDE DEF met
  <2> QED
    BY <2>1, <2>2, <2>3
<1>2. ASSUME NEW k \in 1..n, k - 1 \in T PROVE k \in T
  <2>1. k \in 0..n /\ k - 1 \in 0..n /\ k \in 1..k
    OBVIOUS
  <2>2. met(k) \in SUBSET S /\ order[k] \in met(k)
    BY <2>1
  <2>3. met(k) \ {order[k]} = met(k - 1)
    <3>1. \A i \in 1..k : i = k \/ i \in 1 .. k - 1
      OBVIOUS
    <3>2. \A i \in 1 .. k - 1 : i \in 1..k /\ order[i] # order[k]
      OBVIOUS
    <3> QED
      BY <3>1, <3>2
  <2>4. g[met(k)] = w[order[k]] + g[met(k - 1)]
    <3>1. \A s \in SUBSET S : \A x \in s : g[s] = w[x] + g[s \ {x}]
      <4>1. Additive(S, w, g)
        BY SumTakesAny
      <4> QED
        BY <4>1 DEF Additive
    <3>2. g[met(k)] = w[order[k]] + g[met(k) \ {order[k]}]
      <4> HIDE DEF met
      <4> QED
        BY ONLY <2>2, <3>1
    <3> HIDE DEF met
    <3> QED
      BY <2>3, <3>2
  <2>5. w[order[k]] \in Nat /\ g[met(k - 1)] \in Nat
    <3>1. met(k - 1) \in SUBSET S /\ order[k] \in S
      BY <2>2, <2>3
    <3> HIDE DEF met
    <3> QED
      BY <3>1 DEF Sums
  <2>6. f[k - 1] = g[met(k - 1)] /\ f[k] = f[k - 1] + w[order[k]]
    BY <1>2
  <2> HIDE DEF met
  <2>7. f[k] = g[met(k)]
    BY <2>4, <2>5, <2>6
  <2> QED
    BY <2>1, <2>7
<1>3. n \in T
  <2> HIDE DEF T
  <2>1. 0..n \subseteq T
    BY <1>1, <1>2, IntervalInduction
  <2> QED
    BY <2>1
<1>4. met(n) = S
  OBVIOUS
<1> HIDE DEF met
<1> QED
  BY <1>3, <1>4

\* The bytes a row should show are such a sum.
LEMMA ReceivedAdds ==
  ASSUME NEW s \in Sources, NEW report \in Reports[s], report # Failed
  PROVE  /\ Type[s] = "WIREGUARD" =>
              \E g : /\ Sums(DOMAIN report, [i \in DOMAIN report |-> report[i].rx], g)
                     /\ Received(s, report) = g[DOMAIN report]
         /\ Type[s] = "TAILSCALE" =>
              \E g : /\ Sums(report.peers, [p \in report.peers |-> p.rx], g)
                     /\ Received(s, report) = g[report.peers]
<1>1. ASSUME Type[s] = "WIREGUARD"
      PROVE  \E g : /\ Sums(DOMAIN report, [i \in DOMAIN report |-> report[i].rx], g)
                    /\ Received(s, report) = g[DOMAIN report]
  <2> DEFINE S == DOMAIN report
             w == [i \in S |-> report[i].rx]
             Is(g) == g = [t \in SUBSET S |->
                             IF t = {} THEN 0
                             ELSE report[CHOOSE x \in t : TRUE].rx + g[t \ {CHOOSE x \in t : TRUE}]]
             h == CHOOSE g : Is(g)
  <2>1. Received(s, report) = h[S]
    BY <1>1 DEF Received, MapThenSumSet, MapThenFoldSet
  <2>2. IsFiniteSet(S) /\ w \in [S -> Nat]
    <3>1. report \in WireguardReports
      BY <1>1, ReportsAssumption
    <3> DEFINE R == [age : Nat \cup {Never}, endpoint : Addrs, rx : Nat]
    <3>2. report \in Seq(R) /\ \A p \in R : p.rx \in Nat
      BY <3>1 DEF WireguardReports
    <3> HIDE DEF R
    <3>3. S = 1 .. Len(report) /\ Len(report) \in Nat /\ \A i \in S : report[i] \in R
      BY <3>2
    <3>4. \A i \in S : report[i].rx \in Nat
      BY <3>2, <3>3
    <3>5. IsFiniteSet(S)
      BY <3>3, FS_Interval
    <3> QED
      BY <3>4, <3>5
  <2>3. PICK g : Sums(S, w, g)
    <3> HIDE DEF S, w
    <3> QED
      BY <2>2, SumsExist
  <2>4. \A t \in SUBSET S : t # {} => w[Elem(t)] = report[CHOOSE x \in t : TRUE].rx
    BY ElemIn DEF Elem
  <2>5. Is(g)
    <3>1. g \in [SUBSET S -> Nat]
      BY <2>3 DEF Sums
    <3>2. \A t \in SUBSET S : g[t] = IF t = {} THEN 0 ELSE w[Elem(t)] + g[t \ {Elem(t)}]
      BY <2>3 DEF Sums
    <3> HIDE DEF S, w
    <3> QED
      BY <3>1, <3>2, <2>4 DEF Elem
  <2>6. Is(h)
    <3> HIDE DEF Is
    <3> QED
      BY <2>5
  <2> HIDE DEF h
  <2>7. Adds(S, w, h)
    <3> HIDE DEF S, w
    <3> QED
      BY <2>4, <2>6 DEF Elem, Adds
  <2>8. Sums(S, w, h)
    <3> HIDE DEF S, w
    <3> QED
      BY <2>2, <2>7, AddsIsSums
  <2> QED
    BY <2>1, <2>8
<1>2. ASSUME Type[s] = "TAILSCALE"
      PROVE  \E g : /\ Sums(report.peers, [p \in report.peers |-> p.rx], g)
                    /\ Received(s, report) = g[report.peers]
  <2> DEFINE S == report.peers
             w == [p \in S |-> p.rx]
             Is(g) == g = [t \in SUBSET S |->
                             IF t = {} THEN 0
                             ELSE (CHOOSE x \in t : TRUE).rx + g[t \ {CHOOSE x \in t : TRUE}]]
             h == CHOOSE g : Is(g)
  <2>1. Received(s, report) = h[S]
    BY <1>2 DEF Received, MapThenSumSet, MapThenFoldSet
  <2>2. IsFiniteSet(S) /\ w \in [S -> Nat]
    <3>1. report \in TailscaleReports /\ IsFiniteSet(report.peers)
      BY <1>2, ReportsAssumption
    <3>2. \A p \in S : p.rx \in Nat
      BY <3>1 DEF TailscaleReports
    <3> QED
      BY <3>1, <3>2
  <2>3. PICK g : Sums(S, w, g)
    <3> HIDE DEF S, w
    <3> QED
      BY <2>2, SumsExist
  <2>4. \A t \in SUBSET S : t # {} => w[Elem(t)] = (CHOOSE x \in t : TRUE).rx
    BY ElemIn DEF Elem
  <2>5. Is(g)
    <3>1. g \in [SUBSET S -> Nat]
      BY <2>3 DEF Sums
    <3>2. \A t \in SUBSET S : g[t] = IF t = {} THEN 0 ELSE w[Elem(t)] + g[t \ {Elem(t)}]
      BY <2>3 DEF Sums
    <3> HIDE DEF S, w
    <3> QED
      BY <3>1, <3>2, <2>4 DEF Elem
  <2>6. Is(h)
    <3> HIDE DEF Is
    <3> QED
      BY <2>5
  <2> HIDE DEF h
  <2>7. Adds(S, w, h)
    <3> HIDE DEF S, w
    <3> QED
      BY <2>4, <2>6 DEF Elem, Adds
  <2>8. Sums(S, w, h)
    <3> HIDE DEF S, w
    <3> QED
      BY <2>2, <2>7, AddsIsSums
  <2> QED
    BY <2>1, <2>8
<1> QED
  BY <1>1, <1>2

-----------------------------------------------------------------------------
\* ParseShow: the peers of a WireGuard interface.

\* What a reading says, and the peers a report lists.
Status == [up : BOOLEAN, rx : Nat, conn : Nat, target : Addrs]
Peers == [age : Nat \cup {Never}, endpoint : Addrs, rx : Nat]
\* A handshake that reads as one less than three minutes ago.
Fresh(p) == p.age # Never /\ p.age % Year \in 1 .. HandshakeStaleAfter - 1

\* The status of a failed command.
LEMMA DownIsStatus ==
  Down \in Status /\ Down.up = FALSE /\ Down.rx = 0 /\ Down.conn = 0 /\ Down.target = NoAddr
  BY AddrsAssumption DEF Down, Status

\* One peer's block.
Reads(st, p, next) ==
  /\ next \in Status /\ next.up = (st.up \/ Fresh(p))
  /\ next.rx = st.rx + p.rx /\ next.conn = st.conn
  /\ next.target = IF st.target = NoAddr THEN p.endpoint ELSE st.target

\* ParseShow's loop body adds one peer's block to what was read so far.
LEMMA BlockReads == \A st \in Status : \A p \in Peers : Reads(st, p, Block(st, p))
<1> SUFFICES ASSUME NEW st \in Status, NEW p \in Peers PROVE Reads(st, p, Block(st, p))
  OBVIOUS
<1> DEFINE up == st.up \/ IsRecent(p)
           target == IF st.target = NoAddr THEN p.endpoint ELSE st.target
           rx == st.rx + p.rx
<1>1. /\ st.up \in BOOLEAN /\ st.rx \in Nat /\ st.conn \in Nat /\ st.target \in Addrs
      /\ p.age \in Nat \cup {Never} /\ p.endpoint \in Addrs /\ p.rx \in Nat
      /\ st = [up |-> st.up, rx |-> st.rx, conn |-> st.conn, target |-> st.target]
  BY DEF Status, Peers
<1>2. up = (st.up \/ Fresh(p))
  <2>1. CASE p.age = Never
    BY <2>1, Zenon DEF IsRecent, Fresh
  <2>2. CASE p.age # Never
    <3>1. p.age \in Nat
      BY <1>1, <2>2
    <3>2. /\ ParseHandshakeAge(Ago(p.age)) = p.age % Year
          /\ Recognised(Ago(p.age)) <=> p.age % Year # 0
      BY <3>1, HandshakeAgeReadBack
    <3>3. p.age % Year \in Nat
      BY <3>1 DEF Year
    <3>4. p.age % Year \in 1 .. HandshakeStaleAfter - 1
            <=> p.age % Year # 0 /\ p.age % Year < HandshakeStaleAfter
      BY <3>3 DEF HandshakeStaleAfter
    <3>5. IsRecent(p) <=> Fresh(p)
      BY <2>2, <3>2, <3>4, Zenon DEF IsRecent, Fresh
    <3> QED
      BY <3>5, Zenon
  <2> QED
    BY <2>1, <2>2
<1>3. Block(st, p) = [st EXCEPT !.target = target, !.up = up, !.rx = rx]
  BY DEF Block
<1>4. up \in BOOLEAN /\ target \in Addrs /\ rx \in Nat
  BY <1>1
<1> HIDE DEF up, target, rx
<1>5. Block(st, p) = [up |-> up, rx |-> rx, conn |-> st.conn, target |-> target]
  BY <1>1, <1>3
<1>6. Block(st, p) \in Status
  BY <1>1, <1>4, <1>5 DEF Status
<1>7. /\ Block(st, p).up = up /\ Block(st, p).rx = rx
      /\ Block(st, p).conn = st.conn /\ Block(st, p).target = target
  BY <1>5
<1> QED
  BY <1>2, <1>6, <1>7 DEF Reads, target, rx

\* The loop of ParseShow, a status after each peer.
ShowLoop(peers, st) ==
  /\ st \in [0 .. Len(peers) -> Status] /\ st[0] = Down
  /\ \A i \in 1 .. Len(peers) : Reads(st[i - 1], peers[i], st[i])
  /\ ParseShow(peers) = st[Len(peers)]
\* ParseShow is such a loop.
LEMMA ShowRuns == \A peers \in Seq(Peers) : \E st : ShowLoop(peers, st)
<1> SUFFICES ASSUME NEW peers \in Seq(Peers) PROVE \E st : ShowLoop(peers, st)
  OBVIOUS
<1> DEFINE n == Len(peers)
           step == [i \in 1..n |-> [s \in Status |-> Block(s, peers[i])]]
           Is(f) == f = [i \in 0..n |-> IF i = 0 THEN Down ELSE Block(f[i - 1], peers[i])]
           st == CHOOSE f : Is(f)
<1>1. ParseShow(peers) = st[n]
  BY DEF ParseShow
<1>2. n \in Nat /\ \A i \in 1..n : peers[i] \in Peers
  OBVIOUS
<1> HIDE DEF n
<1>3. \A i \in 1..n : \A s \in Status : Block(s, peers[i]) \in Status
  BY <1>2, BlockReads DEF Reads
<1>4. PICK f : Runs(Status, Down, n, step, f)
  <2>1. step \in [1..n -> [Status -> Status]]
    <3> HIDE DEF Status
    <3> QED
      BY <1>3
  <2>2. Steps(Status, Down, n, step)
    <3> HIDE DEF step
    <3> QED
      BY <1>2, <2>1, DownIsStatus DEF Steps
  <2> HIDE DEF step
  <2> QED
    BY <2>2, RecursionExists
<1>5. f \in [0..n -> Status] /\ f[0] = Down
  <2> HIDE DEF step
  <2> QED
    BY <1>4 DEF Runs
<1>6. ASSUME NEW i \in 1..n PROVE f[i - 1] \in Status /\ f[i] = Block(f[i - 1], peers[i])
  <2>1. f[i] = step[i][f[i - 1]]
    <3> HIDE DEF step
    <3> QED
      BY <1>4 DEF Runs
  <2>2. i - 1 \in 0..n
    BY <1>2
  <2>3. f[i - 1] \in Status
    BY <1>5, <2>2
  <2>4. step[i] = [s \in Status |-> Block(s, peers[i])]
    OBVIOUS
  <2> HIDE DEF step
  <2> QED
    BY <2>1, <2>3, <2>4
<1> HIDE DEF step
<1>7. Is(f)
  BY <1>5, <1>6
<1>8. Is(st)
  BY <1>7
<1> HIDE DEF st
<1>9. st[0] = Down /\ DOMAIN st = 0..n /\ st = [i \in 0..n |-> st[i]]
  BY <1>2, <1>8
<1>10. ASSUME NEW i \in 1..n PROVE i \in 0..n /\ st[i] = Block(st[i - 1], peers[i])
  <2>1. i \in 0..n /\ i # 0
    BY <1>2
  <2> QED
    BY <1>8, <2>1
<1> DEFINE T == {i \in 0..n : st[i] \in Status}
<1>11. 0..n \subseteq T
  <2>1. 0 \in T
    BY <1>2, <1>9, DownIsStatus
  <2>2. ASSUME NEW i \in 1..n, i - 1 \in T PROVE i \in T
    BY <1>3, <1>10, <2>2
  <2> HIDE DEF T
  <2> QED
    BY <1>2, <2>1, <2>2, IntervalInduction
<1>12. st \in [0..n -> Status]
  BY <1>9, <1>11
<1>13. ASSUME NEW i \in 1..n PROVE Reads(st[i - 1], peers[i], st[i])
  <2>1. i - 1 \in 0..n
    BY <1>2
  <2>2. st[i - 1] \in Status /\ peers[i] \in Peers
    BY <1>2, <1>12, <2>1
  <2> QED
    BY <1>10, <2>2, BlockReads
<1> QED
  BY <1>1, <1>9, <1>12, <1>13 DEF ShowLoop, n

\* What a row should say of a report, and where it should ping.
Tells(s, report, st) ==
  /\ st \in Status /\ st.rx = Received(s, report)
  /\ st.up => IsUp(s, report) \/ YearsAgo(s, report)
  /\ IsUp(s, report) => st.up \/ JustNow(s, report)
  /\ st.conn > 0 => st.up
  /\ LET worth == IF st.up THEN Targets(s, report) ELSE {}
     IN IF worth = {} THEN ~(st.up /\ st.target # NoAddr)
        ELSE st.up /\ st.target \in worth /\ st.target # NoAddr

\* ParseShow tells of a report of wg what a row should say.
LEMMA ShowTells ==
  ASSUME NEW s \in Sources, NEW report \in Reports[s],
         report # Failed, Type[s] = "WIREGUARD"
  PROVE  Tells(s, report, ParseShow(report))
<1> DEFINE n == Len(report)
           up == \E i \in 1..n : Fresh(report[i])
<1>1. report \in Seq(Peers)
  BY ReportsAssumption DEF WireguardReports, Peers
<1>2. PICK st : ShowLoop(report, st)
  BY <1>1, ShowRuns
<1>3. /\ n \in Nat /\ DOMAIN report = 1..n /\ \A i \in 1..n : report[i] \in Peers
      /\ st \in [0..n -> Status] /\ st[0] = Down /\ ParseShow(report) = st[n]
      /\ \A i \in 1..n : Reads(st[i - 1], report[i], st[i])
  BY <1>1, <1>2 DEF ShowLoop
<1> HIDE DEF n
<1>4. /\ up => IsUp(s, report) \/ YearsAgo(s, report)
      /\ IsUp(s, report) => up \/ JustNow(s, report)
  <2>1. \A i \in 1..n : report[i].age \in Nat \cup {Never}
    BY <1>3 DEF Peers
  <2>2. ASSUME NEW i \in 1..n, Fresh(report[i])
        PROVE  report[i].age \in 0 .. HandshakeStaleAfter - 1 \/ report[i].age >= Year
    BY <2>1, <2>2 DEF Fresh, HandshakeStaleAfter, Year
  <2>3. ASSUME NEW i \in 1..n, report[i].age \in 1 .. HandshakeStaleAfter - 1
        PROVE  Fresh(report[i])
    BY <2>3, NeverAssumption DEF Fresh, HandshakeStaleAfter, Year
  <2>4. up => IsUp(s, report) \/ YearsAgo(s, report)
    <3> SUFFICES ASSUME NEW i \in 1..n, Fresh(report[i])
                 PROVE  IsUp(s, report) \/ YearsAgo(s, report)
      OBVIOUS
    <3>1. CASE report[i].age \in 0 .. HandshakeStaleAfter - 1
      BY <1>3, <3>1 DEF IsUp
    <3>2. CASE report[i].age >= Year
      BY <1>3, <3>2 DEF YearsAgo, Fresh
    <3> QED
      BY <2>2, <3>1, <3>2
  <2>5. ~ up => JustNow(s, report)
    BY <1>3, <2>3 DEF JustNow
  <2> QED
    BY <2>4, <2>5
<1> HIDE DEF up
<1> DEFINE Up(k) == st[k].up <=> \E i \in 1..k : Fresh(report[i])
           First(j) == /\ report[j].endpoint # NoAddr
                       /\ \A i \in 1 .. j - 1 : report[i].endpoint = NoAddr
           Target(k) == \/ /\ st[k].target = NoAddr
                           /\ \A i \in 1..k : report[i].endpoint = NoAddr
                        \/ \E j \in 1..k : First(j) /\ st[k].target = report[j].endpoint
           T == {k \in 0..n : Up(k) /\ st[k].conn = 0 /\ Target(k)}
<1>5. 0 \in T
  <2>1. 0 \in 0..n /\ \A i : i \notin 1..0
    BY <1>3
  <2> QED
    BY <1>3, <2>1, DownIsStatus
<1>6. ASSUME NEW k \in 1..n, k - 1 \in T PROVE k \in T
  <2>1. /\ k \in 0..n /\ k \in 1..k /\ Reads(st[k - 1], report[k], st[k])
        /\ \A i \in 1..k : i = k \/ i \in 1 .. k - 1
        /\ \A i \in 1 .. k - 1 : i \in 1..k
    BY <1>3
  <2>2. Up(k - 1) /\ st[k - 1].conn = 0 /\ Target(k - 1)
    BY <1>6
  <2>3. Up(k)
    <3>1. st[k].up = (st[k - 1].up \/ Fresh(report[k]))
      BY <2>1 DEF Reads
    <3> QED
      BY <2>1, <2>2, <3>1, Zenon
  <2>4. st[k].conn = 0
    BY <2>1, <2>2 DEF Reads
  <2>5. Target(k)
    <3>1. st[k].target = IF st[k - 1].target = NoAddr THEN report[k].endpoint ELSE st[k - 1].target
      BY <2>1 DEF Reads
    <3>2. CASE \E j \in 1 .. k - 1 : First(j) /\ st[k - 1].target = report[j].endpoint
      BY <2>1, <3>1, <3>2, Zenon
    <3>3. CASE /\ st[k - 1].target = NoAddr /\ report[k].endpoint # NoAddr
               /\ \A i \in 1 .. k - 1 : report[i].endpoint = NoAddr
      BY <2>1, <3>1, <3>3, Zenon
    <3>4. CASE /\ st[k - 1].target = NoAddr /\ report[k].endpoint = NoAddr
               /\ \A i \in 1 .. k - 1 : report[i].endpoint = NoAddr
      BY <2>1, <3>1, <3>4, Zenon
    <3> QED
      BY <2>2, <3>2, <3>3, <3>4, Zenon
  <2> HIDE DEF Up, Target
  <2> QED
    BY <2>1, <2>3, <2>4, <2>5
<1>7. Up(n) /\ st[n].conn = 0 /\ Target(n)
  <2>1. n \in T
    <3> HIDE DEF T
    <3>1. 0..n \subseteq T
      BY <1>3, <1>5, <1>6, IntervalInduction
    <3> QED
      BY <1>3, <3>1
  <2> HIDE DEF Up, Target
  <2> QED
    BY <2>1
<1>8. st[n].rx = Received(s, report)
  <2> DEFINE S == DOMAIN report
             w == [i \in S |-> report[i].rx]
             order == [i \in 1..n |-> i]
             f == [i \in 0..n |-> st[i].rx]
  <2>1. PICK g : Sums(S, w, g) /\ Received(s, report) = g[S]
    BY ReceivedAdds
  <2>2. InOrder(S, w, n, order, f)
    <3>1. order \in [1..n -> S] /\ \A i \in 1..n : order[i] = i
      BY <1>3
    <3>2. f[0] = 0
      BY <1>3, DownIsStatus
    <3>3. ASSUME NEW i \in 1..n PROVE f[i] = f[i - 1] + w[order[i]]
      <4>1. i \in 0..n /\ i - 1 \in 0..n /\ i \in S
        BY <1>3
      <4>2. st[i].rx = st[i - 1].rx + report[i].rx
        BY <1>3 DEF Reads
      <4> QED
        BY <3>1, <4>1, <4>2
    <3>4. S = 1..n
      BY <1>3
    <3> HIDE DEF S, w, order, f
    <3> QED
      BY <1>3, <3>1, <3>2, <3>3, <3>4 DEF InOrder
  <2>3. f[n] = g[S]
    <3> HIDE DEF S, w, order, f
    <3> QED
      BY <2>1, <2>2, SumInOrder
  <2>4. f[n] = st[n].rx
    BY <1>3
  <2> HIDE DEF f
  <2> QED
    BY <2>1, <2>3, <2>4
<1> DEFINE out == st[n]
<1>9. out \in Status /\ ParseShow(report) = out
  BY <1>3
<1>10. out.up <=> up
  BY <1>7 DEF up, out
<1>11. Targets(s, report) = {report[j].endpoint : j \in {i \in 1..n : First(i)}}
  <2>1. Targets(s, report) = {report[j].endpoint : j \in {i \in DOMAIN report : First(i)}}
    BY DEF Targets
  <2> HIDE DEF First
  <2> QED
    BY <1>3, <2>1
<1>12. Targets(s, report) = {} => out.target = NoAddr
  <2> HIDE DEF First
  <2>1. ASSUME NEW j \in 1..n, First(j) PROVE Targets(s, report) # {}
    BY <1>11, <2>1
  <2> QED
    BY <1>7, <2>1
<1>13. Targets(s, report) # {} => out.target \in Targets(s, report) /\ out.target # NoAddr
  <2>1. ASSUME NEW j \in 1..n, First(j), \A i \in 1..n : report[i].endpoint = NoAddr
        PROVE  FALSE
    BY <2>1
  <2> SUFFICES ASSUME Targets(s, report) # {}
               PROVE  out.target \in Targets(s, report) /\ out.target # NoAddr
    OBVIOUS
  <2>2. PICK j \in 1..n : First(j)
    BY <1>11
  <2>3. PICK i \in 1..n : First(i) /\ st[n].target = report[i].endpoint
    BY <1>7, <2>1, <2>2
  <2> QED
    BY <1>11, <2>3
<1> HIDE DEF out
<1> QED
  BY <1>4, <1>7, <1>8, <1>9, <1>10, <1>12, <1>13 DEF Tells, out

-----------------------------------------------------------------------------
\* ParseStatus: the peers of a tailnet, in any order.

\* The peers of a tailnet.
Nodes == [online : BOOLEAN, ips : Seq(Addrs), rx : Nat]

\* The index SelectInSeq returns is the first that passes the test, or 0.
LEMMA FirstIPv4Finds ==
  \A ips \in Seq(Addrs) :
    \/ FirstIPv4(ips) = NoAddr /\ \A i \in DOMAIN ips : ips[i] \notin IPv4
    \/ FirstIPv4(ips) \in IPv4 /\ \E i \in DOMAIN ips : ips[i] = FirstIPv4(ips)
<1> SUFFICES ASSUME NEW ips \in Seq(Addrs)
             PROVE  \/ FirstIPv4(ips) = NoAddr /\ \A i \in DOMAIN ips : ips[i] \notin IPv4
                    \/ FirstIPv4(ips) \in IPv4 /\ \E i \in DOMAIN ips : ips[i] = FirstIPv4(ips)
  OBVIOUS
<1> DEFINE I == {i \in 1 .. Len(ips) : ips[i] \in IPv4}
           k == IF I # {} THEN Min(I) ELSE 0
<1>1. FirstIPv4(ips) = IF k = 0 THEN NoAddr ELSE ips[k]
  BY DEF FirstIPv4, SelectInSeq
<1>2. DOMAIN ips = 1 .. Len(ips) /\ I \in SUBSET Nat
  OBVIOUS
<1>3. CASE I = {}
  BY <1>1, <1>2, <1>3
<1>4. CASE I # {}
  <2>1. Min(I) \in I
    <3> HIDE DEF I
    <3> QED
      BY <1>2, <1>4, LeastIsMin
  <2>2. k = Min(I) /\ k # 0 /\ k \in DOMAIN ips /\ ips[k] \in IPv4
    BY <1>2, <1>4, <2>1
  <2> HIDE DEF I, k
  <2> QED
    BY <1>1, <2>2
<1> QED
  BY <1>3, <1>4

\* One entry of the Peer object.
Takes(st, p, next) ==
  /\ next \in Status /\ next.up = st.up /\ next.conn = st.conn
  /\ next.rx = st.rx + p.rx
  /\ next.target = IF st.target = NoAddr /\ p.online THEN FirstIPv4(p.ips) ELSE st.target

\* ParseStatus's loop body adds one peer's entry to what was read so far.
LEMMA EntryTakes == \A st \in Status : \A p \in Nodes : Takes(st, p, Entry(st, p))
<1> SUFFICES ASSUME NEW st \in Status, NEW p \in Nodes PROVE Takes(st, p, Entry(st, p))
  OBVIOUS
<1> DEFINE target == IF st.target = NoAddr /\ p.online THEN FirstIPv4(p.ips) ELSE st.target
           rx == st.rx + p.rx
<1>1. /\ st.up \in BOOLEAN /\ st.rx \in Nat /\ st.conn \in Nat /\ st.target \in Addrs
      /\ p.ips \in Seq(Addrs) /\ p.rx \in Nat
      /\ st = [up |-> st.up, rx |-> st.rx, conn |-> st.conn, target |-> st.target]
  BY DEF Status, Nodes
<1>2. FirstIPv4(p.ips) \in Addrs
  BY <1>1, FirstIPv4Finds, AddrsAssumption
<1>3. Entry(st, p) = [st EXCEPT !.rx = rx, !.target = target]
  BY DEF Entry
<1>4. target \in Addrs /\ rx \in Nat
  BY <1>1, <1>2
<1> HIDE DEF target, rx
<1>5. Entry(st, p) = [up |-> st.up, rx |-> rx, conn |-> st.conn, target |-> target]
  BY <1>1, <1>3
<1>6. Entry(st, p) \in Status
  BY <1>1, <1>4, <1>5 DEF Status
<1>7. /\ Entry(st, p).up = st.up /\ Entry(st, p).rx = rx
      /\ Entry(st, p).conn = st.conn /\ Entry(st, p).target = target
  BY <1>5
<1> QED
  BY <1>6, <1>7 DEF Takes, target, rx

\* The loop of parseStatus over the peers in some order.
StatusLoop(running, order, st) ==
  /\ st \in [0 .. Len(order) -> Status] /\ st[0] = [Down EXCEPT !.up = running]
  /\ \A i \in 1 .. Len(order) : Takes(st[i - 1], order[i], st[i])
  /\ ParseStatus(running, order) = st[Len(order)]
\* ParseStatus is such a loop.
LEMMA StatusRuns ==
  \A running \in BOOLEAN, order \in Seq(Nodes) : \E st : StatusLoop(running, order, st)
<1> SUFFICES ASSUME NEW running \in BOOLEAN, NEW order \in Seq(Nodes)
             PROVE  \E st : StatusLoop(running, order, st)
  OBVIOUS
<1> DEFINE n == Len(order)
           base == [Down EXCEPT !.up = running]
           step == [i \in 1..n |-> [s \in Status |-> Entry(s, order[i])]]
           Is(f) == f = [i \in 0..n |-> IF i = 0 THEN base ELSE Entry(f[i - 1], order[i])]
           st == CHOOSE f : Is(f)
<1>1. ParseStatus(running, order) = st[n]
  BY DEF ParseStatus
<1>2. n \in Nat /\ \A i \in 1..n : order[i] \in Nodes
  OBVIOUS
<1>0. base \in Status
  <2>1. base = [up |-> running, rx |-> 0, conn |-> 0, target |-> NoAddr]
    BY DEF Down
  <2> QED
    BY <2>1, AddrsAssumption DEF Status
<1> HIDE DEF n, base
<1>3. \A i \in 1..n : \A s \in Status : Entry(s, order[i]) \in Status
  BY <1>2, EntryTakes DEF Takes
<1>4. PICK f : Runs(Status, base, n, step, f)
  <2>1. step \in [1..n -> [Status -> Status]]
    <3> HIDE DEF Status
    <3> QED
      BY <1>3
  <2>2. Steps(Status, base, n, step)
    <3> HIDE DEF step
    <3> QED
      BY <1>2, <2>1, <1>0 DEF Steps
  <2> HIDE DEF step
  <2> QED
    BY <2>2, RecursionExists
<1>5. f \in [0..n -> Status] /\ f[0] = base
  <2> HIDE DEF step
  <2> QED
    BY <1>4 DEF Runs
<1>6. ASSUME NEW i \in 1..n PROVE f[i - 1] \in Status /\ f[i] = Entry(f[i - 1], order[i])
  <2>1. f[i] = step[i][f[i - 1]]
    <3> HIDE DEF step
    <3> QED
      BY <1>4 DEF Runs
  <2>2. i - 1 \in 0..n
    BY <1>2
  <2>3. f[i - 1] \in Status
    BY <1>5, <2>2
  <2>4. step[i] = [s \in Status |-> Entry(s, order[i])]
    OBVIOUS
  <2> HIDE DEF step
  <2> QED
    BY <2>1, <2>3, <2>4
<1> HIDE DEF step
<1>7. Is(f)
  BY <1>5, <1>6
<1>8. Is(st)
  BY <1>7
<1> HIDE DEF st
<1>9. st[0] = base /\ DOMAIN st = 0..n /\ st = [i \in 0..n |-> st[i]]
  BY <1>2, <1>8
<1>10. ASSUME NEW i \in 1..n PROVE i \in 0..n /\ st[i] = Entry(st[i - 1], order[i])
  <2>1. i \in 0..n /\ i # 0
    BY <1>2
  <2> QED
    BY <1>8, <2>1
<1> DEFINE T == {i \in 0..n : st[i] \in Status}
<1>11. 0..n \subseteq T
  <2>1. 0 \in T
    BY <1>2, <1>9, <1>0
  <2>2. ASSUME NEW i \in 1..n, i - 1 \in T PROVE i \in T
    BY <1>3, <1>10, <2>2
  <2> HIDE DEF T
  <2> QED
    BY <1>2, <2>1, <2>2, IntervalInduction
<1>12. st \in [0..n -> Status]
  BY <1>9, <1>11
<1>13. ASSUME NEW i \in 1..n PROVE Takes(st[i - 1], order[i], st[i])
  <2>1. i - 1 \in 0..n
    BY <1>2
  <2>2. st[i - 1] \in Status /\ order[i] \in Nodes
    BY <1>2, <1>12, <2>1
  <2> QED
    BY <1>10, <2>2, EntryTakes
<1> QED
  BY <1>1, <1>9, <1>12, <1>13 DEF StatusLoop, base, n

\* ParseStatus tells of a report of tailscale what a row should say, in any order.
LEMMA StatusTells ==
  ASSUME NEW s \in Sources, NEW report \in Reports[s],
         report # Failed, Type[s] = "TAILSCALE", NEW order \in SetToSeqs(report.peers)
  PROVE  Tells(s, report, ParseStatus(report.running, order))
<1> DEFINE S == report.peers
           n == Cardinality(S)
           worth(a) == \E p \in S : p.online /\ \E i \in DOMAIN p.ips : p.ips[i] = a
<1>1. /\ report.running \in BOOLEAN /\ IsFiniteSet(S) /\ S \in SUBSET Nodes
  BY ReportsAssumption DEF TailscaleReports, Nodes
<1>2. /\ n \in Nat /\ order \in [1..n -> S]
      /\ \A i, j \in 1..n : i # j => order[i] # order[j]
  BY <1>1, FS_CardinalityType DEF SetToSeqs
<1>3. \A p \in S : \E i \in 1..n : order[i] = p
  <2>1. order \in Injection(1..n, S)
    BY <1>2 DEF Injection, IsInjective
  <2>2. Cardinality(1..n) = n /\ IsFiniteSet(1..n)
    BY <1>2, FS_Interval
  <2>3. order \in Surjection(1..n, S)
    BY <1>1, <2>1, <2>2, FS_Injection
  <2> QED
    BY <2>3 DEF Surjection
<1>4. order \in Seq(Nodes) /\ Len(order) = n
  <2>1. order \in [1..n -> Nodes]
    BY <1>1, <1>2
  <2> HIDE DEF S, n
  <2> QED
    BY <1>2, <2>1
<1>5. PICK st : StatusLoop(report.running, order, st)
  BY <1>1, <1>4, StatusRuns
<1>6. /\ st \in [0..n -> Status] /\ st[0] = [Down EXCEPT !.up = report.running]
      /\ \A i \in 1..n : Takes(st[i - 1], order[i], st[i])
      /\ ParseStatus(report.running, order) = st[n]
  BY <1>4, <1>5 DEF StatusLoop
<1>7. /\ st[0].up = report.running /\ st[0].rx = 0 /\ st[0].conn = 0
      /\ st[0].target = NoAddr
  BY <1>6 DEF Down
<1> HIDE DEF n, S
<1> DEFINE Nothing(k) == \A j \in 1..k :
             ~ (order[j].online /\ \E i \in DOMAIN order[j].ips : order[j].ips[i] \in IPv4)
           Target(k) == \/ st[k].target = NoAddr /\ Nothing(k)
                        \/ st[k].target \in IPv4 /\ worth(st[k].target)
           T == {k \in 0..n : /\ st[k].up = report.running /\ st[k].conn = 0
                              /\ Target(k)}
<1>8. 0 \in T
  <2>1. 0 \in 0..n /\ \A i : i \notin 1..0
    BY <1>2
  <2> QED
    BY <1>7, <2>1
<1>9. ASSUME NEW k \in 1..n, k - 1 \in T PROVE k \in T
  <2>1. /\ k \in 0..n /\ Takes(st[k - 1], order[k], st[k])
        /\ \A i \in 1..k : i = k \/ i \in 1 .. k - 1
        /\ order[k] \in S /\ order[k] \in Nodes
    BY <1>1, <1>2, <1>6
  <2>2. st[k - 1].up = report.running /\ st[k - 1].conn = 0 /\ Target(k - 1)
    BY <1>9
  <2>3. st[k].up = report.running /\ st[k].conn = 0
    BY <2>1, <2>2 DEF Takes
  <2>4. Target(k)
    <3> DEFINE p == order[k]
               a == FirstIPv4(p.ips)
    <3>1. st[k].target = IF st[k - 1].target = NoAddr /\ p.online THEN a ELSE st[k - 1].target
      BY <2>1 DEF Takes
    <3>2. p.ips \in Seq(Addrs)
      BY <2>1 DEF Nodes
    <3>3. \/ a = NoAddr /\ \A i \in DOMAIN p.ips : p.ips[i] \notin IPv4
          \/ a \in IPv4 /\ \E i \in DOMAIN p.ips : p.ips[i] = a
      BY <3>2, FirstIPv4Finds
    <3> HIDE DEF a
    <3>4. NoAddr \notin IPv4
      BY AddrsAssumption
    <3>5. CASE st[k - 1].target \in IPv4 /\ worth(st[k - 1].target)
      BY <3>1, <3>4, <3>5
    <3>6. CASE st[k - 1].target = NoAddr /\ Nothing(k - 1)
      <4>1. CASE p.online /\ a \in IPv4 /\ \E i \in DOMAIN p.ips : p.ips[i] = a
        BY <2>1, <3>1, <3>6, <4>1
      <4>2. CASE ~ p.online
        <5>1. Nothing(k)
          BY <2>1, <3>6, <4>2
        <5> HIDE DEF Nothing
        <5> QED
          BY <3>1, <3>6, <4>2, <5>1
      <4>3. CASE p.online /\ a = NoAddr /\ \A i \in DOMAIN p.ips : p.ips[i] \notin IPv4
        <5>1. Nothing(k)
          BY <2>1, <3>6, <4>3
        <5> HIDE DEF Nothing
        <5> QED
          BY <3>1, <3>6, <4>3, <5>1
      <4> QED
        BY <3>3, <4>1, <4>2, <4>3
    <3> HIDE DEF Nothing, worth
    <3> QED
      BY <2>2, <3>5, <3>6
  <2> HIDE DEF Target
  <2> QED
    BY <2>1, <2>3, <2>4
<1>10. st[n].up = report.running /\ st[n].conn = 0 /\ Target(n)
  <2>1. n \in T
    <3> HIDE DEF T
    <3>1. 0..n \subseteq T
      BY <1>2, <1>8, <1>9, IntervalInduction
    <3> QED
      BY <1>2, <3>1
  <2> HIDE DEF Target
  <2> QED
    BY <2>1
<1>11. st[n].rx = Received(s, report)
  <2> DEFINE w == [p \in S |-> p.rx]
             f == [i \in 0..n |-> st[i].rx]
  <2>1. PICK g : Sums(S, w, g) /\ Received(s, report) = g[S]
    BY ReceivedAdds DEF S
  <2>2. InOrder(S, w, n, order, f)
    <3>2. f[0] = 0
      BY <1>2, <1>7
    <3>3. ASSUME NEW i \in 1..n PROVE f[i] = f[i - 1] + w[order[i]]
      <4>1. i \in 0..n /\ i - 1 \in 0..n /\ order[i] \in S
        BY <1>2
      <4>2. st[i].rx = st[i - 1].rx + order[i].rx
        BY <1>6 DEF Takes
      <4> QED
        BY <4>1, <4>2
    <3> HIDE DEF w, f
    <3> QED
      BY <1>2, <1>3, <3>2, <3>3 DEF InOrder
  <2>3. f[n] = g[S]
    <3> HIDE DEF w, f
    <3> QED
      BY <2>1, <2>2, SumInOrder
  <2>4. f[n] = st[n].rx
    BY <1>2
  <2> HIDE DEF f
  <2> QED
    BY <2>1, <2>3, <2>4
<1> DEFINE out == st[n]
<1>12. out \in Status /\ ParseStatus(report.running, order) = out
  BY <1>2, <1>6
<1>13. IsUp(s, report) = report.running
  <2>1. IsUp(s, report) <=> report.running
    BY DEF IsUp
  <2>2. IsUp(s, report) \in BOOLEAN
    BY DEF IsUp
  <2> QED
    BY <1>1, <2>1, <2>2, Zenon
<1>14. Targets(s, report) = {a \in IPv4 : worth(a)}
  BY DEF Targets, S
<1>15. Targets(s, report) = {} => out.target = NoAddr
  <2> HIDE DEF worth
  <2> QED
    BY <1>10, <1>14
<1>16. Targets(s, report) # {} => out.target \in Targets(s, report) /\ out.target # NoAddr
  <2> SUFFICES ASSUME Targets(s, report) # {}
               PROVE  out.target \in IPv4 /\ worth(out.target)
    BY <1>14, AddrsAssumption
  <2>1. ~ Nothing(n)
    <3>1. PICK a \in IPv4 : worth(a)
      BY <1>14
    <3>2. PICK p \in S : p.online /\ \E i \in DOMAIN p.ips : p.ips[i] = a
      BY <3>1
    <3>3. PICK j \in 1..n : order[j] = p
      BY <1>3
    <3> QED
      BY <3>2, <3>3
  <2> HIDE DEF Nothing, worth
  <2> QED
    BY <1>10, <2>1
<1> HIDE DEF out
<1> QED
  BY <1>1, <1>10, <1>11, <1>12, <1>13, <1>15, <1>16 DEF Tells, out

\* Whatever the command answered and in whatever order Go ranges over it.
LEMMA StatsTell ==
  ASSUME NEW s \in Sources, NEW report \in Reports[s], NEW st \in Stats(s, report)
  PROVE  Tells(s, report, st)
<1>1. CASE report = Failed
  <2>1. st = Down /\ IsUp(s, report) = FALSE /\ Received(s, report) = 0
    BY <1>1 DEF Stats, IsUp, Received
  <2>2. st \in Status /\ ~ st.up /\ ~ IsUp(s, report)
    BY <2>1, DownIsStatus, Zenon
  <2>3. st.rx = Received(s, report) /\ st.conn = 0
    BY <2>1, DownIsStatus, Zenon
  <2>4. ~ (st.conn > 0)
    BY <2>3
  <2> QED
    BY <2>2, <2>3, <2>4, Zenon DEF Tells
<1>2. CASE report # Failed /\ Type[s] = "AUTOSSH"
  <2>1. /\ st = StatAutoSSH(report) /\ IsUp(s, report) = (report.state = "active")
        /\ Received(s, report) = 0 /\ Targets(s, report) = {}
    BY <1>2 DEF Stats, IsUp, Received, Targets
  <2>2. report \in SystemdReports
    BY <1>2, ReportsAssumption
  <2> DEFINE conn == IF IsActive(report) /\ report.entered > 0 /\ report.uptime > report.entered
                     THEN report.uptime - report.entered ELSE 0
  <2>3. conn \in Nat /\ (conn > 0 => report.state = "active")
    BY <2>2 DEF SystemdReports, IsActive
  <2>4. st = [Down EXCEPT !.up = IsActive(report), !.conn = conn]
    BY <2>1 DEF StatAutoSSH, ActiveEnterMonotonic
  <2> HIDE DEF conn
  <2>5. st = [up |-> IsActive(report), rx |-> 0, conn |-> conn, target |-> NoAddr]
    BY <2>4 DEF Down
  <2>6. st \in Status /\ st.up = (report.state = "active") /\ st.rx = 0 /\ st.conn = conn
    BY <2>3, <2>5, AddrsAssumption DEF Status, IsActive
  <2>7. st.target = NoAddr
    BY <2>5
  <2> QED
    BY <2>1, <2>3, <2>6, <2>7 DEF Tells
<1>3. CASE report # Failed /\ Type[s] = "WIREGUARD"
  <2>1. st = ParseShow(report)
    BY <1>3 DEF Stats
  <2> QED
    BY <1>3, <2>1, ShowTells
<1>4. CASE report # Failed /\ Type[s] = "TAILSCALE"
  <2>1. PICK order \in SetToSeqs(report.peers) : st = ParseStatus(report.running, order)
    BY <1>4 DEF Stats
  <2> QED
    BY <1>4, <2>1, StatusTells
<1> QED
  BY <1>1, <1>2, <1>3, <1>4, TypesAssumption

-----------------------------------------------------------------------------
\* Lists of rows, and their encoding.

\* The rows a collector publishes.
Rows == [type : {"AUTOSSH", "WIREGUARD", "TAILSCALE"}, name : {Name[s] : s \in Sources},
         up : BOOLEAN, rx : Nat, conn : Nat, ping : BOOLEAN, lastSeen : {""}]
\* The same as JSON.
Encoded == {Encode(r) : r \in Rows}
\* The index of the row that Upsert and MergeRow look for.
IndexOf(rows, row) == SelectInSeq(rows, LAMBDA r : Key(r) = Key(row))

\* The first row of a key, or 0 if there is none.
LEMMA FirstFinds ==
  ASSUME NEW rows, NEW row, Len(rows) \in Nat
  PROVE  /\ IndexOf(rows, row) \in 0 .. Len(rows)
         /\ IndexOf(rows, row) = 0 <=> \A i \in 1 .. Len(rows) : Key(rows[i]) # Key(row)
         /\ IndexOf(rows, row) # 0 => Key(rows[IndexOf(rows, row)]) = Key(row)
<1> DEFINE I == {i \in 1 .. Len(rows) : Key(rows[i]) = Key(row)}
<1>1. IndexOf(rows, row) = IF I # {} THEN Min(I) ELSE 0
  BY DEF IndexOf, SelectInSeq
<1>2. I # {} => Min(I) \in I
  <2>1. I \in SUBSET Nat
    OBVIOUS
  <2> HIDE DEF I
  <2> QED
    BY <2>1, LeastIsMin
<1> QED
  BY <1>1, <1>2

\* Two lists with the same keys give the same index.
LEMMA SameFirst ==
  ASSUME NEW rows, NEW others, NEW row, NEW other,
         Len(rows) \in Nat, Len(others) = Len(rows), Key(other) = Key(row),
         \A i \in 1 .. Len(rows) : Key(others[i]) = Key(rows[i])
  PROVE  IndexOf(others, other) = IndexOf(rows, row)
<1>1. {i \in 1 .. Len(others) : Key(others[i]) = Key(other)}
        = {i \in 1 .. Len(rows) : Key(rows[i]) = Key(row)}
  OBVIOUS
<1> QED
  BY <1>1, Zenon DEF IndexOf, SelectInSeq

\* What Upsert does to a list of rows.
Upserts(rows, row, list) ==
  /\ list \in Seq(Rows)
  /\ \E i \in DOMAIN list : list[i] = row
  /\ \A i \in DOMAIN rows : Key(rows[i]) # Key(row) => i \in DOMAIN list /\ list[i] = rows[i]
  /\ \A i \in DOMAIN list : list[i] = row \/ (i \in DOMAIN rows /\ list[i] = rows[i])
  /\ (\E i \in DOMAIN rows : Key(rows[i]) = Key(row)) => Len(list) = Len(rows)
  /\ ~ (\E i \in DOMAIN rows : Key(rows[i]) = Key(row)) => Len(list) = Len(rows) + 1

\* Publish's loop replaces the row of that key or adds one.
LEMMA UpsertUpserts ==
  \A rows \in Seq(Rows) : \A row \in Rows : Upserts(rows, row, Upsert(rows, row))
<1> SUFFICES ASSUME NEW rows \in Seq(Rows), NEW row \in Rows
             PROVE  Upserts(rows, row, Upsert(rows, row))
  OBVIOUS
<1> DEFINE n == Len(rows)
           k == IndexOf(rows, row)
           list == Upsert(rows, row)
<1>1. n \in Nat /\ DOMAIN rows = 1..n
  OBVIOUS
<1>2. list = IF k = 0 THEN Append(rows, row) ELSE [rows EXCEPT ![k] = row]
  BY DEF Upsert, IndexOf
<1>3. /\ k \in 0..n
      /\ k = 0 <=> \A i \in 1..n : Key(rows[i]) # Key(row)
      /\ k # 0 => Key(rows[k]) = Key(row)
  BY <1>1, FirstFinds
<1> HIDE DEF k, list
<1>4. CASE k = 0
  <2>1. /\ list \in Seq(Rows) /\ Len(list) = n + 1 /\ DOMAIN list = 1 .. n + 1
        /\ list[n + 1] = row /\ \A i \in 1..n : list[i] = rows[i]
    BY <1>2, <1>4
  <2>2. \A i \in 1 .. n + 1 : i = n + 1 \/ i \in 1..n
    BY <1>1
  <2>3. n + 1 \in 1 .. n + 1 /\ \A i \in 1..n : i \in 1 .. n + 1
    BY <1>1
  <2> HIDE DEF n
  <2>4. ~ \E i \in DOMAIN rows : Key(rows[i]) = Key(row)
    BY <1>1, <1>3, <1>4
  <2>5. /\ \E i \in DOMAIN list : list[i] = row
        /\ \A i \in DOMAIN rows : i \in DOMAIN list /\ list[i] = rows[i]
        /\ \A i \in DOMAIN list : list[i] = row \/ (i \in DOMAIN rows /\ list[i] = rows[i])
    BY <1>1, <2>1, <2>2, <2>3
  <2> QED
    BY <2>1, <2>4, <2>5, Zenon DEF Upserts, n, list
<1>5. CASE k # 0
  <2>1. /\ list \in Seq(Rows) /\ Len(list) = n /\ DOMAIN list = 1..n
        /\ list[k] = row /\ \A i \in 1..n \ {k} : list[i] = rows[i]
    BY <1>2, <1>3, <1>5
  <2>2. k \in 1..n
    BY <1>1, <1>3, <1>5
  <2> HIDE DEF n
  <2>3. \E i \in DOMAIN rows : Key(rows[i]) = Key(row)
    BY <1>1, <1>3, <1>5, <2>2
  <2>4. /\ \E i \in DOMAIN list : list[i] = row
        /\ \A i \in DOMAIN rows : Key(rows[i]) # Key(row) => i \in DOMAIN list /\ list[i] = rows[i]
        /\ \A i \in DOMAIN list : list[i] = row \/ (i \in DOMAIN rows /\ list[i] = rows[i])
    BY <1>1, <1>3, <1>5, <2>1, <2>2
  <2> QED
    BY <2>1, <2>3, <2>4, Zenon DEF Upserts, n, list
<1> QED
  BY <1>4, <1>5 DEF list

\* A row as JSON has the key of the row, and a patch overwrites all of it.
LEMMA EncodeKeeps ==
  /\ \A r \in Rows : Key(Encode(r)) = Key(r)
  /\ \A r, old \in Rows : Assign(Encode(old), Encode(r)) = Encode(r)
<1> DEFINE Kept == {"type", "name", "up", "rx", "conn", "ping"}
<1>1. ASSUME NEW r \in Rows PROVE Encode(r) = [f \in Kept |-> r[f]]
  <2>1. DOMAIN r = Kept \cup {"lastSeen"} /\ r["lastSeen"] = ""
    BY DEF Rows
  <2>2. {g \in DOMAIN r : g # "lastSeen" \/ r[g] # ""} = Kept
    BY <2>1
  <2> HIDE DEF Kept
  <2> QED
    BY <2>2 DEF Encode
<1>2. ASSUME NEW r \in Rows PROVE Key(Encode(r)) = Key(r)
  <2>1. "type" \in Kept /\ "name" \in Kept
    OBVIOUS
  <2> HIDE DEF Kept
  <2>2. Encode(r).type = r.type /\ Encode(r).name = r.name
    BY <1>1, <2>1
  <2> QED
    BY <2>2 DEF Key
<1>3. ASSUME NEW r \in Rows, NEW old \in Rows PROVE Assign(Encode(old), Encode(r)) = Encode(r)
  <2> HIDE DEF Kept
  <2>1. DOMAIN Encode(r) = Kept /\ DOMAIN Encode(old) = Kept
    BY <1>1
  <2>2. Assign(Encode(old), Encode(r)) = [f \in Kept |-> Encode(r)[f]]
    BY <2>1 DEF Assign
  <2> QED
    BY <1>1, <2>2
<1> QED
  BY <1>2, <1>3

\* Merging the encoded row into the encoded list is encoding the upserted list.
LEMMA MergeFollowsUpsert ==
  \A rows \in Seq(Rows) : \A row \in Rows :
    MergeRow(EncodeAll(rows), Encode(row)) = EncodeAll(Upsert(rows, row))
<1> SUFFICES ASSUME NEW rows \in Seq(Rows), NEW row \in Rows
             PROVE  MergeRow(EncodeAll(rows), Encode(row)) = EncodeAll(Upsert(rows, row))
  OBVIOUS
<1> DEFINE n == Len(rows)
           k == IndexOf(rows, row)
           all == EncodeAll(rows)
           list == Upsert(rows, row)
<1>1. n \in Nat /\ DOMAIN rows = 1..n /\ \A i \in 1..n : rows[i] \in Rows
  OBVIOUS
<1>2. /\ all \in Seq(Encoded) /\ Len(all) = n /\ DOMAIN all = 1..n
      /\ \A i \in 1..n : all[i] = Encode(rows[i])
  <2>1. all = [i \in 1..n |-> Encode(rows[i])]
    BY <1>1 DEF EncodeAll
  <2>2. \A i \in 1..n : Encode(rows[i]) \in Encoded
    BY <1>1 DEF Encoded
  <2> HIDE DEF n, all
  <2>3. all \in [1..n -> Encoded]
    BY <2>1, <2>2
  <2> QED
    BY <1>1, <2>1, <2>3
<1>3. Encode(row) \in Encoded
  BY DEF Encoded
<1> HIDE DEF all
<1>4. IndexOf(all, Encode(row)) = k
  <2>1. \A i \in 1 .. Len(rows) : Key(all[i]) = Key(rows[i])
    BY <1>1, <1>2, EncodeKeeps
  <2>2. Key(Encode(row)) = Key(row)
    BY EncodeKeeps
  <2> QED
    BY <1>1, <1>2, <2>1, <2>2, SameFirst
<1>5. MergeRow(all, Encode(row))
        = IF k = 0 THEN Append(all, Encode(row))
          ELSE [all EXCEPT ![k] = Assign(all[k], Encode(row))]
  BY <1>4, Zenon DEF MergeRow, IndexOf
<1>6. list = IF k = 0 THEN Append(rows, row) ELSE [rows EXCEPT ![k] = row]
  BY DEF Upsert, IndexOf
<1>7. k \in 0..n
  BY <1>1, FirstFinds
<1> HIDE DEF k, list
<1>8. CASE k = 0
  <2>1. /\ DOMAIN list = 1 .. n + 1 /\ list[n + 1] = row
        /\ \A i \in 1..n : list[i] = rows[i]
    BY <1>6, <1>8
  <2>2. DOMAIN Append(all, Encode(row)) = 1 .. n + 1
        /\ Append(all, Encode(row))[n + 1] = Encode(row)
        /\ \A i \in 1..n : Append(all, Encode(row))[i] = all[i]
    BY <1>2, <1>3
  <2>3. Append(all, Encode(row)) = [i \in 1 .. n + 1 |-> IF i = n + 1 THEN Encode(row) ELSE all[i]]
    <3>1. Append(all, Encode(row)) \in [1 .. n + 1 -> Encoded]
      <4> DEFINE more == Append(all, Encode(row))
      <4>1. more \in Seq(Encoded) /\ Len(more) = n + 1
        BY <1>2, <1>3
      <4> HIDE DEF n, more
      <4>2. more \in [1 .. Len(more) -> Encoded]
        BY <4>1
      <4> QED
        BY <4>1, <4>2 DEF more
    <3>2. \A i \in 1 .. n + 1 : i = n + 1 \/ i \in 1..n
      BY <1>1
    <3> HIDE DEF n
    <3> QED
      BY <2>2, <3>1, <3>2
  <2>4. EncodeAll(list) = [i \in 1 .. n + 1 |-> IF i = n + 1 THEN Encode(row) ELSE all[i]]
    <3>1. \A i \in 1 .. n + 1 : i = n + 1 \/ i \in 1..n
      BY <1>1
    <3>2. \A i \in 1 .. n + 1 : Encode(list[i]) = IF i = n + 1 THEN Encode(row) ELSE all[i]
      BY <1>2, <2>1, <3>1
    <3> HIDE DEF n
    <3> QED
      BY <2>1, <3>2 DEF EncodeAll
  <2> QED
    BY <1>5, <1>8, <2>3, <2>4 DEF list, all
<1>9. CASE k # 0
  <2>1. k \in 1..n
    BY <1>1, <1>7, <1>9
  <2>2. Assign(all[k], Encode(row)) = Encode(row)
    <3>1. all[k] = Encode(rows[k]) /\ rows[k] \in Rows
      BY <1>1, <1>2, <2>1
    <3> QED
      BY <3>1, EncodeKeeps
  <2>3. MergeRow(all, Encode(row)) = [all EXCEPT ![k] = Encode(row)]
    BY <1>5, <1>9, <2>2
  <2>4. /\ DOMAIN list = 1..n /\ list[k] = row
        /\ \A i \in 1..n \ {k} : list[i] = rows[i]
    BY <1>1, <1>6, <1>9, <2>1
  <2>5. EncodeAll(list) = [i \in 1..n |-> IF i = k THEN Encode(row) ELSE all[i]]
    <3>1. \A i \in 1..n : Encode(list[i]) = IF i = k THEN Encode(row) ELSE all[i]
      BY <1>2, <2>4
    <3> HIDE DEF n
    <3> QED
      BY <2>4, <3>1 DEF EncodeAll
  <2>6. [all EXCEPT ![k] = Encode(row)] = [i \in 1..n |-> IF i = k THEN Encode(row) ELSE all[i]]
    BY <1>2, <2>1
  <2> QED
    BY <2>3, <2>5, <2>6 DEF list, all
<1> QED
  BY <1>8, <1>9 DEF list, all
-----------------------------------------------------------------------------
\* The reader of a Snapshot.

\* What the reader holds is an array of its own or the current one, and it
\* still contains what it contained when it was handed out.
Frozen ==
  /\ snap \in Arrays /\ held \in Arrays \cup {NoArray}
  /\ DOMAIN arrays = Arrays
  /\ held # NoArray => given = arrays[held]
  /\ held = NoArray => seen = <<>>
  /\ \E n \in Nat : DOMAIN seen = 1..n
  /\ \A i \in DOMAIN seen : seen[i] = given[i]

\* There is always an array that nobody refers to.
LEMMA FreshArray ==
  ASSUME snap \in Arrays, held \in Arrays \cup {NoArray}
  PROVE  LET fresh == CHOOSE a \in Arrays : a \notin {snap, held}
         IN fresh \in Arrays /\ fresh \notin {snap, held}
<1>1. \E a \in Arrays : a \notin {snap, held}
  BY DEF Arrays, NoArray
<1> QED
  BY <1>1

\* Publishing leaves the reader's array alone.
LEMMA UpsertSparesReader ==
  ASSUME Frozen, NEW row, UpsertCopied(row), UNCHANGED readerVars
  PROVE  Frozen'
<1> DEFINE fresh == CHOOSE a \in Arrays : a \notin {snap, held}
<1>1. fresh \in Arrays /\ fresh # held
  BY FreshArray DEF Frozen
<1>2. snap' = fresh /\ DOMAIN arrays' = Arrays
  BY DEF UpsertCopied
<1>3. held # NoArray => arrays'[held] = arrays[held]
  BY <1>1 DEF UpsertCopied, Frozen
<1> HIDE DEF fresh
<1> QED
  BY <1>1, <1>2, <1>3 DEF Frozen, readerVars

\* No step touches what the reader holds.
LEMMA FrozenInductive == Frozen /\ [Next]_vars => Frozen'
<1> SUFFICES ASSUME Frozen, [Next]_vars PROVE Frozen'
  OBVIOUS
<1>1. ASSUME NEW s \in Sources, NEW report \in Reports[s], Collect(s, report)
      PROVE  Frozen'
  <2>1. PICK row : PublishTunnel(row)
    BY <1>1 DEF Collect
  <2>2. UpsertCopied(row) /\ UNCHANGED readerVars
    BY <2>1 DEF PublishTunnel
  <2> QED
    BY <2>2, UpsertSparesReader
<1>2. CASE Connect \/ Disconnect \/ OnPatch
  BY <1>2 DEF Connect, Disconnect, OnPatch, Frozen, listVars, readerVars
<1>3. CASE Snapshot
  <2>1. DOMAIN seen' = 1..0
    BY <1>3 DEF Snapshot
  <2> QED
    BY <1>3, <2>1 DEF Snapshot, Frozen, listVars, Arrays, NoArray
<1>4. CASE ReadRow
  <2>1. PICK n \in Nat : DOMAIN seen = 1..n
    BY DEF Frozen
  <2>2. Len(seen) = n
    BY <2>1
  <2>3. given = arrays[held] /\ seen' = Append(seen, given[n + 1])
    BY <1>4, <2>2 DEF ReadRow, Frozen
  <2>4. /\ DOMAIN seen' = 1 .. n + 1
        /\ seen'[n + 1] = given[n + 1]
        /\ \A i \in 1..n : seen'[i] = seen[i]
    BY <2>1, <2>2, <2>3
  <2> QED
    BY <1>4, <2>1, <2>4 DEF ReadRow, Frozen, listVars
<1>5. CASE DropSnapshot
  <2>1. DOMAIN seen' = 1..0
    BY <1>5 DEF DropSnapshot
  <2> QED
    BY <1>5, <2>1 DEF DropSnapshot, Frozen, listVars
<1>6. CASE UNCHANGED vars
  BY <1>6 DEF Frozen, vars, listVars, readerVars
<1> QED
  BY <1>1, <1>2, <1>3, <1>4, <1>5, <1>6 DEF Next

\* Before the first step nobody holds anything.
LEMMA InitFrozen == Init => Frozen
<1> SUFFICES ASSUME Init PROVE Frozen
  OBVIOUS
<1>1. DOMAIN seen = 1..0
  BY DEF Init
<1> QED
  BY <1>1 DEF Init, Frozen, Arrays, NoArray

\* No reader of a Snapshot ever sees a row change, disappear or move, however
\* many rows are upserted while it reads without the lock.
THEOREM TunnelsSnapshotsFrozen == Spec => []SnapshotsFrozen
<1>1. Frozen => SnapshotsFrozen
  BY DEF Frozen, SnapshotsFrozen
<1> QED
  BY <1>1, InitFrozen, FrozenInductive, PTL DEF Spec

-----------------------------------------------------------------------------
\* The hub's rows.

\* The sources heard of.
Told == {s \in Sources : told[s] # Unread}

\* The hub's list holds a row of each source heard of, no other and no second
\* one, and every row tells what its source last said.
HubTells ==
  /\ arrays[snap] \in Seq(Rows)
  /\ DOMAIN told = Sources /\ DOMAIN probed = Sources
  /\ IsFiniteSet(Told) /\ Len(arrays[snap]) = Cardinality(Told)
  /\ \A i \in DOMAIN arrays[snap] :
       \E s \in Told : Key(arrays[snap][i]) = <<Type[s], Name[s]>>
  /\ \A s \in Told : RowTells(s)

\* What a turn of a collector publishes.
Publishes(s, report, st, row) ==
  LET pings == st.up /\ st.target # NoAddr
  IN /\ Tells(s, report, st) /\ row \in Rows
     /\ Key(row) = <<Type[s], Name[s]>>
     /\ row.up = st.up /\ row.rx = st.rx /\ row.conn = st.conn /\ (row.ping => pings)
     /\ arrays'[snap'] = Upsert(arrays[snap], row)
     /\ told' = [told EXCEPT ![s] = report]
     /\ probed' = [probed EXCEPT ![s] = IF pings THEN st.target ELSE NoAddr]
     /\ pending' = IF connected THEN Append(pending, Encode(row)) ELSE pending
     /\ UNCHANGED <<connected, page>>

\* Every turn of a collector publishes a row of what its source said.
LEMMA CollectPublishes ==
  ASSUME Frozen, NEW s \in Sources, NEW report \in Reports[s], Collect(s, report)
  PROVE  \E st, row : Publishes(s, report, st, row)
<1>1. PICK st \in Stats(s, report) :
        \E answered \in {FALSE, st.up /\ st.target # NoAddr} :
          /\ PublishTunnel([type |-> Type[s], name |-> Name[s], up |-> st.up,
                            rx |-> st.rx, conn |-> st.conn,
                            ping |-> answered, lastSeen |-> ""])
          /\ probed' = [probed EXCEPT ![s] =
                          IF st.up /\ st.target # NoAddr THEN st.target ELSE NoAddr]
  BY DEF Collect
<1>2. PICK answered \in {FALSE, st.up /\ st.target # NoAddr} :
          /\ PublishTunnel([type |-> Type[s], name |-> Name[s], up |-> st.up,
                            rx |-> st.rx, conn |-> st.conn,
                            ping |-> answered, lastSeen |-> ""])
          /\ probed' = [probed EXCEPT ![s] =
                          IF st.up /\ st.target # NoAddr THEN st.target ELSE NoAddr]
  BY <1>1
<1> DEFINE row == [type |-> Type[s], name |-> Name[s], up |-> st.up,
                   rx |-> st.rx, conn |-> st.conn, ping |-> answered, lastSeen |-> ""]
<1>3. Tells(s, report, st)
  BY StatsTell
<1>4. st.up \in BOOLEAN /\ st.rx \in Nat /\ st.conn \in Nat /\ answered \in BOOLEAN
  BY <1>3 DEF Tells, Status
<1>5. row \in Rows
  BY <1>4, TypesAssumption DEF Rows
<1>6. /\ Key(row) = <<Type[s], Name[s]>> /\ row.up = st.up /\ row.rx = st.rx
      /\ row.conn = st.conn /\ (row.ping => st.up /\ st.target # NoAddr)
  <2>1. answered => st.up /\ st.target # NoAddr
    OBVIOUS
  <2> QED
    BY <2>1 DEF Key
<1>7. PublishTunnel(row) /\ told' = [told EXCEPT ![s] = report]
  BY <1>2 DEF Collect
<1> HIDE DEF row
<1>8. arrays'[snap'] = Upsert(arrays[snap], row)
  <2> DEFINE fresh == CHOOSE a \in Arrays : a \notin {snap, held}
  <2>1. fresh \in Arrays
    BY FreshArray DEF Frozen
  <2>2. snap' = fresh
    BY <1>7 DEF PublishTunnel, UpsertCopied
  <2>3. arrays'[fresh] = Upsert(arrays[snap], row)
    <3>1. arrays' = [a \in Arrays |-> CASE a = fresh -> Upsert(arrays[snap], row)
                                       [] a = held -> arrays[a]
                                       [] a \notin {fresh, held} -> <<>>]
      BY <1>7 DEF PublishTunnel, UpsertCopied
    <3>2. fresh # held
      BY FreshArray DEF Frozen
    <3> HIDE DEF fresh
    <3>3. arrays'[fresh] = CASE fresh = fresh -> Upsert(arrays[snap], row)
                             [] fresh = held -> arrays[fresh]
                             [] fresh \notin {fresh, held} -> <<>>
      BY <2>1, <3>1
    <3> QED
      BY <3>2, <3>3
  <2> QED
    BY <2>2, <2>3
<1>9. /\ pending' = IF connected THEN Append(pending, Encode(row)) ELSE pending
      /\ UNCHANGED <<connected, page>>
  BY <1>7 DEF PublishTunnel
<1> QED
  BY <1>2, <1>3, <1>5, <1>6, <1>7, <1>8, <1>9 DEF Publishes

\* After a turn the list tells what that source said, and of the others as before.
LEMMA CollectTells ==
  ASSUME HubTells, Frozen,
         NEW s \in Sources, NEW report \in Reports[s], Collect(s, report)
  PROVE  HubTells'
<1>1. PICK st, row : Publishes(s, report, st, row)
  BY CollectPublishes
<1> DEFINE rows == arrays[snap]
           list == arrays'[snap']
<1>2. /\ rows \in Seq(Rows) /\ row \in Rows /\ Key(row) = <<Type[s], Name[s]>>
      /\ list = Upsert(rows, row)
  BY <1>1 DEF Publishes, HubTells
<1>3. /\ told' = [told EXCEPT ![s] = report] /\ DOMAIN told = Sources /\ DOMAIN probed = Sources
      /\ probed' = [probed EXCEPT ![s] = IF st.up /\ st.target # NoAddr THEN st.target ELSE NoAddr]
  BY <1>1 DEF Publishes, HubTells
<1>4. Upserts(rows, row, list)
  BY <1>2, UpsertUpserts
<1>5. /\ DOMAIN told' = Sources /\ DOMAIN probed' = Sources
      /\ told'[s] = report /\ \A t \in Sources \ {s} : told'[t] = told[t] /\ probed'[t] = probed[t]
      /\ probed'[s] = IF st.up /\ st.target # NoAddr THEN st.target ELSE NoAddr
  BY <1>3
<1>6. Told' = Told \cup {s}
  BY <1>5, ReportsAssumption DEF Told
<1>7. s \in Told <=> \E i \in DOMAIN rows : Key(rows[i]) = Key(row)
  <2>1. ASSUME s \in Told PROVE \E i \in DOMAIN rows : Key(rows[i]) = Key(row)
    BY <1>2, <2>1 DEF HubTells, RowTells
  <2>2. ASSUME NEW i \in DOMAIN rows, Key(rows[i]) = Key(row) PROVE s \in Told
    <3>1. PICK t \in Told : Key(rows[i]) = <<Type[t], Name[t]>>
      BY DEF HubTells
    <3>2. t \in Sources /\ Type[t] = Type[s] /\ Name[t] = Name[s]
      BY <1>2, <2>2, <3>1 DEF Told
    <3> QED
      BY <3>1, <3>2, NamesAssumption
  <2> QED
    BY <2>1, <2>2
<1>8. IsFiniteSet(Told') /\ Len(list) = Cardinality(Told')
  <2>1. IsFiniteSet(Told) /\ Len(rows) = Cardinality(Told)
    BY DEF HubTells
  <2>2. /\ IsFiniteSet(Told \cup {s})
        /\ Cardinality(Told \cup {s}) = IF s \in Told THEN Cardinality(Told) ELSE Cardinality(Told) + 1
    BY <2>1, FS_AddElement
  <2>3. s \in Told => Len(list) = Len(rows)
    BY <1>4, <1>7, Zenon DEF Upserts
  <2>4. s \notin Told => Len(list) = Len(rows) + 1
    BY <1>4, <1>7, Zenon DEF Upserts
  <2> HIDE DEF list, rows
  <2> QED
    BY <1>6, <2>1, <2>2, <2>3, <2>4
<1>9. ASSUME NEW i \in DOMAIN list PROVE \E t \in Told' : Key(list[i]) = <<Type[t], Name[t]>>
  <2>1. CASE list[i] = row
    BY <1>2, <1>6, <2>1
  <2>2. CASE i \in DOMAIN rows /\ list[i] = rows[i]
    <3>1. PICK t \in Told : Key(rows[i]) = <<Type[t], Name[t]>>
      BY <2>2 DEF HubTells
    <3> QED
      BY <1>6, <2>2, <3>1
  <2> QED
    BY <1>4, <2>1, <2>2 DEF Upserts
<1>10. ASSUME NEW t \in Told' PROVE RowTells(t)'
  <2>1. CASE t = s
    <3>1. /\ row.up = st.up /\ row.rx = Received(s, report)
          /\ row.up => IsUp(s, report) \/ YearsAgo(s, report)
          /\ IsUp(s, report) => row.up \/ JustNow(s, report)
          /\ row.conn > 0 => row.up
          /\ row.ping => st.up /\ st.target # NoAddr
      BY <1>1, Zenon DEF Publishes, Tells
    <3>2. PICK i \in DOMAIN list : list[i] = row
      BY <1>4 DEF Upserts
    <3> DEFINE worth == IF st.up THEN Targets(s, report) ELSE {}
    <3>3. IF worth = {} THEN ~(st.up /\ st.target # NoAddr)
          ELSE st.up /\ st.target \in worth /\ st.target # NoAddr
      BY <1>1, Zenon DEF Publishes, Tells
    <3> HIDE DEF worth
    <3>4. IF worth = {} THEN probed'[s] = NoAddr ELSE probed'[s] \in worth
      BY <1>5, <3>3
    <3>5. row.ping => probed'[s] # NoAddr
      BY <1>5, <3>1
    <3> QED
      BY <1>2, <1>5, <2>1, <3>1, <3>2, <3>4, <3>5, Zenon DEF RowTells, worth
  <2>2. CASE t # s
    <3>1. t \in Told /\ t \in Sources
      BY <1>6, <2>2 DEF Told
    <3>2. told'[t] = told[t] /\ probed'[t] = probed[t]
      BY <1>5, <2>2, <3>1
    <3>3. RowTells(t)
      BY <3>1 DEF HubTells
    <3>4. <<Type[t], Name[t]>> # Key(row)
      BY <1>2, <2>2, <3>1, NamesAssumption
    <3>5. \A i \in DOMAIN rows : Key(rows[i]) = <<Type[t], Name[t]>> => i \in DOMAIN list /\ list[i] = rows[i]
      BY <1>4, <3>4 DEF Upserts
    <3> QED
      BY <3>2, <3>3, <3>5, Zenon DEF RowTells
  <2> QED
    BY <2>1, <2>2
<1>11. list \in Seq(Rows)
  BY <1>4 DEF Upserts
<1> QED
  BY <1>5, <1>8, <1>9, <1>10, <1>11 DEF HubTells

\* Only collectors change the list.
LEMMA HubTellsInductive == HubTells /\ Frozen /\ [Next]_vars => HubTells'
<1> SUFFICES ASSUME HubTells, Frozen, [Next]_vars PROVE HubTells'
  OBVIOUS
<1>1. ASSUME NEW s \in Sources, NEW report \in Reports[s], Collect(s, report) PROVE HubTells'
  BY <1>1, CollectTells
<1>2. ASSUME UNCHANGED <<listVars, historyVars>> PROVE HubTells'
  BY <1>2 DEF HubTells, RowTells, Told, listVars, historyVars
<1>3. CASE Connect \/ Disconnect \/ OnPatch \/ Snapshot \/ ReadRow \/ DropSnapshot \/ UNCHANGED vars
  BY <1>2, <1>3 DEF Connect, Disconnect, OnPatch, Snapshot, ReadRow, DropSnapshot, vars
<1> QED
  BY <1>1, <1>3 DEF Next

\* The list is empty before the first reading.
LEMMA InitHubTells == Init => HubTells
<1> SUFFICES ASSUME Init PROVE HubTells
  OBVIOUS
<1>1. arrays[snap] = <<>> /\ DOMAIN told = Sources /\ DOMAIN probed = Sources
  BY DEF Init, Arrays
<1>2. Told = {}
  BY DEF Init, Told
<1>3. <<>> \in Seq(Rows) /\ Len(<<>>) = 0 /\ DOMAIN <<>> = {}
  OBVIOUS
<1>4. Cardinality({}) = 0 /\ IsFiniteSet({})
  BY FS_EmptySet
<1> QED
  BY <1>1, <1>2, <1>3, <1>4 DEF HubTells

\* Every row tells what its source last reported: up or down, all the bytes,
\* a ping of a peer that can answer whenever there is one; and each source has
\* one row of its own, whatever the names, the peers and their order.
THEOREM TunnelsRowsTellReports == Spec => []RowsTellReports
<1>1. HubTells => RowsTellReports
  BY Zenon DEF HubTells, RowsTellReports, RowTells, Told
<1> QED
  BY <1>1, InitHubTells, InitFrozen, FrozenInductive, HubTellsInductive, PTL DEF Spec

-----------------------------------------------------------------------------
\* The page.

\* m holds the page's rows after each of the patches, from rows to goal.
Leads(rows, patches, goal, m) ==
  /\ m = [i \in 0 .. Len(patches) |-> IF i = 0 THEN rows ELSE MergeRow(m[i - 1], patches[i])]
  /\ m[Len(patches)] = goal

\* Where such a chain of lists leads is what the page has merged.
LEMMA LeadsMerged ==
  ASSUME NEW rows, NEW patches, NEW goal, NEW m,
         Len(patches) \in Nat, Leads(rows, patches, goal, m)
  PROVE  Merged(rows, patches) = goal
<1> DEFINE n == Len(patches)
           Is(f) == f = [i \in 0..n |-> IF i = 0 THEN rows ELSE MergeRow(f[i - 1], patches[i])]
           merged == CHOOSE f : Is(f)
<1>1. Merged(rows, patches) = merged[n]
  BY DEF Merged
<1>2. Is(m) /\ m[n] = goal
  BY DEF Leads
<1>3. Is(merged)
  BY <1>2
<1> HIDE DEF merged, n
<1>4. n \in Nat
  BY DEF n
<1> DEFINE T == {i \in 0..n : merged[i] = m[i]}
<1>5. 0 \in T
  BY <1>2, <1>3, <1>4
<1>6. ASSUME NEW i \in 1..n, i - 1 \in T PROVE i \in T
  <2>1. i \in 0..n /\ i # 0
    BY <1>4
  <2>2. merged[i] = MergeRow(merged[i - 1], patches[i])
    BY <1>3, <2>1
  <2>3. m[i] = MergeRow(m[i - 1], patches[i])
    BY <1>2, <2>1
  <2> QED
    BY <1>6, <2>1, <2>2, <2>3
<1>7. merged[n] = m[n]
  <2> HIDE DEF T
  <2>1. 0..n \subseteq T
    BY <1>4, <1>5, <1>6, IntervalInduction
  <2> QED
    BY <1>4, <2>1 DEF T
<1> QED
  BY <1>1, <1>2, <1>7

\* One more patch at the end.
LEMMA LeadsOn ==
  ASSUME NEW rows, NEW patches \in Seq(Encoded), NEW goal, NEW m, NEW patch \in Encoded,
         Leads(rows, patches, goal, m)
  PROVE  \E k : Leads(rows, Append(patches, patch), MergeRow(goal, patch), k)
<1> DEFINE n == Len(patches)
           more == Append(patches, patch)
           next == MergeRow(goal, patch)
           k == [i \in 0 .. n + 1 |-> IF i = n + 1 THEN next ELSE m[i]]
<1>1. /\ n \in Nat /\ Len(more) = n + 1 /\ more[n + 1] = patch
      /\ \A i \in 1..n : more[i] = patches[i]
  OBVIOUS
<1>2. /\ m[n] = goal
      /\ \A i \in 0..n : m[i] = IF i = 0 THEN rows ELSE MergeRow(m[i - 1], patches[i])
  <2> HIDE DEF n
  <2> QED
    BY <1>1 DEF Leads, n
<1> HIDE DEF n, more, next
<1>3. k[n + 1] = next /\ \A i \in 0..n : k[i] = m[i]
  BY <1>1
<1>4. ASSUME NEW i \in 0 .. n + 1
      PROVE  k[i] = IF i = 0 THEN rows ELSE MergeRow(k[i - 1], more[i])
  <2>1. CASE i = 0
    BY <1>1, <1>2, <1>3, <2>1
  <2>2. CASE i = n + 1
    <3>1. i # 0 /\ i - 1 = n /\ n \in 0..n
      BY <1>1, <2>2
    <3> HIDE DEF k
    <3>2. k[i - 1] = goal /\ more[i] = patch /\ k[i] = next
      BY <1>1, <1>2, <1>3, <2>2, <3>1
    <3> QED
      BY <3>1, <3>2 DEF next
  <2>3. CASE i \in 1..n
    <3>1. i # 0 /\ i - 1 \in 0..n /\ i \in 0..n
      BY <1>1, <2>3
    <3> HIDE DEF k
    <3> QED
      BY <1>1, <1>2, <1>3, <2>3, <3>1
  <2> QED
    BY <1>1, <2>1, <2>2, <2>3
<1>5. k = [i \in 0 .. n + 1 |-> IF i = 0 THEN rows ELSE MergeRow(k[i - 1], more[i])]
  <2>1. k = [i \in 0 .. n + 1 |-> k[i]]
    OBVIOUS
  <2> HIDE DEF k
  <2> QED
    BY <1>4, <2>1
<1> HIDE DEF k
<1>6. Leads(rows, more, next, k)
  BY <1>1, <1>3, <1>5 DEF Leads
<1> QED
  BY <1>6 DEF more, next

\* The first patch applied.
LEMMA LeadsTail ==
  ASSUME NEW rows, NEW patches \in Seq(Encoded), NEW goal, NEW m, patches # <<>>,
         Leads(rows, patches, goal, m)
  PROVE  \E k : Leads(MergeRow(rows, Head(patches)), Tail(patches), goal, k)
<1> DEFINE n == Len(patches)
           rest == Tail(patches)
           first == MergeRow(rows, Head(patches))
           k == [i \in 0 .. n - 1 |-> m[i + 1]]
<1>1. /\ n \in Nat /\ n - 1 \in Nat /\ Len(rest) = n - 1 /\ Head(patches) = patches[1]
      /\ \A i \in 1 .. n - 1 : rest[i] = patches[i + 1]
  OBVIOUS
<1>2. /\ m[n] = goal
      /\ \A i \in 0..n : m[i] = IF i = 0 THEN rows ELSE MergeRow(m[i - 1], patches[i])
  <2> HIDE DEF n
  <2> QED
    BY <1>1 DEF Leads, n
<1> HIDE DEF n, rest
<1>3. \A i \in 0 .. n - 1 : k[i] = m[i + 1]
  OBVIOUS
<1>4. ASSUME NEW i \in 0 .. n - 1
      PROVE  k[i] = IF i = 0 THEN first ELSE MergeRow(k[i - 1], rest[i])
  <2>1. CASE i = 0
    <3>1. 0 \in 0..n /\ 1 \in 0..n /\ 1 - 1 = 0 /\ 0 + 1 = 1 /\ 1 # 0
      BY <1>1
    <3>2. m[0] = rows /\ m[1] = MergeRow(m[0], patches[1])
      BY <1>2, <3>1
    <3> HIDE DEF k
    <3> QED
      BY <1>1, <1>3, <2>1, <3>1, <3>2
  <2>2. CASE i # 0
    <3>1. /\ i \in 1 .. n - 1 /\ i - 1 \in 0 .. n - 1 /\ i + 1 \in 0..n /\ i + 1 # 0
          /\ (i + 1) - 1 = i /\ (i - 1) + 1 = i
      BY <1>1, <2>2
    <3>2. m[i + 1] = MergeRow(m[i], patches[i + 1])
      BY <1>2, <3>1
    <3> HIDE DEF k
    <3>3. k[i] = m[i + 1] /\ k[i - 1] = m[i] /\ rest[i] = patches[i + 1]
      BY <1>1, <1>3, <3>1
    <3> QED
      BY <2>2, <3>2, <3>3
  <2> QED
    BY <2>1, <2>2
<1>5. k = [i \in 0 .. n - 1 |-> IF i = 0 THEN first ELSE MergeRow(k[i - 1], rest[i])]
  <2>1. k = [i \in 0 .. n - 1 |-> k[i]]
    OBVIOUS
  <2> HIDE DEF k, first
  <2> QED
    BY <1>4, <2>1
<1>6. k[n - 1] = goal
  <2>1. n - 1 \in 0 .. n - 1 /\ (n - 1) + 1 = n
    BY <1>1
  <2> HIDE DEF k
  <2> QED
    BY <1>2, <1>3, <2>1
<1> HIDE DEF k, first
<1>7. Leads(first, rest, goal, k)
  BY <1>1, <1>5, <1>6 DEF Leads
<1> QED
  BY <1>7 DEF first, rest

\* The patches on their way lead a connected page to the hub's rows.
CaughtUp ==
  /\ pending \in Seq(Encoded)
  /\ connected => \E m : Leads(page, pending, EncodeAll(arrays[snap]), m)

\* Every step keeps the page on its way to the hub's rows.
LEMMA CaughtUpInductive == CaughtUp /\ HubTells /\ Frozen /\ [Next]_vars => CaughtUp'
<1> SUFFICES ASSUME CaughtUp, HubTells, Frozen, [Next]_vars PROVE CaughtUp'
  OBVIOUS
<1> DEFINE rows == EncodeAll(arrays[snap])
<1>1. ASSUME NEW s \in Sources, NEW report \in Reports[s], Collect(s, report) PROVE CaughtUp'
  <2>1. PICK st, row : Publishes(s, report, st, row)
    BY <1>1, CollectPublishes
  <2>2. /\ arrays[snap] \in Seq(Rows) /\ row \in Rows
        /\ arrays'[snap'] = Upsert(arrays[snap], row)
        /\ pending' = IF connected THEN Append(pending, Encode(row)) ELSE pending
        /\ page' = page /\ connected' = connected
    BY <2>1 DEF Publishes, HubTells
  <2>3. EncodeAll(arrays'[snap']) = MergeRow(rows, Encode(row))
    BY <2>2, MergeFollowsUpsert
  <2>4. Encode(row) \in Encoded /\ pending \in Seq(Encoded)
    BY <2>2 DEF Encoded, CaughtUp
  <2>5. pending' \in Seq(Encoded)
    BY <2>2, <2>4
  <2>6. ASSUME connected' PROVE \E m : Leads(page', pending', EncodeAll(arrays'[snap']), m)
    <3>1. connected /\ pending' = Append(pending, Encode(row))
      BY <2>2, <2>6
    <3>2. PICK m : Leads(page, pending, rows, m)
      BY <3>1 DEF CaughtUp
    <3> HIDE DEF rows
    <3>3. \E k : Leads(page, Append(pending, Encode(row)), MergeRow(rows, Encode(row)), k)
      BY <2>4, <3>2, LeadsOn
    <3> QED
      BY <2>2, <2>3, <3>1, <3>3
  <2> QED
    BY <2>5, <2>6 DEF CaughtUp
<1>2. CASE Connect
  <2>1. pending' = <<>> /\ page' = rows /\ EncodeAll(arrays'[snap']) = rows
    BY <1>2 DEF Connect, listVars
  <2>2. Len(<<>>) = 0 /\ <<>> \in Seq(Encoded)
    OBVIOUS
  <2>3. Leads(page', <<>>, rows, [i \in 0..0 |-> page'])
    <3> HIDE DEF rows
    <3>1. [i \in 0..0 |-> page']
            = [i \in 0..0 |-> IF i = 0 THEN page'
                               ELSE MergeRow([j \in 0..0 |-> page'][i - 1], <<>>[i])]
      OBVIOUS
    <3> QED
      BY <2>1, <2>2, <3>1 DEF Leads
  <2> QED
    BY <2>1, <2>2, <2>3 DEF CaughtUp
<1>3. CASE Disconnect
  <2>1. pending' = <<>> /\ ~ connected' /\ <<>> \in Seq(Encoded)
    BY <1>3 DEF Disconnect
  <2> QED
    BY <2>1 DEF CaughtUp
<1>4. CASE OnPatch
  <2>1. /\ pending # <<>> /\ page' = MergeRow(page, Head(pending)) /\ pending' = Tail(pending)
        /\ connected' = connected /\ EncodeAll(arrays'[snap']) = rows
    BY <1>4 DEF OnPatch, listVars
  <2>2. pending \in Seq(Encoded) /\ pending' \in Seq(Encoded)
    BY <2>1 DEF CaughtUp
  <2>3. ASSUME connected' PROVE \E m : Leads(page', pending', EncodeAll(arrays'[snap']), m)
    <3>1. PICK m : Leads(page, pending, rows, m)
      BY <2>1, <2>3 DEF CaughtUp
    <3> HIDE DEF rows
    <3>2. \E k : Leads(MergeRow(page, Head(pending)), Tail(pending), rows, k)
      BY <2>1, <2>2, <3>1, LeadsTail
    <3> QED
      BY <2>1, <3>2
  <2> QED
    BY <2>2, <2>3 DEF CaughtUp
<1>5. ASSUME UNCHANGED <<listVars, pageVars>> PROVE CaughtUp'
  BY <1>5 DEF CaughtUp, listVars, pageVars
<1>6. CASE Snapshot \/ ReadRow \/ DropSnapshot \/ UNCHANGED vars
  BY <1>5, <1>6 DEF Snapshot, ReadRow, DropSnapshot, vars
<1> QED
  BY <1>1, <1>2, <1>3, <1>4, <1>6 DEF Next

\* Once a connected page has merged what is on its way it shows the hub's rows,
\* in the hub's order, whatever was published since the first frame.
THEOREM TunnelsPageShowsHubRows == Spec => []PageShowsHubRows
<1>1. Init => CaughtUp
  <2> SUFFICES ASSUME Init PROVE CaughtUp
    OBVIOUS
  <2>1. <<>> \in Seq(Encoded)
    OBVIOUS
  <2> QED
    BY <2>1 DEF Init, CaughtUp
<1>2. CaughtUp => PageShowsHubRows
  <2> SUFFICES ASSUME CaughtUp, connected
               PROVE  Merged(page, pending) = EncodeAll(arrays[snap])
    BY DEF PageShowsHubRows
  <2>1. PICK m : Leads(page, pending, EncodeAll(arrays[snap]), m)
    BY DEF CaughtUp
  <2>2. Len(pending) \in Nat
    BY DEF CaughtUp
  <2> QED
    BY <2>1, <2>2, LeadsMerged
<1> QED
  BY <1>1, <1>2, InitFrozen, FrozenInductive, InitHubTells, HubTellsInductive,
     CaughtUpInductive, PTL DEF Spec
=============================================================================
