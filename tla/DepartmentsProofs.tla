-------------------------- MODULE DepartmentsProofs --------------------------
(***************************************************************************)
(* For any number of departments, pages and updates: with transactions one *)
(* at a time the closure table stays exact, and with any interleaving of   *)
(* their statements no transaction overwrites a version it has not seen.   *)
(***************************************************************************)
EXTENDS Departments, TLAPS

(* A closure over the departments of a table, by what its links satisfy:   *)
(* the ancestors of a department are itself and those of its parent, the   *)
(* distance of a pair is one number, the links are transitive, and of two  *)
(* ancestors of a department one is above the other.                       *)
Within(C, D) == \A a, d, k : <<a, d, k>> \in C => a \in D /\ d \in D
Rooted(table, D) == \A d \in D : table[d].parent \in D \cup {Root}
Stepwise(table, C, D) ==
  \A a \in Ids, d \in D, k \in Nat :
    <<a, d, k>> \in C <=>
      \/ a = d /\ k = 0
      \/ \E j \in Nat : <<a, table[d].parent, j>> \in C /\ k = j + 1
Unique(C) ==
  \A a, d \in Ids, j, k \in Nat : <<a, d, j>> \in C /\ <<a, d, k>> \in C => j = k
Transitive(C) ==
  \A a, b, d \in Ids, j, k \in Nat :
    <<a, b, j>> \in C /\ <<b, d, k>> \in C => <<a, d, j + k>> \in C
Comparable(C) ==
  \A a, b, d \in Ids, j, k \in Nat :
    <<a, d, j>> \in C /\ <<b, d, k>> \in C =>
      \E m \in Nat : <<a, b, m>> \in C \/ <<b, a, m>> \in C

Exact(table, C, D) ==
  /\ C \subseteq Links
  /\ Within(C, D) /\ Rooted(table, D) /\ Stepwise(table, C, D)
  /\ Unique(C) /\ Transitive(C) /\ Comparable(C)

-----------------------------------------------------------------------------
LEMMA Ancestors ==
  ASSUME NEW C \in SUBSET Links, NEW d
  PROVE  /\ \A l : l \in AncestorsIn(C, d) <=>
                     \E a \in Ids, k \in Nat : l = <<a, k>> /\ <<a, d, k>> \in C
         /\ \A l : l \in DescendantsIn(C, d) <=>
                     \E s \in Ids, k \in Nat : l = <<s, k>> /\ <<d, s, k>> \in C
<1>1. \A r \in C : \E a, s \in Ids, k \in Nat : r = <<a, s, k>>
  BY DEF Links
<1>2. ASSUME NEW l, l \in AncestorsIn(C, d)
      PROVE  \E a \in Ids, k \in Nat : l = <<a, k>> /\ <<a, d, k>> \in C
  <2>1. PICK r \in C : r[2] = d /\ l = <<r[1], r[3]>>
    BY <1>2 DEF AncestorsIn
  <2>2. PICK a \in Ids, s \in Ids, k \in Nat : r = <<a, s, k>>
    BY <1>1
  <2> QED
    BY <2>1, <2>2
<1>3. ASSUME NEW a \in Ids, NEW k \in Nat, <<a, d, k>> \in C
      PROVE  <<a, k>> \in AncestorsIn(C, d)
  BY <1>3 DEF AncestorsIn
<1>4. ASSUME NEW l, l \in DescendantsIn(C, d)
      PROVE  \E s \in Ids, k \in Nat : l = <<s, k>> /\ <<d, s, k>> \in C
  <2>1. PICK r \in C : r[1] = d /\ l = <<r[2], r[3]>>
    BY <1>4 DEF DescendantsIn
  <2>2. PICK a \in Ids, s \in Ids, k \in Nat : r = <<a, s, k>>
    BY <1>1
  <2> QED
    BY <2>1, <2>2
<1>5. ASSUME NEW s \in Ids, NEW k \in Nat, <<d, s, k>> \in C
      PROVE  <<s, k>> \in DescendantsIn(C, d)
  BY <1>5 DEF DescendantsIn
<1> QED
  BY <1>2, <1>3, <1>4, <1>5

LEMMA AncestorsType ==
  ASSUME NEW C, C \in SUBSET Links, NEW d
  PROVE  /\ \A l \in AncestorsIn(C, d) : \E a \in Ids, k \in Nat : l = <<a, k>>
         /\ \A l \in DescendantsIn(C, d) : \E a \in Ids, k \in Nat : l = <<a, k>>
<1>1. ASSUME NEW l \in AncestorsIn(C, d) PROVE \E a \in Ids, k \in Nat : l = <<a, k>>
  <2>1. \E a \in Ids, k \in Nat : l = <<a, k>> /\ <<a, d, k>> \in C
    BY Ancestors
  <2> QED
    BY <2>1
<1>2. ASSUME NEW l \in DescendantsIn(C, d) PROVE \E a \in Ids, k \in Nat : l = <<a, k>>
  <2>1. \E a \in Ids, k \in Nat : l = <<a, k>> /\ <<d, a, k>> \in C
    BY Ancestors
  <2> QED
    BY <2>1
<1> QED
  BY <1>1, <1>2

(* What the invariant of the runs says follows. *)
LEMMA ExactIsClosureExact == Exact(rows, closure, Departments) => ClosureExact
<1> SUFFICES ASSUME Exact(rows, closure, Departments) PROVE ClosureExact
  OBVIOUS
<1> USE DEF Exact
<1>1. ASSUME NEW r \in closure PROVE r[1] \in Departments /\ r[2] \in Departments
  <2>1. PICK a \in Ids, s \in Ids, k \in Nat : r = <<a, s, k>>
    BY DEF Links
  <2> QED
    BY <2>1 DEF Within
<1>2. ASSUME NEW d \in Departments PROVE rows[d].parent \in Departments \cup {Root}
  BY DEF Rooted
<1>3. ASSUME NEW d \in Departments
      PROVE  AncestorsIn(closure, d) =
               {<<d, 0>>} \cup {<<l[1], l[2] + 1>> : l \in AncestorsIn(closure, rows[d].parent)}
  <2> DEFINE up == rows[d].parent
             R == {<<d, 0>>} \cup {<<l[1], l[2] + 1>> : l \in AncestorsIn(closure, up)}
  <2>0. d \in Ids /\ closure \in SUBSET Links
    BY DEF Departments, DepartmentsIn
  <2>1. ASSUME NEW l, l \in AncestorsIn(closure, d) PROVE l \in R
    <3>1. PICK a \in Ids, k \in Nat : l = <<a, k>> /\ <<a, d, k>> \in closure
      BY <2>0, <2>1, Ancestors
    <3>2. CASE a = d /\ k = 0
      BY <3>1, <3>2
    <3>3. CASE \E j \in Nat : <<a, up, j>> \in closure /\ k = j + 1
      <4>1. PICK j \in Nat : <<a, up, j>> \in closure /\ k = j + 1
        BY <3>3
      <4>2. <<a, j>> \in AncestorsIn(closure, up)
        BY <4>1, <2>0, Ancestors
      <4> QED
        BY <4>1, <4>2, <3>1
    <3> QED
      BY <3>1, <3>2, <3>3 DEF Stepwise
  <2>2. ASSUME NEW l, l \in R PROVE l \in AncestorsIn(closure, d)
    <3>1. CASE l = <<d, 0>>
      BY <3>1, <2>0, Ancestors DEF Stepwise
    <3>2. CASE l \in {<<m[1], m[2] + 1>> : m \in AncestorsIn(closure, up)}
      <4>1. PICK m \in AncestorsIn(closure, up) : l = <<m[1], m[2] + 1>>
        BY <3>2
      <4>2. PICK a \in Ids, j \in Nat : m = <<a, j>> /\ <<a, up, j>> \in closure
        BY <2>0, Ancestors
      <4>3. <<a, d, j + 1>> \in closure /\ j + 1 \in Nat
        BY <4>2 DEF Stepwise
      <4>4. l = <<a, j + 1>>
        BY <4>1, <4>2
      <4> QED
        BY <4>3, <4>4, <2>0, Ancestors
    <3> QED
      BY <2>2, <3>1, <3>2
  <2> QED
    BY <2>1, <2>2
<1> QED
  BY <1>1, <1>2, <1>3 DEF ClosureExact

-----------------------------------------------------------------------------
(* The links once n has been created under p, and once its subtree has been *)
(* moved there.                                                            *)
CreatedAt(C, n, p, a, d, k) ==
  \/ <<a, d, k>> \in C
  \/ a = n /\ d = n /\ k = 0
  \/ d = n /\ \E j \in Nat : <<a, p, j>> \in C /\ k = j + 1

MovedTo(C, n, p, a, d, k) ==
  \/ /\ <<a, d, k>> \in C
     /\ ~ (/\ a # n /\ \E i \in Nat : <<a, n, i>> \in C
           /\ \E j \in Nat : <<n, d, j>> \in C)
  \/ \E i, j \in Nat : <<a, p, i>> \in C /\ <<n, d, j>> \in C /\ k = i + j + 1

(* A new leaf n under p: its links are those of p, one further away.       *)
LEMMA CreateExact ==
  ASSUME NEW table, NEW C, NEW D \in SUBSET Ids, Exact(table, C, D),
         NEW n \in Ids \ D, NEW p \in D \cup {Root},
         NEW after, after[n].parent = p, \A d \in D : after[d].parent = table[d].parent,
         NEW C2 \in SUBSET Links,
         \A a, d \in Ids, k \in Nat : <<a, d, k>> \in C2 <=> CreatedAt(C, n, p, a, d, k)
  PROVE  Exact(after, C2, D \cup {n})
<1> DEFINE E == D \cup {n}
<1> USE DEF Exact
<1>1. \A a, d, k : <<a, d, k>> \in C => a \in D /\ d \in D /\ k \in Nat
  BY DEF Within, Links
<1>2. \A a, d, k : <<a, d, k>> \in C2 => a \in Ids /\ d \in Ids /\ k \in Nat
  BY DEF Links
<1>3. \A a, k : <<a, n, k>> \notin C /\ <<n, a, k>> \notin C
  BY <1>1
<1>4. \A a, k : <<a, Root, k>> \notin C
  BY <1>1, RootAssumption
<1>13. \A a \in Ids, d \in Ids \ {n}, k \in Nat : <<a, d, k>> \in C2 <=> <<a, d, k>> \in C
  BY DEF CreatedAt
<1>14. \A a \in Ids, k \in Nat :
        <<a, n, k>> \in C2 <=> \/ a = n /\ k = 0
                               \/ \E j \in Nat : <<a, p, j>> \in C /\ k = j + 1
  <2> SUFFICES ASSUME NEW a \in Ids, NEW k \in Nat
               PROVE  <<a, n, k>> \in C2 <=> \/ a = n /\ k = 0
                                             \/ \E j \in Nat : <<a, p, j>> \in C /\ k = j + 1
    OBVIOUS
  <2>1. n \in Ids /\ <<a, n, k>> \notin C
    BY <1>3
  <2>2. \A d \in Ids : <<a, d, k>> \in C2 <=>
             \/ <<a, d, k>> \in C
             \/ a = n /\ d = n /\ k = 0
             \/ d = n /\ \E j \in Nat : <<a, p, j>> \in C /\ k = j + 1
    BY DEF CreatedAt
  <2> QED
    BY <2>1, <2>2
<1>15. \A a \in Ids, k \in Nat :
        <<a, n, k>> \in C2 /\ a # n => \E j \in Nat : <<a, p, j>> \in C /\ k = j + 1
  BY <1>14
<1>16. \A k \in Nat : <<n, n, k>> \in C2 => k = 0
  BY <1>14, <1>3
<1>5. Within(C2, E)
  <2> SUFFICES ASSUME NEW a, NEW d, NEW k, <<a, d, k>> \in C2 PROVE a \in E /\ d \in E
    BY DEF Within
  <2>1. a \in Ids /\ d \in Ids /\ k \in Nat
    BY <1>2
  <2>2. CASE d # n
    BY <2>1, <2>2, <1>13, <1>1
  <2>3. CASE d = n /\ a # n
    BY <2>1, <2>3, <1>15, <1>1
  <2> QED
    BY <2>2, <2>3
<1>6. Rooted(after, E)
  BY DEF Rooted
<1>7. Stepwise(after, C2, E)
  <2> SUFFICES ASSUME NEW a \in Ids, NEW d \in E, NEW k \in Nat
               PROVE  <<a, d, k>> \in C2 <=>
                        \/ a = d /\ k = 0
                        \/ \E j \in Nat : <<a, after[d].parent, j>> \in C2 /\ k = j + 1
    BY DEF Stepwise
  <2>1. CASE d = n
    <3>1. \A j \in Nat : <<a, p, j>> \in C2 <=> <<a, p, j>> \in C
      BY <1>2, <1>4, <1>13, RootAssumption
    <3> QED
      BY <2>1, <3>1, <1>14
  <2>2. CASE d # n
    <3>1. d \in D /\ after[d].parent = table[d].parent /\ after[d].parent # n
      BY <2>2, RootAssumption DEF Rooted
    <3>2. \A j \in Nat : <<a, after[d].parent, j>> \in C2 <=> <<a, table[d].parent, j>> \in C
      <4>1. CASE after[d].parent = Root
        BY <4>1, <3>1, <1>2, <1>4, RootAssumption
      <4>2. CASE after[d].parent \in Ids
        BY <4>2, <3>1, <1>13
      <4> QED
        BY <3>1, <4>1, <4>2 DEF Rooted
    <3>3. <<a, d, k>> \in C2 <=> <<a, d, k>> \in C
      BY <2>2, <3>1, <1>13
    <3> QED
      BY <3>1, <3>2, <3>3 DEF Stepwise
  <2> QED
    BY <2>1, <2>2
<1>8. Unique(C2)
  <2> SUFFICES ASSUME NEW a \in Ids, NEW d \in Ids, NEW j \in Nat, NEW k \in Nat,
                      <<a, d, j>> \in C2, <<a, d, k>> \in C2
               PROVE  j = k
    BY DEF Unique
  <2>1. CASE d # n
    BY <2>1, <1>13 DEF Unique
  <2>2. CASE d = n /\ a = n
    BY <2>2, <1>16
  <2>3. CASE d = n /\ a # n
    <3>1. PICK x \in Nat : <<a, p, x>> \in C /\ j = x + 1
      BY <2>3, <1>15
    <3>2. PICK y \in Nat : <<a, p, y>> \in C /\ k = y + 1
      BY <2>3, <1>15
    <3>3. p \in Ids
      BY <3>1, <1>1
    <3> QED
      BY <3>1, <3>2, <3>3 DEF Unique
  <2> QED
    BY <2>1, <2>2, <2>3
<1>9. Transitive(C2)
  <2> SUFFICES ASSUME NEW a \in Ids, NEW b \in Ids, NEW d \in Ids, NEW j \in Nat, NEW k \in Nat,
                      <<a, b, j>> \in C2, <<b, d, k>> \in C2
               PROVE  <<a, d, j + k>> \in C2
    BY DEF Transitive
  <2>1. CASE d # n
    <3>1. b # n /\ <<a, b, j>> \in C /\ <<b, d, k>> \in C
      <4>1. <<b, d, k>> \in C
        BY <2>1, <1>13
      <4> QED
        BY <4>1, <1>1, <1>13
    <3> QED
      BY <2>1, <3>1, <1>13 DEF Transitive
  <2>2. CASE d = n /\ b = n
    <3>1. k = 0
      BY <2>2, <1>16
    <3> QED
      BY <2>2, <3>1
  <2>3. CASE d = n /\ b # n
    <3>1. PICK y \in Nat : <<b, p, y>> \in C /\ k = y + 1
      BY <2>3, <1>15
    <3>2. <<a, b, j>> \in C /\ p \in Ids
      BY <2>3, <3>1, <1>1, <1>13
    <3>3. <<a, p, j + y>> \in C
      BY <3>1, <3>2 DEF Transitive
    <3>4. j + y \in Nat /\ j + k = (j + y) + 1 /\ j + k \in Nat
      BY <3>1
    <3> QED
      BY <2>3, <3>3, <3>4, <1>14
  <2> QED
    BY <2>1, <2>2, <2>3
<1>10. Comparable(C2)
  <2> SUFFICES ASSUME NEW a \in Ids, NEW b \in Ids, NEW d \in Ids, NEW j \in Nat, NEW k \in Nat,
                      <<a, d, j>> \in C2, <<b, d, k>> \in C2
               PROVE  \E m \in Nat : <<a, b, m>> \in C2 \/ <<b, a, m>> \in C2
    BY DEF Comparable
  <2>1. CASE d # n
    <3>1. <<a, d, j>> \in C /\ <<b, d, k>> \in C
      BY <2>1, <1>13
    <3>2. PICK m \in Nat : <<a, b, m>> \in C \/ <<b, a, m>> \in C
      BY <3>1 DEF Comparable
    <3> QED
      BY <3>2, <1>1, <1>13
  <2>2. CASE d = n /\ (a = n \/ b = n)
    BY <2>2
  <2>3. CASE d = n /\ a # n /\ b # n
    <3>1. PICK x \in Nat : <<a, p, x>> \in C
      BY <2>3, <1>15
    <3>2. PICK y \in Nat : <<b, p, y>> \in C
      BY <2>3, <1>15
    <3>3. p \in Ids
      BY <3>1, <1>1
    <3>4. PICK m \in Nat : <<a, b, m>> \in C \/ <<b, a, m>> \in C
      BY <3>1, <3>2, <3>3 DEF Comparable
    <3> QED
      BY <3>4, <1>1, <1>13, <1>3
  <2> QED
    BY <2>1, <2>2, <2>3
<1> QED
  BY <1>5, <1>6, <1>7, <1>8, <1>9, <1>10

(* A leaf n goes, with every link it is an end of.                         *)
LEMMA DeleteExact ==
  ASSUME NEW table, NEW C, NEW D \in SUBSET Ids, Exact(table, C, D),
         NEW n \in D, \A d \in D : table[d].parent # n,
         NEW after, \A d \in D \ {n} : after[d].parent = table[d].parent,
         NEW C2 \in SUBSET Links,
         \A a, d \in Ids, k \in Nat :
           <<a, d, k>> \in C2 <=> <<a, d, k>> \in C /\ a # n /\ d # n
  PROVE  Exact(after, C2, D \ {n})
<1> DEFINE E == D \ {n}
<1> USE DEF Exact
<1>1. \A a, d, k : <<a, d, k>> \in C => a \in D /\ d \in D /\ k \in Nat
  BY DEF Within, Links
<1>2. \A a, d, k : <<a, d, k>> \in C2 => a \in Ids /\ d \in Ids /\ k \in Nat
  BY DEF Links
<1>5. Within(C2, E)
  BY <1>1, <1>2 DEF Within
<1>6. Rooted(after, E)
  BY DEF Rooted
<1>7. Stepwise(after, C2, E)
  <2> SUFFICES ASSUME NEW a \in Ids, NEW d \in E, NEW k \in Nat
               PROVE  <<a, d, k>> \in C2 <=>
                        \/ a = d /\ k = 0
                        \/ \E j \in Nat : <<a, after[d].parent, j>> \in C2 /\ k = j + 1
    BY DEF Stepwise
  <2>1. after[d].parent = table[d].parent /\ after[d].parent # n
    OBVIOUS
  <2>2. \A j \in Nat : <<a, after[d].parent, j>> \in C2
                       <=> a # n /\ <<a, table[d].parent, j>> \in C
    BY <2>1, <1>1, <1>2
  <2>3. CASE a = n
    BY <2>2, <2>3
  <2>4. CASE a # n
    BY <2>2, <2>4 DEF Stepwise
  <2> QED
    BY <2>3, <2>4
<1>8. Unique(C2)
  BY DEF Unique
<1>9. Transitive(C2)
  <2> SUFFICES ASSUME NEW a \in Ids, NEW b \in Ids, NEW d \in Ids, NEW j \in Nat, NEW k \in Nat,
                      <<a, b, j>> \in C2, <<b, d, k>> \in C2
               PROVE  <<a, d, j + k>> \in C2
    BY DEF Transitive
  <2> QED
    BY DEF Transitive
<1>10. Comparable(C2)
  BY DEF Comparable
<1> QED
  BY <1>5, <1>6, <1>7, <1>8, <1>9, <1>10

(* The subtree of n goes under p, which is not in it: the links of the old *)
(* ancestors into the subtree give way to those of p and its ancestors.    *)
LEMMA MoveExact ==
  ASSUME NEW table, NEW C, NEW D \in SUBSET Ids, Exact(table, C, D),
         NEW n \in D, NEW p \in D \cup {Root}, \A k \in Nat : <<n, p, k>> \notin C,
         NEW after, after[n].parent = p, \A d \in D \ {n} : after[d].parent = table[d].parent,
         NEW C2 \in SUBSET Links,
         \A a, d \in Ids, k \in Nat : <<a, d, k>> \in C2 <=> MovedTo(C, n, p, a, d, k)
  PROVE  Exact(after, C2, D)
<1> DEFINE S(d) == \E j \in Nat : <<n, d, j>> \in C
           Up(a) == \E i \in Nat : <<a, p, i>> \in C
           New(a, d, k) == \E i, j \in Nat : <<a, p, i>> \in C /\ <<n, d, j>> \in C /\ k = i + j + 1
<1>a. /\ C \subseteq Links /\ Within(C, D) /\ Rooted(table, D) /\ Stepwise(table, C, D)
      /\ Unique(C) /\ Transitive(C) /\ Comparable(C) /\ n \in Ids
  BY DEF Exact
<1>1. \A a, d, k : <<a, d, k>> \in C => a \in D /\ d \in D /\ a \in Ids /\ d \in Ids /\ k \in Nat
  BY <1>a DEF Within, Links
<1>2. \A a, d, k : <<a, d, k>> \in C2 => a \in Ids /\ d \in Ids /\ k \in Nat
  BY DEF Links
<1>3. \A a, k : <<a, Root, k>> \notin C
  BY <1>1, RootAssumption
<1>4. \A d \in D : <<d, d, 0>> \in C
  BY <1>a DEF Stepwise
<1>5. ASSUME NEW a \in Ids, NEW b \in Ids, NEW j \in Nat, NEW k \in Nat,
             <<a, b, j>> \in C, <<b, a, k>> \in C
      PROVE  a = b
  <2>1. <<a, a, j + k>> \in C /\ j + k \in Nat
    BY <1>5, <1>a DEF Transitive
  <2>2. <<a, a, 0>> \in C
    BY <1>5, <1>1, <1>4
  <2>3. j + k = 0
    BY <2>1, <2>2, <1>a DEF Unique
  <2>4. j = 0
    BY <2>3
  <2>5. b \in D /\ <<a, b, 0>> \in C
    BY <2>4, <1>5, <1>1
  <2>6. a = b \/ \E m \in Nat : <<a, table[b].parent, m>> \in C /\ 0 = m + 1
    BY <2>5, <1>a DEF Stepwise
  <2>7. \A m \in Nat : 0 # m + 1
    OBVIOUS
  <2> QED
    BY <2>6, <2>7
<1>6. S(n) /\ ~S(p)
  BY <1>4
(* What S and Up do along the links. *)
<1>7. ASSUME NEW a \in Ids, NEW d \in Ids, NEW k \in Nat, <<a, d, k>> \in C, S(a) PROVE S(d)
  <2>1. PICK j \in Nat : <<n, a, j>> \in C
    BY <1>7
  <2>2. <<n, d, j + k>> \in C /\ j + k \in Nat
    BY <2>1, <1>7, <1>a DEF Transitive
  <2> QED
    BY <2>2
<1>8. ASSUME NEW a \in Ids, Up(a) PROVE ~S(a) /\ p \in Ids
  BY <1>8, <1>6, <1>7, <1>1
<1>9. ASSUME NEW a \in Ids, NEW d \in Ids, NEW k \in Nat, <<a, d, k>> \in C, S(d)
      PROVE  S(a) <=> ~(a # n /\ \E i \in Nat : <<a, n, i>> \in C)
  <2>1. PICK j \in Nat : <<n, d, j>> \in C
    BY <1>9
  <2>2. PICK m \in Nat : <<a, n, m>> \in C \/ <<n, a, m>> \in C
    BY <2>1, <1>9, <1>a DEF Comparable
  <2>3. S(a) /\ (\E i \in Nat : <<a, n, i>> \in C) => a = n
    BY <1>5, <1>a
  <2> QED
    BY <2>2, <2>3, <1>6
(* The new links, told apart by S. *)
<1>b. \A a, d \in Ids, k \in Nat :
        <<a, d, k>> \in C2 <=>
          \/ /\ <<a, d, k>> \in C
             /\ ~ (/\ a # n /\ \E i \in Nat : <<a, n, i>> \in C
                   /\ S(d))
          \/ New(a, d, k)
  BY DEF MovedTo
<1>10. \A a, d \in Ids, k \in Nat : New(a, d, k) => S(d) /\ Up(a)
  OBVIOUS
<1>11. \A a, d \in Ids, k \in Nat : ~S(d) => (<<a, d, k>> \in C2 <=> <<a, d, k>> \in C)
  <2> SUFFICES ASSUME NEW a \in Ids, NEW d \in Ids, NEW k \in Nat, ~S(d)
               PROVE  <<a, d, k>> \in C2 <=> <<a, d, k>> \in C
    OBVIOUS
  <2> QED
    BY <1>10, <1>b
<1>12. \A a, d \in Ids, k \in Nat :
         S(d) => (<<a, d, k>> \in C2 <=> \/ S(a) /\ <<a, d, k>> \in C
                                        \/ New(a, d, k))
  <2> HIDE DEF S, New
  <2> SUFFICES ASSUME NEW a \in Ids, NEW d \in Ids, NEW k \in Nat, S(d)
               PROVE  <<a, d, k>> \in C2 <=> (S(a) /\ <<a, d, k>> \in C) \/ New(a, d, k)
    OBVIOUS
  <2>1. <<a, d, k>> \in C2 <=>
          \/ <<a, d, k>> \in C /\ ~(a # n /\ \E i \in Nat : <<a, n, i>> \in C)
          \/ New(a, d, k)
    BY <1>b
  <2>2. <<a, d, k>> \in C => (S(a) <=> ~(a # n /\ \E i \in Nat : <<a, n, i>> \in C))
    BY <1>9
  <2> QED
    BY <2>1, <2>2
<1>13. \A a, d \in Ids, k \in Nat : <<a, d, k>> \in C2 /\ ~S(d) => <<a, d, k>> \in C /\ ~S(a)
  BY <1>11, <1>7
<1> HIDE DEF S, Up, New
<1>14. Within(C2, D)
  <2> SUFFICES ASSUME NEW a, NEW d, NEW k, <<a, d, k>> \in C2 PROVE a \in D /\ d \in D
    BY DEF Within
  <2>1. CASE <<a, d, k>> \in C
    BY <2>1, <1>1
  <2>2. CASE New(a, d, k)
    BY <2>2, <1>1 DEF New
  <2> QED
    BY <2>1, <2>2, <1>2, <1>11, <1>12
<1>15. Rooted(after, D)
  BY <1>a DEF Rooted
<1>16. Stepwise(after, C2, D)
  <2> SUFFICES ASSUME NEW a \in Ids, NEW d \in D, NEW k \in Nat
               PROVE  <<a, d, k>> \in C2 <=>
                        \/ a = d /\ k = 0
                        \/ \E j \in Nat : <<a, after[d].parent, j>> \in C2 /\ k = j + 1
    BY DEF Stepwise
  <2>0. d \in Ids /\ (<<a, d, k>> \in C <=> \/ a = d /\ k = 0
                                          \/ \E j \in Nat : <<a, table[d].parent, j>> \in C /\ k = j + 1)
    BY <1>a DEF Stepwise
  (* The department itself: its only link from inside the subtree is its own. *)
  <2>1. CASE d = n
    <3>1. \A j \in Nat : <<a, p, j>> \in C2 <=> <<a, p, j>> \in C
      BY <1>2, <1>3, <1>6, <1>11
    <3>2. S(a) /\ <<a, n, k>> \in C <=> a = n /\ k = 0
      <4>1. ASSUME S(a), <<a, n, k>> \in C PROVE a = n /\ k = 0
        <5>1. a = n
          BY <4>1, <1>5, <1>a DEF S
        <5> QED
          BY <4>1, <5>1, <1>4, <1>a DEF Unique
      <4> QED
        BY <4>1, <1>4, <1>6
    <3>3. New(a, n, k) <=> \E j \in Nat : <<a, p, j>> \in C /\ k = j + 1
      <4>1. ASSUME New(a, n, k) PROVE \E j \in Nat : <<a, p, j>> \in C /\ k = j + 1
        <5>1. PICK i \in Nat, j \in Nat : <<a, p, i>> \in C /\ <<n, n, j>> \in C /\ k = i + j + 1
          BY <4>1 DEF New
        <5>2. j = 0
          BY <5>1, <1>4, <1>a DEF Unique
        <5>3. k = i + 1
          BY <5>1, <5>2
        <5> QED
          BY <5>1, <5>3
      <4>2. ASSUME NEW j \in Nat, <<a, p, j>> \in C, k = j + 1 PROVE New(a, n, k)
        <5>1. <<n, n, 0>> \in C /\ k = j + 0 + 1 /\ 0 \in Nat
          BY <4>2, <1>4
        <5> QED
          BY <5>1, <4>2 DEF New
      <4> QED
        BY <4>1, <4>2
    <3>4. <<a, n, k>> \in C2 <=> (S(a) /\ <<a, n, k>> \in C) \/ New(a, n, k)
      BY <1>6, <1>12, <1>a
    <3> QED
      BY <2>1, <3>1, <3>2, <3>3, <3>4
  (* Outside the subtree nothing changes. *)
  <2>2. CASE ~S(d)
    <3>0. d # n /\ after[d].parent = table[d].parent
      BY <2>2, <1>6
    <3>1. ~S(table[d].parent)
      <4>1. ASSUME NEW j \in Nat, <<n, table[d].parent, j>> \in C PROVE FALSE
        <5>0. j + 1 \in Nat
          OBVIOUS
        <5>1. <<n, d, j + 1>> \in C
          BY <4>1, <5>0, <1>a DEF Stepwise
        <5> QED
          BY <5>0, <5>1, <2>2 DEF S
      <4> QED
        BY <4>1 DEF S
    <3>2. \A j \in Nat : <<a, table[d].parent, j>> \in C2 <=> <<a, table[d].parent, j>> \in C
      BY <1>2, <1>1, <1>11, <3>1
    <3>3. <<a, d, k>> \in C2 <=> <<a, d, k>> \in C
      BY <2>2, <2>0, <1>11
    <3> QED
      BY <2>0, <3>0, <3>2, <3>3
  (* Inside, the parent is inside too, one nearer to n. *)
  <2>3. CASE S(d) /\ d # n
    <3> DEFINE up == table[d].parent
    <3>0. after[d].parent = up
      BY <2>3
    <3>1. \A j \in Nat : <<n, d, j>> \in C <=> \E i \in Nat : <<n, up, i>> \in C /\ j = i + 1
      BY <2>3, <1>a DEF Stepwise
    <3>2. S(up) /\ up \in Ids
      BY <2>3, <3>1, <1>1 DEF S
    <3>3. New(a, d, k) <=> \E j \in Nat : New(a, up, j) /\ k = j + 1
      <4>1. ASSUME New(a, d, k) PROVE \E j \in Nat : New(a, up, j) /\ k = j + 1
        <5>1. PICK i \in Nat, j \in Nat : <<a, p, i>> \in C /\ <<n, d, j>> \in C /\ k = i + j + 1
          BY <4>1 DEF New
        <5>2. PICK m \in Nat : <<n, up, m>> \in C /\ j = m + 1
          BY <5>1, <3>1
        <5>3. i + m + 1 \in Nat /\ k = (i + m + 1) + 1
          BY <5>1, <5>2
        <5>4. New(a, up, i + m + 1)
          BY <5>1, <5>2 DEF New
        <5> QED
          BY <5>3, <5>4
      <4>2. ASSUME NEW j \in Nat, New(a, up, j), k = j + 1 PROVE New(a, d, k)
        <5>1. PICK i \in Nat, m \in Nat : <<a, p, i>> \in C /\ <<n, up, m>> \in C /\ j = i + m + 1
          BY <4>2 DEF New
        <5>2. m + 1 \in Nat /\ k = i + (m + 1) + 1
          BY <5>1, <4>2
        <5>3. <<n, d, m + 1>> \in C
          BY <5>1, <5>2, <3>1
        <5> QED
          BY <5>1, <5>2, <5>3 DEF New
      <4> QED
        BY <4>1, <4>2
    <3>4. <<a, d, k>> \in C2 <=> (S(a) /\ <<a, d, k>> \in C) \/ New(a, d, k)
      BY <2>3, <2>0, <1>12
    <3>5. \A j \in Nat : <<a, up, j>> \in C2 <=> (S(a) /\ <<a, up, j>> \in C) \/ New(a, up, j)
      BY <3>2, <1>12
    <3>6. a = d /\ k = 0 => S(a) /\ <<a, d, k>> \in C
      BY <2>3, <1>4
    <3> QED
      BY <2>0, <3>0, <3>3, <3>4, <3>5, <3>6
  <2> QED
    BY <2>1, <2>2, <2>3
<1>17. Unique(C2)
  <2> SUFFICES ASSUME NEW a \in Ids, NEW d \in Ids, NEW j \in Nat, NEW k \in Nat,
                      <<a, d, j>> \in C2, <<a, d, k>> \in C2
               PROVE  j = k
    BY DEF Unique
  <2>1. CASE ~S(d) \/ S(a)
    <3>1. S(a) => ~New(a, d, j) /\ ~New(a, d, k)
      BY <1>10, <1>8
    <3>2. <<a, d, j>> \in C /\ <<a, d, k>> \in C
      BY <2>1, <3>1, <1>11, <1>12
    <3> QED
      BY <3>2, <1>a DEF Unique
  <2>2. CASE S(d) /\ ~S(a)
    <3>1. New(a, d, j) /\ New(a, d, k)
      BY <2>2, <1>12
    <3>2. PICK x \in Nat, y \in Nat : <<a, p, x>> \in C /\ <<n, d, y>> \in C /\ j = x + y + 1
      BY <3>1 DEF New
    <3>3. PICK u \in Nat, v \in Nat : <<a, p, u>> \in C /\ <<n, d, v>> \in C /\ k = u + v + 1
      BY <3>1 DEF New
    <3>4. x = u /\ y = v
      BY <3>2, <3>3, <1>1, <1>a DEF Unique
    <3> QED
      BY <3>2, <3>3, <3>4
  <2> QED
    BY <2>1, <2>2
<1>18. Transitive(C2)
  <2> SUFFICES ASSUME NEW a \in Ids, NEW b \in Ids, NEW d \in Ids, NEW j \in Nat, NEW k \in Nat,
                      <<a, b, j>> \in C2, <<b, d, k>> \in C2
               PROVE  <<a, d, j + k>> \in C2
    BY DEF Transitive
  <2>0. j + k \in Nat
    OBVIOUS
  <2>1. CASE ~S(d)
    <3>1. <<b, d, k>> \in C /\ ~S(b)
      BY <2>1, <1>13
    <3>2. <<a, b, j>> \in C
      BY <3>1, <1>13
    <3>3. <<a, d, j + k>> \in C
      BY <3>1, <3>2, <1>a DEF Transitive
    <3> QED
      BY <3>3, <2>0, <2>1, <1>11
  <2>2. CASE S(d) /\ S(b)
    <3>1. <<b, d, k>> \in C
      BY <2>2, <1>8, <1>10, <1>12
    <3>2. CASE S(a) /\ <<a, b, j>> \in C
      <4>1. <<a, d, j + k>> \in C
        BY <3>1, <3>2, <1>a DEF Transitive
      <4> QED
        BY <4>1, <3>2, <2>2, <2>0, <1>12
    <3>3. CASE New(a, b, j)
      <4>1. PICK x \in Nat, y \in Nat : <<a, p, x>> \in C /\ <<n, b, y>> \in C /\ j = x + y + 1
        BY <3>3 DEF New
      <4>2. <<n, d, y + k>> \in C /\ y + k \in Nat /\ j + k = x + (y + k) + 1
        BY <4>1, <3>1, <1>a DEF Transitive
      <4>3. New(a, d, j + k)
        BY <4>1, <4>2 DEF New
      <4> QED
        BY <4>3, <2>2, <2>0, <1>12
    <3> QED
      BY <3>2, <3>3, <2>2, <1>12
  <2>3. CASE S(d) /\ ~S(b)
    <3>0. New(b, d, k)
      BY <2>3, <1>12
    <3>1. PICK x \in Nat, y \in Nat : <<b, p, x>> \in C /\ <<n, d, y>> \in C /\ k = x + y + 1
      BY <3>0 DEF New
    <3>2. <<a, b, j>> \in C /\ p \in Ids
      BY <2>3, <3>1, <1>13, <1>1
    <3>3. <<a, p, j + x>> \in C /\ j + x \in Nat /\ j + k = (j + x) + y + 1
      BY <3>1, <3>2, <1>a DEF Transitive
    <3>4. New(a, d, j + k)
      BY <3>1, <3>3 DEF New
    <3> QED
      BY <3>4, <2>3, <2>0, <1>12
  <2> QED
    BY <2>1, <2>2, <2>3
<1>19. Comparable(C2)
  <2> SUFFICES ASSUME NEW a \in Ids, NEW b \in Ids, NEW d \in Ids, NEW j \in Nat, NEW k \in Nat,
                      <<a, d, j>> \in C2, <<b, d, k>> \in C2
               PROVE  \E m \in Nat : <<a, b, m>> \in C2 \/ <<b, a, m>> \in C2
    BY DEF Comparable
  (* One inside the subtree, one a new ancestor of it. *)
  <2>1. ASSUME NEW u \in Ids, NEW v \in Ids, S(v), Up(u) PROVE \E m \in Nat : <<u, v, m>> \in C2
    <3>1. PICK x \in Nat : <<u, p, x>> \in C
      BY <2>1 DEF Up
    <3>2. PICK y \in Nat : <<n, v, y>> \in C
      BY <2>1 DEF S
    <3>3. PICK m \in Nat : m = x + y + 1
      OBVIOUS
    <3>4. New(u, v, m)
      BY <3>1, <3>2, <3>3 DEF New
    <3> QED
      BY <3>4, <2>1, <1>12
  <2>2. CASE ~S(d)
    <3>1. <<a, d, j>> \in C /\ <<b, d, k>> \in C /\ ~S(a) /\ ~S(b)
      BY <2>2, <1>13
    <3>2. PICK m \in Nat : <<a, b, m>> \in C \/ <<b, a, m>> \in C
      BY <3>1, <1>a DEF Comparable
    <3> QED
      BY <3>1, <3>2, <1>11
  <2>3. CASE S(d) /\ S(a) /\ S(b)
    <3>1. <<a, d, j>> \in C /\ <<b, d, k>> \in C
      BY <2>3, <1>8, <1>10, <1>12
    <3>2. PICK m \in Nat : <<a, b, m>> \in C \/ <<b, a, m>> \in C
      BY <3>1, <1>a DEF Comparable
    <3> QED
      BY <2>3, <3>2, <1>12
  <2>4. CASE S(d) /\ ~S(a) /\ ~S(b)
    <3>1. Up(a) /\ Up(b)
      BY <2>4, <1>10, <1>12
    <3>2. p \in Ids
      BY <3>1, <1>8
    <3>3. PICK m \in Nat : <<a, b, m>> \in C \/ <<b, a, m>> \in C
      BY <3>1, <3>2, <1>a DEF Comparable, Up
    <3> QED
      BY <2>4, <3>3, <1>11
  <2>5. CASE S(d) /\ S(a) /\ ~S(b)
    BY <2>5, <2>1, <1>10, <1>12
  <2>6. CASE S(d) /\ ~S(a) /\ S(b)
    BY <2>6, <2>1, <1>10, <1>12
  <2> QED
    BY <2>2, <2>3, <2>4, <2>5, <2>6
<1> QED
  BY <1>14, <1>15, <1>16, <1>17, <1>18, <1>19 DEF Exact

-----------------------------------------------------------------------------
(***************************************************************************)
(* The invariant of both datasources: what a page shows of a department is *)
(* its row or an earlier version of it, and a transaction that has written *)
(* a row holds it at the version its page has seen.                        *)
(***************************************************************************)
Asked(t, view) ==
  /\ t.pc # "idle" /\ t.kind # "none" /\ t.id \in Ids
  /\ t.kind = "create" => rows[t.id] = NoRow /\ t.seen = 0
  /\ t.kind # "create" => t.id \in DepartmentsIn(view) /\ t.seen = view[t.id].version
  /\ t.kind = "update" => t.seen < MaxVersion
  /\ t.pc \notin {"parent", "cycle", "write"} => t.wrote
  /\ t.wrote /\ t.kind # "create" => Current(t.id, t.seen)

Bounded == \A d \in Departments : rows[d].version \in 1 .. MaxVersion
Later ==
  \A p \in Admins, d \in Ids :
    page[p][d] = rows[d] \/ page[p][d].version < rows[d].version
AllAsked == \A p \in Admins : tx[p] = Idle \/ Asked(tx[p], page[p])
Apart ==
  \A p, q \in Admins :
    p # q /\ tx[p] # Idle /\ tx[q] # Idle /\ tx[p].id = tx[q].id =>
      tx[p].kind # "create" /\ ~(tx[p].wrote /\ tx[q].wrote)

Versions == TypeOK /\ Bounded /\ Later /\ AllAsked /\ Apart

-----------------------------------------------------------------------------
(* Types. *)

LEMMA IdleType == Idle \in Tx
  BY DEF Idle, Tx

LEMMA RequestType ==
  ASSUME NEW kind \in {"create", "update", "delete"}, NEW id \in Ids,
         NEW parent \in Ids \cup {Root}, NEW seen \in Nat, NEW from \in Ids \cup {Root}
  PROVE  /\ Request(kind, id, parent, seen, from) \in Tx
         /\ Request(kind, id, parent, seen, from).pc = "write"
         /\ Request(kind, id, parent, seen, from).kind = kind
         /\ Request(kind, id, parent, seen, from).id = id
         /\ Request(kind, id, parent, seen, from).parent = parent
         /\ Request(kind, id, parent, seen, from).seen = seen
         /\ Request(kind, id, parent, seen, from).from = from
         /\ Request(kind, id, parent, seen, from).wrote = FALSE
         /\ Request(kind, id, parent, seen, from).del = {} /\ Request(kind, id, parent, seen, from).ins = {}
  BY DEF Request, Idle, Tx

(* What an update that moves asks for changes no part of its request.      *)
LEMMA AskingType ==
  ASSUME NEW t \in Tx, t.pc = "write"
  PROVE  /\ Asking(t) \in Tx /\ Asking(t).pc \in {"parent", "write"}
         /\ Asking(t).pc = "parent" <=> Moves(t) /\ t.parent # Root
         /\ Asking(t).kind = t.kind /\ Asking(t).id = t.id /\ Asking(t).parent = t.parent
         /\ Asking(t).seen = t.seen /\ Asking(t).from = t.from /\ Asking(t).wrote = t.wrote
         /\ Asking(t).del = t.del /\ Asking(t).ins = t.ins
<1>1. CASE Moves(t) /\ t.parent # Root
  BY <1>1 DEF Asking, Tx
<1>2. CASE ~(Moves(t) /\ t.parent # Root)
  BY <1>2 DEF Asking
<1> QED
  BY <1>1, <1>2

LEMMA NewLinksType ==
  ASSUME TypeOK, NEW p \in Admins
  PROVE  NewLinks(p) \in SUBSET Links
<1>1. Sees(p) \in SUBSET Links /\ tx[p] \in Tx
  BY DEF TypeOK, Sees, Tx
<1>2. ASSUME NEW a \in AncestorsIn(Sees(p), tx[p].parent), NEW s \in tx[p].tree
      PROVE  <<a[1], s[1], a[2] + s[2] + 1>> \in Links
  <2>a. \A l \in AncestorsIn(Sees(p), tx[p].parent) : \E x \in Ids, i \in Nat : l = <<x, i>>
    BY <1>1, AncestorsType
  <2>1. PICK x \in Ids, i \in Nat : a = <<x, i>>
    BY <2>a
  <2>2. PICK y \in Ids, j \in Nat : s = <<y, j>>
    BY <1>1 DEF Tx
  <2> QED
    BY <2>1, <2>2 DEF Links
<1> QED
  BY <1>2 DEF NewLinks

LEMMA TypeStep == Versions /\ [Next]_vars => TypeOK'
<1> SUFFICES ASSUME Versions, [Next]_vars PROVE TypeOK'
  OBVIOUS
<1>t. TypeOK /\ AllAsked
  BY DEF Versions
<1>0. CASE UNCHANGED vars
  BY <1>t, <1>0 DEF TypeOK, vars
<1>1. ASSUME NEW p \in Admins, NEW t \in Tx, tx' = [tx EXCEPT ![p] = t],
             UNCHANGED <<rows, closure, page, dialect>>
      PROVE  TypeOK'
  BY <1>t, <1>1 DEF TypeOK
<1>2. ASSUME NEW p \in Admins PROVE tx[p] \in Tx
  BY <1>t DEF TypeOK
<1>3. ASSUME NEW p \in Admins, Load(p) PROVE TypeOK'
  BY <1>t, <1>3 DEF Load, TypeOK
<1>4. ASSUME NEW p \in Admins, Create(p) PROVE TypeOK'
  <2>1. PICK d \in Ids, parent \in {Root} \cup (DepartmentsIn(page[p]) \cap Departments) :
          Begins(p, [Request("create", d, parent, 0, parent) EXCEPT !.tree = {<<d, 0>>}])
    BY <1>4 DEF Create
  <2>2. parent \in Ids \cup {Root}
    BY DEF DepartmentsIn
  <2>3. Request("create", d, parent, 0, parent) \in Tx
    BY <2>2, RequestType
  <2>4. [Request("create", d, parent, 0, parent) EXCEPT !.tree = {<<d, 0>>}] \in Tx
    BY <2>3 DEF Tx
  <2> QED
    BY <2>1, <2>4, <1>1 DEF Begins
<1>5. ASSUME NEW p \in Admins, Update(p) PROVE TypeOK'
  <2>1. PICK d \in DepartmentsIn(page[p]) : \E parent \in ParentOptions(page[p], d) :
          Begins(p, Asking(Request("update", d, parent, page[p][d].version, rows[d].parent)))
    BY <1>5 DEF Update
  <2>2. PICK parent \in ParentOptions(page[p], d) :
          Begins(p, Asking(Request("update", d, parent, page[p][d].version, rows[d].parent)))
    BY <2>1
  <2>3. d \in Ids /\ parent \in Ids \cup {Root} /\ page[p][d] \in Row /\ rows[d] \in Row
    BY <1>t DEF DepartmentsIn, ParentOptions, TypeOK
  <2>v. PICK v \in Nat : v = page[p][d].version
    BY <2>3 DEF Row
  <2>f. PICK f \in Ids \cup {Root} : f = rows[d].parent
    BY <2>3 DEF Row
  <2> DEFINE u == Request("update", d, parent, v, f)
  <2>4. u \in Tx /\ u.pc = "write"
    BY <2>3 DEF Request, Idle, Tx
  <2>5. Asking(u) \in Tx
    <3> HIDE DEF u
    <3> QED
      BY <2>4, AskingType
  <2> QED
    BY <2>2, <2>5, <2>v, <2>f, <1>1 DEF Begins
<1>6. ASSUME NEW p \in Admins, Delete(p) PROVE TypeOK'
  <2>1. PICK d \in DepartmentsIn(page[p]) :
          Begins(p, Request("delete", d, Root, page[p][d].version, Root))
    BY <1>6 DEF Delete
  <2>2. d \in Ids /\ page[p][d] \in Row
    BY <1>t DEF DepartmentsIn, TypeOK
  <2>3. Request("delete", d, Root, page[p][d].version, Root) \in Tx
    BY <2>2, RequestType DEF Row
  <2> QED
    BY <2>1, <2>3, <1>1 DEF Begins
<1>7. ASSUME NEW p \in Admins, Write(p) PROVE TypeOK'
  <2> DEFINE t == tx[p]
             ins == IF t.kind = "create" THEN {<<t.id, t.id, 0>>} ELSE {}
             del == IF t.kind = "delete" THEN Cascade(t.id) ELSE {}
             pc == IF Moves(t) THEN "links"
                   ELSE IF t.kind = "create" /\ t.parent # Root THEN "above"
                   ELSE "commit"
  <2>1. t \in Tx /\ t.pc = "write" /\ t.id \in Ids
    BY <1>7, <1>t, <1>2 DEF Write, Step, AllAsked, Asked, Idle
  <2>2. ins \in SUBSET Links /\ del \in SUBSET Links
    BY <2>1, <1>t DEF Cascade, TypeOK, Links
  <2>3. [t EXCEPT !.wrote = TRUE, !.ins = ins, !.del = del, !.pc = pc] \in Tx
    <3> HIDE DEF t, ins, del
    <3> QED
      BY <2>1, <2>2 DEF Tx
  <2> QED
    BY <1>7, <2>3, <1>1 DEF Write, Step
<1>8. ASSUME NEW p \in Admins, ReadLinks(p) PROVE TypeOK'
  <2> DEFINE t == tx[p]
             tree == DescendantsIn(closure, t.id)
             old == {l[1] : l \in AncestorsIn(closure, t.id)} \ {t.id}
  <2>1. closure \in SUBSET Links
    BY <1>t DEF TypeOK
  <2>a. /\ \A l \in tree : \E s \in Ids, k \in Nat : l = <<s, k>>
        /\ \A l \in AncestorsIn(closure, t.id) : \E a \in Ids, k \in Nat : l = <<a, k>>
    BY <2>1, AncestorsType
  <2>2. tree \in SUBSET (Ids \X Nat)
    <3> HIDE DEF tree
    <3> QED
      BY <2>a
  <2>3. old \in SUBSET Ids
    BY <2>a
  <2>4. [t EXCEPT !.tree = tree, !.old = old, !.pc = "find"] \in Tx
    <3> HIDE DEF t, tree, old
    <3> QED
      BY ZenonT(30), <1>2, <2>2, <2>3 DEF Tx, t
  <2> QED
    BY <1>8, <2>4, <1>1 DEF ReadLinks, Step
<1>9. ASSUME NEW p \in Admins, FindLinks(p) PROVE TypeOK'
  <2>1. Crossing(tx[p]) \in SUBSET Links
    BY <1>t DEF TypeOK, Crossing
  <2>2. [tx[p] EXCEPT !.targets = Crossing(tx[p]), !.pc = "unlink"] \in Tx
    BY ZenonT(30), <1>2, <2>1 DEF Tx
  <2> QED
    BY <1>9, <2>2, <1>1 DEF FindLinks, Step
<1>10. ASSUME NEW p \in Admins, DeleteLinks(p) PROVE TypeOK'
  <2> DEFINE t == tx[p]
             pc == IF t.parent = Root THEN "commit" ELSE "above"
  <2>1. [t EXCEPT !.del = t.targets \cap closure, !.pc = pc] \in Tx
    BY ZenonT(30), <1>2 DEF Tx
  <2> QED
    BY <1>10, <2>1, <1>1 DEF DeleteLinks, Step
<1>11. ASSUME NEW p \in Admins, ReadAbove(p) PROVE TypeOK'
  <2>1. [tx[p] EXCEPT !.links = NewLinks(p), !.pc = "link"] \in Tx
    BY ZenonT(30), <1>2, <1>t, NewLinksType DEF Tx
  <2> QED
    BY <1>11, <2>1, <1>1 DEF ReadAbove, Step
<1>12. ASSUME NEW p \in Admins, InsertLinks(p) PROVE TypeOK'
  <2> DEFINE t == tx[p]
  <2>1. [t EXCEPT !.ins = @ \cup t.links, !.pc = "commit"] \in Tx
    BY ZenonT(30), <1>2 DEF Tx
  <2> QED
    BY <1>12, <2>1, <1>1 DEF InsertLinks, Step
<1>13. ASSUME NEW p \in Admins, Commit(p) PROVE TypeOK'
  <2> DEFINE t == tx[p]
             row == [parent |-> t.parent, version |-> t.seen + 1]
  <2>1. row \in Row /\ Gone \in Row
    BY <1>2, VersionAssumption DEF Tx, Row, Gone
  <2>2. Sees(p) \in SUBSET Links
    BY <1>t, <1>2 DEF TypeOK, Tx, Sees
  <2>3. rows' \in [Ids -> Row]
    BY <1>13, <1>t, <2>1 DEF Commit, TypeOK
  <2>4. tx' \in [Admins -> Tx]
    BY <1>13, <1>t, IdleType DEF Commit, TypeOK
  <2> QED
    BY <1>13, <1>t, <2>2, <2>3, <2>4 DEF Commit, TypeOK
<1>14. ASSUME NEW p \in Admins, Fails(p) PROVE TypeOK'
  BY <1>14, <1>1, IdleType DEF Fails
<1>15. ASSUME NEW p \in Admins, GetParent(p) \/ CheckCycle(p) PROVE TypeOK'
  <2>1. [tx[p] EXCEPT !.pc = "cycle"] \in Tx /\ [tx[p] EXCEPT !.pc = "write"] \in Tx
    BY <1>2 DEF Tx
  <2> QED
    BY <1>15, <2>1, <1>1 DEF GetParent, CheckCycle, Step
<1> QED
  BY <1>0, <1>3, <1>4, <1>5, <1>6, <1>7, <1>8, <1>9, <1>10, <1>11, <1>12, <1>13, <1>14, <1>15 DEF Next

-----------------------------------------------------------------------------
(* Versions. *)

(* A step of one transaction that writes nothing to the tables.            *)
Fits(t, p) ==
  /\ Asked(t, page[p])
  /\ \A q \in Admins \ {p} :
       tx[q] # Idle /\ tx[q].id = t.id =>
         t.kind # "create" /\ tx[q].kind # "create" /\ ~(t.wrote /\ tx[q].wrote)

LEMMA OwnStep ==
  ASSUME Versions, TypeOK', NEW p \in Admins, NEW t, t = Idle \/ Fits(t, p),
         tx' = [tx EXCEPT ![p] = t], UNCHANGED <<rows, page>>
  PROVE  Versions'
<1>1. tx'[p] = t /\ \A q \in Admins \ {p} : tx'[q] = tx[q]
  BY DEF Versions, TypeOK
<1>2. Departments' = Departments
  BY DEF Departments
<1>3. Bounded' /\ Later'
  BY <1>2 DEF Versions, Bounded, Later
<1>4. AllAsked'
  <2> SUFFICES ASSUME NEW q \in Admins PROVE tx'[q] = Idle \/ Asked(tx[q], page[q])'
    BY DEF AllAsked
  <2>1. tx'[q] = Idle \/ Asked(tx'[q], page[q])
    BY <1>1 DEF Fits, Versions, AllAsked
  <2>2. rows' = rows /\ page' = page
    OBVIOUS
  <2>3. ASSUME Asked(tx'[q], page[q]) PROVE Asked(tx[q], page[q])'
    <3>1. tx'[q].wrote /\ tx'[q].kind # "create" => Current(tx[q].id, tx[q].seen)'
      BY <2>2, <2>3, <1>2 DEF Asked, Current
    <3> QED
      BY <2>2, <2>3, <3>1 DEF Asked
  <2> QED
    BY <2>1, <2>3
<1>5. Apart'
  <2> SUFFICES ASSUME NEW q \in Admins, NEW r \in Admins, q # r, tx'[q] # Idle, tx'[r] # Idle,
                      tx'[q].id = tx'[r].id
               PROVE  tx'[q].kind # "create" /\ ~(tx'[q].wrote /\ tx'[r].wrote)
    BY DEF Apart
  <2>1. CASE q # p /\ r # p
    BY <2>1, <1>1 DEF Versions, Apart
  <2>2. CASE q = p
    BY <2>2, <1>1 DEF Fits
  <2>3. CASE r = p
    BY <2>3, <1>1 DEF Fits
  <2> QED
    BY <2>1, <2>2, <2>3
<1> QED
  BY <1>3, <1>4, <1>5 DEF Versions

(* The steps after the request was read leave its kind, id and version.    *)
LEMMA Continues ==
  ASSUME Versions, NEW p \in Admins, tx[p] # Idle, NEW t,
         t.pc # "idle", t.kind = tx[p].kind, t.id = tx[p].id, t.seen = tx[p].seen,
         t.wrote = tx[p].wrote, t.pc \notin {"parent", "cycle", "write"} => t.wrote
  PROVE  Fits(t, p)
<1>1. Asked(tx[p], page[p])
  BY DEF Versions, AllAsked
<1>2. Asked(t, page[p])
  BY <1>1 DEF Asked
<1> QED
  BY <1>2 DEF Fits, Versions, Apart

(* What a page shows is there, in this version, once it is written.        *)
LEMMA NotBefore ==
  ASSUME Versions, NEW p \in Admins, NEW d \in DepartmentsIn(page[p])
  PROVE  rows[d] # NoRow
<1>1. page[p][d] \in Row /\ rows[d] \in Row /\ page[p][d] # NoRow
  BY DEF Versions, TypeOK, DepartmentsIn
<1>2. page[p][d] = rows[d] \/ page[p][d].version < rows[d].version
  BY DEF Versions, Later, DepartmentsIn
<1>3. page[p][d].version \in Nat
  BY <1>1 DEF Row
<1> QED
  BY <1>1, <1>2, <1>3 DEF NoRow

LEMMA VersionsStep == Versions /\ [Next]_vars => Versions'
<1> SUFFICES ASSUME Versions, [Next]_vars PROVE Versions'
  OBVIOUS
<1>t. TypeOK /\ TypeOK'
  BY TypeStep DEF Versions
<1>0. CASE UNCHANGED vars
  <2>1. rows' = rows /\ page' = page /\ tx' = tx
    BY <1>0 DEF vars
  <2>2. Bounded' /\ Later' /\ AllAsked' /\ Apart'
    BY <2>1 DEF Versions, Bounded, Later, AllAsked, Apart, Asked, Current, Departments
  <2> QED
    BY <2>2, <1>t DEF Versions
<1>3. ASSUME NEW p \in Admins, Load(p) PROVE Versions'
  <2>1. /\ tx[p] = Idle /\ page' = [page EXCEPT ![p] = rows]
        /\ rows' = rows /\ tx' = tx /\ Departments' = Departments
    BY <1>3 DEF Load, Departments
  <2>2. page'[p] = rows /\ \A q \in Admins \ {p} : page'[q] = page[q]
    BY <2>1, <1>t DEF TypeOK
  <2>3. Bounded' /\ Later' /\ Apart'
    BY <2>1, <2>2 DEF Versions, Bounded, Later, Apart
  <2>4. AllAsked'
    BY <2>1, <2>2 DEF Versions, AllAsked, Asked, Current
  <2> QED
    BY <2>3, <2>4, <1>t DEF Versions
<1>4. ASSUME NEW p \in Admins, Create(p) PROVE Versions'
  <2>1. PICK d \in Ids, parent \in {Root} \cup (DepartmentsIn(page[p]) \cap Departments) :
          /\ rows[d] = NoRow
          /\ \A o \in Others(p) : o.id # d
          /\ Begins(p, [Request("create", d, parent, 0, parent) EXCEPT !.tree = {<<d, 0>>}])
    BY <1>4 DEF Create
  <2> DEFINE u == Request("create", d, parent, 0, parent)
             t == [u EXCEPT !.tree = {<<d, 0>>}]
  <2>2. parent \in Ids \cup {Root}
    BY DEF DepartmentsIn
  <2>3. u \in Tx /\ u.pc = "write" /\ u.kind = "create" /\ u.id = d /\ u.seen = 0 /\ u.wrote = FALSE
    BY <2>2 DEF Request, Idle, Tx
  <2>4. t.pc = "write" /\ t.kind = "create" /\ t.id = d /\ t.seen = 0 /\ t.wrote = FALSE
    <3> HIDE DEF u
    <3> QED
      BY <2>3 DEF Tx
  <2> HIDE DEF t
  <2>5. Asked(t, page[p])
    BY <2>1, <2>4 DEF Asked
  <2>6. Fits(t, p)
    BY <2>1, <2>4, <2>5 DEF Fits, Others
  <2> QED
    BY <2>1, <2>6, <1>t, OwnStep DEF Begins, t
<1>5. ASSUME NEW p \in Admins, NEW d \in DepartmentsIn(page[p]), NEW parent \in Ids \cup {Root},
             NEW kind \in {"update", "delete"}, NEW from \in Ids \cup {Root},
             kind = "update" => page[p][d].version < MaxVersion,
             Begins(p, Asking(Request(kind, d, parent, page[p][d].version, from)))
      PROVE  Versions'
  <2> DEFINE u == Request(kind, d, parent, page[p][d].version, from)
             t == Asking(u)
  <2>1. d \in Ids /\ page[p][d] \in Row /\ page[p][d].version \in Nat
    BY <1>t DEF DepartmentsIn, TypeOK, Row
  <2>a. /\ u \in Tx /\ u.pc = "write" /\ u.kind = kind /\ u.id = d
        /\ u.seen = page[p][d].version /\ u.wrote = FALSE
    BY <2>1, <1>5 DEF Request, Idle, Tx
  <2> HIDE DEF u
  <2>2. /\ t.pc \in {"parent", "write"} /\ t.kind = kind /\ t.id = d
        /\ t.seen = page[p][d].version /\ t.wrote = FALSE
    BY <2>a, AskingType
  <2> HIDE DEF t
  <2>3. Asked(t, page[p])
    BY <2>1, <2>2, <1>5 DEF Asked
  <2>4. rows[d] # NoRow
    BY NotBefore
  <2>5. ASSUME NEW q \in Admins \ {p}, tx[q] # Idle, tx[q].id = d PROVE tx[q].kind # "create"
    BY <2>4, <2>5 DEF Versions, AllAsked, Asked
  <2>6. Fits(t, p)
    BY <2>2, <2>3, <2>5 DEF Fits
  <2> QED
    BY <1>5, <2>6, <1>t, OwnStep DEF Begins, t, u
<1>6. ASSUME NEW p \in Admins, Update(p) PROVE Versions'
  <2>0. PICK d \in DepartmentsIn(page[p]) : \E parent \in ParentOptions(page[p], d) :
          /\ page[p][d].version < MaxVersion
          /\ Begins(p, Asking(Request("update", d, parent, page[p][d].version, rows[d].parent)))
    BY <1>6 DEF Update
  <2>1. PICK parent \in ParentOptions(page[p], d) :
          /\ page[p][d].version < MaxVersion
          /\ Begins(p, Asking(Request("update", d, parent, page[p][d].version, rows[d].parent)))
    BY <2>0
  <2>2. parent \in Ids \cup {Root} /\ rows[d].parent \in Ids \cup {Root}
    BY <1>t DEF DepartmentsIn, ParentOptions, TypeOK, Row
  <2> QED
    BY <2>1, <2>2, <1>5
<1>7. ASSUME NEW p \in Admins, Delete(p) PROVE Versions'
  <2>1. PICK d \in DepartmentsIn(page[p]) :
          Begins(p, Request("delete", d, Root, page[p][d].version, Root))
    BY <1>7 DEF Delete
  <2>2. Asking(Request("delete", d, Root, page[p][d].version, Root)) =
          Request("delete", d, Root, page[p][d].version, Root)
    BY DEF Asking, Moves, Request, Idle
  <2> QED
    BY <2>1, <2>2, <1>5
<1>8. ASSUME NEW p \in Admins, Fails(p) PROVE Versions'
  BY <1>8, <1>t, OwnStep DEF Fails
<1>9. ASSUME NEW p \in Admins, Write(p) PROVE Versions'
  <2> DEFINE o == tx[p]
             t == [o EXCEPT !.wrote = TRUE,
                            !.ins = IF o.kind = "create" THEN {<<o.id, o.id, 0>>} ELSE {},
                            !.del = IF o.kind = "delete" THEN Cascade(o.id) ELSE {},
                            !.pc = IF Moves(o) THEN "links"
                                   ELSE IF o.kind = "create" /\ o.parent # Root THEN "above"
                                   ELSE "commit"]
  <2>1. /\ o \in Tx /\ o.pc = "write" /\ o # Idle
        /\ \A x \in Others(p) : o.id \notin Holds(x)
        /\ o.kind # "create" => Current(o.id, o.seen)
        /\ tx' = [tx EXCEPT ![p] = t] /\ UNCHANGED <<rows, page>>
    BY <1>9, <1>t DEF Write, Step, TypeOK, Idle
  <2>2. /\ t.wrote = TRUE /\ t.kind = o.kind /\ t.id = o.id /\ t.seen = o.seen
        /\ t.pc \notin {"idle", "write"}
    <3> HIDE DEF o
    <3> QED
      BY <2>1 DEF Tx
  <2> HIDE DEF t
  <2>3. Asked(o, page[p])
    BY <2>1 DEF Versions, AllAsked
  <2>4. Asked(t, page[p])
    BY <2>1, <2>2, <2>3 DEF Asked
  <2>5. ASSUME NEW q \in Admins \ {p}, tx[q] # Idle, tx[q].id = t.id
        PROVE  t.kind # "create" /\ tx[q].kind # "create" /\ ~tx[q].wrote
    <3>1. o.kind # "create" /\ tx[q].kind # "create"
      BY <2>1, <2>2, <2>5 DEF Versions, Apart
    <3>2. tx[q].wrote => tx[q].id \in Holds(tx[q])
      BY DEF Holds
    <3>3. o.id \notin Holds(tx[q])
      BY <2>1 DEF Others
    <3> QED
      BY <2>2, <2>5, <3>1, <3>2, <3>3
  <2>6. Fits(t, p)
    BY <2>4, <2>5 DEF Fits
  <2> QED
    BY <2>1, <2>6, <1>t, OwnStep
<1>10. ASSUME NEW p \in Admins, NEW t, tx' = [tx EXCEPT ![p] = t], UNCHANGED <<rows, page>>,
              tx[p].pc \in {"links", "find", "unlink", "above", "link"},
              t.pc \notin {"idle", "write"}, t.kind = tx[p].kind, t.id = tx[p].id,
              t.seen = tx[p].seen, t.wrote = tx[p].wrote
       PROVE  Versions'
  <2>1. tx[p] # Idle /\ Asked(tx[p], page[p])
    BY <1>10 DEF Idle, Versions, AllAsked
  <2>2. t.wrote
    BY <2>1, <1>10 DEF Asked
  <2>3. Fits(t, p)
    BY <2>1, <2>2, <1>10, Continues
  <2> QED
    BY <2>3, <1>10, <1>t, OwnStep
<1>p. ASSUME NEW p \in Admins PROVE tx[p] \in Tx
  BY <1>t DEF TypeOK
<1>11. ASSUME NEW p \in Admins, ReadLinks(p) PROVE Versions'
  BY <1>11, <1>p, <1>10 DEF ReadLinks, Step, Tx
<1>12. ASSUME NEW p \in Admins, FindLinks(p) PROVE Versions'
  BY <1>12, <1>p, <1>10 DEF FindLinks, Step, Tx
<1>13. ASSUME NEW p \in Admins, DeleteLinks(p) PROVE Versions'
  BY <1>13, <1>p, <1>10 DEF DeleteLinks, Step, Tx
<1>14. ASSUME NEW p \in Admins, ReadAbove(p) PROVE Versions'
  BY <1>14, <1>p, <1>10 DEF ReadAbove, Step, Tx
<1>15. ASSUME NEW p \in Admins, InsertLinks(p) PROVE Versions'
  <2> DEFINE o == tx[p]
             t == [o EXCEPT !.ins = @ \cup o.links, !.pc = "commit"]
  <2>1. o.pc = "link" /\ tx' = [tx EXCEPT ![p] = t] /\ UNCHANGED <<rows, page>>
    BY <1>15 DEF InsertLinks, Step
  <2>2. t.pc = "commit" /\ t.kind = o.kind /\ t.id = o.id /\ t.seen = o.seen /\ t.wrote = o.wrote
    BY <1>p DEF Tx
  <2> QED
    BY <2>1, <2>2, <1>10
<1>17. ASSUME NEW p \in Admins, GetParent(p) \/ CheckCycle(p) PROVE Versions'
  <2>1. PICK pc \in {"cycle", "write"} :
          tx[p] # Idle /\ tx' = [tx EXCEPT ![p] = [tx[p] EXCEPT !.pc = pc]] /\ UNCHANGED <<rows, page>>
    BY <1>17, <1>p DEF GetParent, CheckCycle, Step, Idle
  <2> DEFINE t == [tx[p] EXCEPT !.pc = pc]
  <2>2. /\ t.pc = pc /\ t.kind = tx[p].kind /\ t.id = tx[p].id /\ t.seen = tx[p].seen
        /\ t.wrote = tx[p].wrote
    BY <1>p DEF Tx
  <2> HIDE DEF t
  <2>3. Fits(t, p)
    BY <2>1, <2>2, Continues
  <2> QED
    BY <2>1, <2>3, <1>t, OwnStep DEF t
<1>16. ASSUME NEW p \in Admins, Commit(p) PROVE Versions'
  <2> DEFINE t == tx[p]
             row == IF t.kind = "delete" THEN Gone ELSE [parent |-> t.parent, version |-> t.seen + 1]
  <2>1. /\ t \in Tx /\ t.pc = "commit" /\ t # Idle /\ page' = page
        /\ rows' = [rows EXCEPT ![t.id] = row] /\ tx' = [tx EXCEPT ![p] = Idle]
    BY <1>16, <1>p DEF Commit, Idle
  <2>2. /\ Asked(t, page[p]) /\ t.id \in Ids /\ t.seen \in Nat /\ t.kind # "none" /\ rows[t.id] \in Row
        /\ t.kind # "create" => t.id \in Departments /\ rows[t.id].version = t.seen
        /\ t.kind = "create" => rows[t.id] = NoRow /\ t.seen = 0
        /\ t.kind = "update" => t.seen < MaxVersion
    BY <2>1, <1>t DEF Versions, AllAsked, Asked, Current, Tx, TypeOK
  <2>3. /\ rows'[t.id] = row /\ \A d \in Ids \ {t.id} : rows'[d] = rows[d]
        /\ tx'[p] = Idle /\ \A q \in Admins \ {p} : tx'[q] = tx[q]
    BY <2>1, <2>2, <1>t DEF TypeOK
  <2>4. rows[t.id].version < row.version /\ row.version \in Nat /\ (row = Gone \/ row.version \in 1 .. MaxVersion)
    <3>1. CASE t.kind = "create"
      BY <3>1, <2>2, VersionAssumption DEF NoRow
    <3>2. CASE t.kind = "update"
      BY <3>2, <2>2, VersionAssumption
    <3>3. CASE t.kind = "delete"
      <4>1. t.seen \in 1 .. MaxVersion
        BY <3>3, <2>2 DEF Versions, Bounded
      <4> QED
        BY <3>3, <4>1, <2>2, VersionAssumption DEF Gone
    <3> QED
      BY <3>1, <3>2, <3>3, <2>1, <2>2 DEF Tx
  <2> HIDE DEF row
  <2>5. Bounded'
    <3> SUFFICES ASSUME NEW d \in Departments' PROVE rows'[d].version \in 1 .. MaxVersion
      BY DEF Bounded
    <3>1. CASE d = t.id
      BY <3>1, <2>3, <2>4 DEF Departments, DepartmentsIn
    <3>2. CASE d # t.id
      BY <3>2, <2>3 DEF Departments, DepartmentsIn, Versions, Bounded
    <3> QED
      BY <3>1, <3>2
  <2>6. Later'
    <3> SUFFICES ASSUME NEW q \in Admins, NEW d \in Ids
                 PROVE  page[q][d] = rows'[d] \/ page[q][d].version < rows'[d].version
      BY <2>1 DEF Later
    <3>1. page[q][d] \in Row /\ (page[q][d] = rows[d] \/ page[q][d].version < rows[d].version)
      BY <1>t DEF Versions, Later, TypeOK
    <3>2. CASE d = t.id
      BY <3>1, <3>2, <2>2, <2>3, <2>4 DEF Row
    <3>3. CASE d # t.id
      BY <3>1, <3>3, <2>3
    <3> QED
      BY <3>2, <3>3
  <2>7. AllAsked'
    <3> SUFFICES ASSUME NEW q \in Admins, tx'[q] # Idle PROVE Asked(tx[q], page[q])'
      BY DEF AllAsked
    <3>1. q # p /\ tx'[q] = tx[q] /\ tx[q] # Idle /\ page'[q] = page[q]
      BY <2>1, <2>3
    <3>2. Asked(tx[q], page[q])
      BY <3>1 DEF Versions, AllAsked
    <3>3. tx[q].id = t.id => tx[q].kind # "create" /\ ~tx[q].wrote
      BY <2>1, <2>2, <3>1 DEF Versions, Apart, Asked
    <3>4. CASE tx[q].id = t.id
      BY <3>1, <3>2, <3>3, <3>4 DEF Asked
    <3>5. CASE tx[q].id # t.id
      BY <3>1, <3>2, <3>5, <2>3 DEF Asked, Current, Departments, DepartmentsIn
    <3> QED
      BY <3>4, <3>5
  <2>8. Apart'
    BY <2>3 DEF Versions, Apart
  <2> QED
    BY <2>5, <2>6, <2>7, <2>8, <1>t DEF Versions
<1> QED
  BY <1>0, <1>3, <1>4, <1>6, <1>7, <1>8, <1>9, <1>11, <1>12, <1>13, <1>14, <1>15, <1>16,
     <1>17 DEF Next

LEMMA VersionsInit == Init => Versions
<1> SUFFICES ASSUME Init PROVE Versions
  OBVIOUS
<1> USE DEF Init
<1>1. TypeOK
  BY IdleType, DialectAssumption DEF TypeOK, NoRow, Row
<1>2. Departments = {}
  BY DEF Departments, DepartmentsIn
<1> QED
  BY <1>1, <1>2 DEF Versions, Bounded, Later, AllAsked, Apart

(* TypeOK holds of every behaviour. *)
THEOREM TypeCorrect == Spec => []TypeOK
<1>1. Versions => TypeOK
  BY DEF Versions
<1> QED
  BY VersionsInit, VersionsStep, <1>1, PTL DEF Spec

(* NoOverwrite: whatever the statements of the others did in between, what *)
(* a commit replaces is what the page of its request had seen.             *)
THEOREM NoOverwriteCorrect == Spec => NoOverwrite
<1> DEFINE A == \A p \in Admins, d \in Departments :
                  rows'[d] # rows[d] /\ tx[p].id = d /\ tx'[p] # tx[p] => rows[d] = page[p][d]
<1>1. Versions /\ [Next]_vars => [A]_vars
  <2> SUFFICES ASSUME Versions, Next, NEW p \in Admins, NEW d \in Departments,
                      rows'[d] # rows[d], tx[p].id = d, tx'[p] # tx[p]
               PROVE  rows[d] = page[p][d]
    OBVIOUS
  <2>1. PICK q \in Admins : Commit(q)
    BY DEF Next, Load, Create, Update, Delete, Begins, GetParent, CheckCycle, Write, ReadLinks,
           FindLinks, DeleteLinks, ReadAbove, InsertLinks, Step, Fails
  <2>2. q = p
    BY <2>1 DEF Commit, Versions, TypeOK
  <2>3. tx[p].pc = "commit" /\ tx[p] # Idle
    BY <2>1, <2>2 DEF Commit, Idle
  <2>4. Asked(tx[p], page[p])
    BY <2>3 DEF Versions, AllAsked
  <2>5. d \in Ids /\ rows[d] # NoRow
    BY DEF Departments, DepartmentsIn
  <2>6. rows[d].version = page[p][d].version
    BY <2>3, <2>4, <2>5 DEF Asked, Current
  <2>7. page[p][d] = rows[d] \/ page[p][d].version < rows[d].version
    BY <2>5 DEF Versions, Later
  <2>8. rows[d].version \in Nat
    BY <2>5 DEF Versions, TypeOK, Row
  <2> QED
    BY <2>6, <2>7, <2>8
<1> QED
  BY VersionsInit, VersionsStep, <1>1, PTL DEF Spec, NoOverwrite

-----------------------------------------------------------------------------
(***************************************************************************)
(* The invariant of SQLite: the closure is exact, one transaction runs at  *)
(* a time, and what it has read and written so far is what the committed   *)
(* closure asks for.                                                       *)
(***************************************************************************)
(* The links that are to be committed. *)
Asks(C, t, a, d, k) ==
  \/ t.kind = "create" /\ CreatedAt(C, t.id, t.parent, a, d, k)
  \/ t.kind = "update" /\ ~Moves(t) /\ <<a, d, k>> \in C
  \/ Moves(t) /\ MovedTo(C, t.id, t.parent, a, d, k)
  \/ t.kind = "delete" /\ <<a, d, k>> \in C /\ a # t.id /\ d # t.id

Written(C, t) == (C \ t.del) \cup t.ins
Done(C, t) ==
  \A a, d \in Ids, k \in Nat : <<a, d, k>> \in Written(C, t) <=> Asks(C, t, a, d, k)

(* What holds of the request throughout its transaction. *)
Granted(table, C, t) ==
  /\ t.parent \in DepartmentsIn(table) \cup {Root}
  /\ t.kind = "create" => t.tree = {<<t.id, 0>>}
  /\ t.kind # "create" => t.id \in DepartmentsIn(table)
  /\ t.kind = "update" => t.from = table[t.id].parent
  /\ Moves(t) => \A k \in Nat : <<t.id, t.parent, k>> \notin C
  /\ t.kind = "delete" => \A c \in DepartmentsIn(table) : table[c].parent # t.id

(* What holds at each statement. *)
HasRead(C, t) ==
  /\ t.tree = DescendantsIn(C, t.id)
  /\ t.old = {l[1] : l \in AncestorsIn(C, t.id)} \ {t.id}

Crosses(C, t) == {r \in C : r[1] \in t.old /\ \E s \in t.tree : s[1] = r[2]}

Cut(C, t) ==
  \/ t.kind = "create" /\ t.ins = {<<t.id, t.id, 0>>} /\ t.del = {}
  \/ Moves(t) /\ HasRead(C, t) /\ t.ins = {} /\ t.del = Crosses(C, t)

Above(C, t) ==
  {<<a[1], s[1], a[2] + s[2] + 1>> : a \in AncestorsIn(C, t.parent), s \in t.tree}

Stage(C, t) ==
  /\ t.pc \notin {"parent", "cycle"}
  /\ t.pc \in {"write", "links", "find", "unlink"} => t.del = {} /\ t.ins = {}
  /\ t.pc \in {"links", "find", "unlink"} => Moves(t)
  /\ t.pc \in {"find", "unlink"} => HasRead(C, t)
  /\ t.pc = "unlink" => t.targets = Crosses(C, t)
  /\ t.pc \in {"above", "link"} => Cut(C, t)
  /\ t.pc = "link" => t.links = Above(C, t)
  /\ t.pc = "commit" => Done(C, t)

(* A move whose new parent has not been looked up, or not at the closure.  *)
Looking(table, t) ==
  /\ t.pc \in {"parent", "cycle"} /\ t.kind = "update"
  /\ t.id \in DepartmentsIn(table) /\ t.from = table[t.id].parent
  /\ t.pc = "cycle" => t.parent \in DepartmentsIn(table)
  /\ t.del = {} /\ t.ins = {}

Ready(table, C, t) == Looking(table, t) \/ (Granted(table, C, t) /\ Stage(C, t))

Serial ==
  /\ Exact(rows, closure, DepartmentsIn(rows))
  /\ \A p, q \in Admins : tx[p] = Idle \/ tx[q] = Idle \/ p = q
  /\ \A p \in Admins : tx[p] = Idle \/ Ready(rows, closure, tx[p])

IInv == Versions /\ (dialect = "sqlite" => Serial)

-----------------------------------------------------------------------------
(* Lemmas on what the statements read and write. *)

LEMMA ReadLinksOf ==
  ASSUME NEW C, C \in SUBSET Links, NEW t, HasRead(C, t), NEW a \in Ids
  PROVE  /\ a \in t.old <=> a # t.id /\ \E i \in Nat : <<a, t.id, i>> \in C
         /\ (\E s \in t.tree : s[1] = a) <=> \E j \in Nat : <<t.id, a, j>> \in C
<1>1. ASSUME a \in t.old PROVE a # t.id /\ \E i \in Nat : <<a, t.id, i>> \in C
  <2>1. PICK l \in AncestorsIn(C, t.id) : l[1] = a /\ a # t.id
    BY <1>1 DEF HasRead
  <2>2. \E b \in Ids, k \in Nat : l = <<b, k>> /\ <<b, t.id, k>> \in C
    BY Ancestors
  <2> QED
    BY <2>1, <2>2
<1>2. ASSUME a # t.id, NEW i \in Nat, <<a, t.id, i>> \in C PROVE a \in t.old
  <2>1. <<a, i>> \in AncestorsIn(C, t.id)
    BY <1>2 DEF AncestorsIn
  <2> QED
    BY <2>1, <1>2 DEF HasRead
<1>3. ASSUME NEW s \in t.tree, s[1] = a PROVE \E j \in Nat : <<t.id, a, j>> \in C
  <2>1. s \in DescendantsIn(C, t.id)
    BY DEF HasRead
  <2>2. \E b \in Ids, k \in Nat : s = <<b, k>> /\ <<t.id, b, k>> \in C
    BY <2>1, Ancestors
  <2> QED
    BY <1>3, <2>2
<1>4. ASSUME NEW j \in Nat, <<t.id, a, j>> \in C PROVE \E s \in t.tree : s[1] = a
  <2>1. <<a, j>> \in DescendantsIn(C, t.id)
    BY <1>4 DEF DescendantsIn
  <2> QED
    BY <2>1 DEF HasRead
<1> QED
  BY <1>1, <1>2, <1>3, <1>4

LEMMA CrossesLinks ==
  ASSUME NEW C, C \in SUBSET Links, NEW t, HasRead(C, t),
         NEW a \in Ids, NEW d \in Ids, NEW k \in Nat
  PROVE  <<a, d, k>> \in Crosses(C, t) <=>
           /\ <<a, d, k>> \in C
           /\ a # t.id /\ \E i \in Nat : <<a, t.id, i>> \in C
           /\ \E j \in Nat : <<t.id, d, j>> \in C
<1>1. /\ a \in t.old <=> a # t.id /\ \E i \in Nat : <<a, t.id, i>> \in C
      /\ (\E s \in t.tree : s[1] = d) <=> \E j \in Nat : <<t.id, d, j>> \in C
  BY ReadLinksOf
<1>2. <<a, d, k>> \in Crosses(C, t) <=>
        <<a, d, k>> \in C /\ a \in t.old /\ \E s \in t.tree : s[1] = d
  BY DEF Crosses
<1> QED
  BY <1>1, <1>2

TreeType(t) == t.tree \in SUBSET (Ids \X Nat)
Adds(C, t, a, d, k) ==
  \E i, j \in Nat : <<a, t.parent, i>> \in C /\ <<d, j>> \in t.tree /\ k = i + j + 1

LEMMA AboveLinks ==
  ASSUME NEW C, C \in SUBSET Links, NEW t, TreeType(t),
         NEW a \in Ids, NEW d \in Ids, NEW k \in Nat
  PROVE  <<a, d, k>> \in Above(C, t) <=> Adds(C, t, a, d, k)
<1>1. ASSUME <<a, d, k>> \in Above(C, t)
      PROVE  Adds(C, t, a, d, k)
  <2>1. PICK l \in AncestorsIn(C, t.parent), s \in t.tree : <<a, d, k>> = <<l[1], s[1], l[2] + s[2] + 1>>
    BY <1>1 DEF Above
  <2>a. \E b \in Ids, i \in Nat : l = <<b, i>> /\ <<b, t.parent, i>> \in C
    BY Ancestors
  <2>2. PICK b \in Ids, i \in Nat : l = <<b, i>> /\ <<b, t.parent, i>> \in C
    BY <2>a
  <2>3. PICK e \in Ids, j \in Nat : s = <<e, j>>
    BY DEF TreeType
  <2>4. a = b /\ d = e /\ k = i + j + 1
    BY <2>1, <2>2, <2>3
  <2> QED
    BY <2>2, <2>3, <2>4 DEF Adds
<1>2. ASSUME NEW i \in Nat, NEW j \in Nat, <<a, t.parent, i>> \in C, <<d, j>> \in t.tree,
             k = i + j + 1
      PROVE  <<a, d, k>> \in Above(C, t)
  <2>1. <<a, i>> \in AncestorsIn(C, t.parent)
    BY <1>2 DEF AncestorsIn
  <2>2. <<<<a, i>>[1], <<d, j>>[1], <<a, i>>[2] + <<d, j>>[2] + 1>> \in Above(C, t)
    BY <2>1, <1>2 DEF Above
  <2> QED
    BY <2>2, <1>2
<1> QED
  BY <1>1, <1>2 DEF Adds

(* The old links are cut and the parent's are not among them: what is      *)
(* above the parent reads the same before and after.                       *)
LEMMA ParentKept ==
  ASSUME NEW C, C \in SUBSET Links, NEW table, NEW t, Granted(table, C, t), Cut(C, t),
         t.id # t.parent
  PROVE  AncestorsIn(Written(C, t), t.parent) = AncestorsIn(C, t.parent)
<1>1. ASSUME NEW r \in Written(C, t), r[2] = t.parent PROVE r \in C
  BY <1>1 DEF Written, Cut
<1>2. ASSUME NEW r \in C, r[2] = t.parent PROVE r \in Written(C, t)
  <2>1. CASE t.kind = "create" /\ t.del = {}
    BY <2>1 DEF Written
  <2>2. CASE Moves(t) /\ HasRead(C, t) /\ t.del = Crosses(C, t)
    <3>1. PICK a \in Ids, d \in Ids, k \in Nat : r = <<a, d, k>>
      BY DEF Links
    <3>2. d = t.parent /\ \A j \in Nat : <<t.id, d, j>> \notin C
      BY <1>2, <2>2, <3>1 DEF Granted
    <3>3. r \notin Crosses(C, t)
      BY ZenonT(30), <2>2, <3>1, <3>2, CrossesLinks
    <3> QED
      BY <2>2, <3>3 DEF Written
  <2> QED
    BY <2>1, <2>2 DEF Cut
<1> QED
  BY <1>1, <1>2 DEF AncestorsIn

(* What is cut, without and with the links above the parent.               *)
LEMMA CutWritten ==
  ASSUME NEW C, C \in SUBSET Links, NEW table, NEW t, Granted(table, C, t), Cut(C, t),
         t.id \in Ids, TreeType(t),
         NEW a \in Ids, NEW d \in Ids, NEW k \in Nat
  PROVE  <<a, d, k>> \in (C \ t.del) \cup (t.ins \cup Above(C, t)) <=> Asks(C, t, a, d, k)
<1> DEFINE Links2 == (C \ t.del) \cup (t.ins \cup Above(C, t))
<1>1. <<a, d, k>> \in Above(C, t) <=>
        \E i, j \in Nat : <<a, t.parent, i>> \in C /\ <<d, j>> \in t.tree /\ k = i + j + 1
  <2>1. <<a, d, k>> \in Above(C, t) <=> Adds(C, t, a, d, k)
    BY AboveLinks
  <2> QED
    BY <2>1 DEF Adds
<1>2. CASE t.kind = "create" /\ t.ins = {<<t.id, t.id, 0>>} /\ t.del = {}
  <2>1. t.tree = {<<t.id, 0>>}
    BY <1>2 DEF Granted
  <2>2. <<a, d, k>> \in Above(C, t) <=>
          d = t.id /\ \E j \in Nat : <<a, t.parent, j>> \in C /\ k = j + 1
    <3>1. ASSUME NEW i \in Nat, NEW j \in Nat, <<a, t.parent, i>> \in C, <<d, j>> \in t.tree,
                 k = i + j + 1
          PROVE  d = t.id /\ k = i + 1
      BY <2>1, <3>1
    <3>2. ASSUME NEW j \in Nat, d = t.id, <<a, t.parent, j>> \in C, k = j + 1
          PROVE  <<d, 0>> \in t.tree /\ k = j + 0 + 1 /\ 0 \in Nat
      BY <2>1, <3>2
    <3> QED
      BY <1>1, <3>1, <3>2
  <2>3. <<a, d, k>> \in Links2 <=> CreatedAt(C, t.id, t.parent, a, d, k)
    BY <1>2, <2>2 DEF CreatedAt
  <2>4. ~Moves(t)
    BY <1>2 DEF Moves
  <2> QED
    BY <1>2, <2>3, <2>4 DEF Asks
<1>3. CASE Moves(t) /\ HasRead(C, t) /\ t.ins = {} /\ t.del = Crosses(C, t)
  <2>1. \A j \in Nat : <<d, j>> \in t.tree <=> <<t.id, d, j>> \in C
    <3>1. t.tree = DescendantsIn(C, t.id)
      BY <1>3 DEF HasRead
    <3>2. ASSUME NEW j \in Nat, <<d, j>> \in DescendantsIn(C, t.id) PROVE <<t.id, d, j>> \in C
      <4>1. \E s \in Ids, m \in Nat : <<d, j>> = <<s, m>> /\ <<t.id, s, m>> \in C
        BY <3>2, Ancestors
      <4> QED
        BY <4>1
    <3>3. ASSUME NEW j \in Nat, <<t.id, d, j>> \in C PROVE <<d, j>> \in DescendantsIn(C, t.id)
      BY <3>3 DEF DescendantsIn
    <3> QED
      BY <3>1, <3>2, <3>3
  <2>2. <<a, d, k>> \in Crosses(C, t) <=>
           /\ <<a, d, k>> \in C
           /\ a # t.id /\ \E i \in Nat : <<a, t.id, i>> \in C
           /\ \E j \in Nat : <<t.id, d, j>> \in C
    BY SMTT(20), <1>3, CrossesLinks
  <2>3. <<a, d, k>> \in Links2 <=> MovedTo(C, t.id, t.parent, a, d, k)
    BY <1>1, <1>3, <2>1, <2>2 DEF MovedTo
  <2>4. t.kind = "update" /\ Moves(t)
    BY <1>3 DEF Moves
  <2> QED
    BY <2>3, <2>4 DEF Asks
<1> QED
  BY <1>2, <1>3 DEF Cut

(* A department under the root has nothing above it.                       *)
LEMMA RootWritten ==
  ASSUME NEW C, NEW table, NEW D, Exact(table, C, D), D \subseteq Ids, NEW t, t.parent = Root
  PROVE  Above(C, t) = {}
<1>1. C \in SUBSET Links /\ \A a, k : <<a, Root, k>> \notin C
  BY RootAssumption DEF Exact, Within
<1>2. ASSUME NEW l \in AncestorsIn(C, t.parent) PROVE FALSE
  <2>1. \E a \in Ids, k \in Nat : l = <<a, k>> /\ <<a, t.parent, k>> \in C
    BY <1>1, Ancestors
  <2> QED
    BY <2>1, <1>1
<1> QED
  BY <1>2 DEF Above

(* A transaction that writes what is asked for keeps the closure exact.    *)
LEMMA CommitExact ==
  ASSUME NEW C, NEW table, NEW D \in SUBSET Ids, Exact(table, C, D), D = DepartmentsIn(table),
         NEW t, t.id \in Ids, Granted(table, C, t), t.kind \in {"create", "update", "delete"},
         t.kind = "create" => t.id \notin D,
         Written(C, t) \in SUBSET Links, Done(C, t),
         NEW after, \A d \in Ids \ {t.id} : after[d] = table[d],
         t.kind # "delete" => after[t.id].parent = t.parent,
         NEW E, E = IF t.kind = "delete" THEN D \ {t.id} ELSE D \cup {t.id}
  PROVE  Exact(after, Written(C, t), E)
<1> DEFINE C2 == Written(C, t)
<1>1. \A a, d \in Ids, k \in Nat : <<a, d, k>> \in C2 <=> Asks(C, t, a, d, k)
  BY DEF Done
<1>2. t.parent \in D \cup {Root} /\ \A d \in D \ {t.id} : after[d].parent = table[d].parent
  BY DEF Granted
<1>t. C2 \in SUBSET Links
  OBVIOUS
<1> HIDE DEF C2
<1>3. CASE t.kind = "create"
  <2>1. \A d \in D : after[d].parent = table[d].parent
    BY <1>2, <1>3
  <2>2. ~Moves(t)
    BY <1>3 DEF Moves
  <2>3. \A a, d \in Ids, k \in Nat : <<a, d, k>> \in C2 <=> CreatedAt(C, t.id, t.parent, a, d, k)
    BY <1>1, <1>3, <2>2 DEF Asks
  <2>4. Exact(after, C2, D \cup {t.id})
    BY <1>2, <1>3, <2>1, <2>3, <1>t, CreateExact
  <2> QED
    BY <1>3, <2>4 DEF C2
<1>4. CASE t.kind = "delete"
  <2>1. ~Moves(t) /\ t.id \in D /\ \A d \in D : table[d].parent # t.id
    BY <1>4 DEF Moves, Granted
  <2>2. \A a, d \in Ids, k \in Nat : <<a, d, k>> \in C2 <=> <<a, d, k>> \in C /\ a # t.id /\ d # t.id
    BY <1>1, <1>4, <2>1 DEF Asks
  <2>3. Exact(after, C2, D \ {t.id})
    BY <1>2, <2>1, <2>2, <1>t, DeleteExact
  <2> QED
    BY <1>4, <2>3 DEF C2
<1>5. CASE Moves(t)
  <2>1. t.kind = "update" /\ t.id \in D /\ D \cup {t.id} = D /\ \A k \in Nat : <<t.id, t.parent, k>> \notin C
    BY <1>5 DEF Moves, Granted
  <2>2. \A a, d \in Ids, k \in Nat : <<a, d, k>> \in C2 <=> MovedTo(C, t.id, t.parent, a, d, k)
    BY <1>1, <1>5, <2>1 DEF Asks
  <2>3. Exact(after, C2, D)
    BY ZenonT(30), <1>2, <2>1, <2>2, <1>t, MoveExact
  <2> QED
    BY <2>1, <2>3 DEF C2
<1>6. CASE t.kind = "update" /\ ~Moves(t)
  <2>1. t.id \in D /\ D \cup {t.id} = D /\ after[t.id].parent = table[t.id].parent
    BY <1>6 DEF Granted, Moves
  <2>2. C \in SUBSET Links /\ C2 \in SUBSET Links
    BY DEF Exact, C2
  <2>3. \A a, d \in Ids, k \in Nat : <<a, d, k>> \in C2 <=> <<a, d, k>> \in C
    BY <1>1, <1>6 DEF Asks
  <2>4. C2 = C
    <3>1. \A r \in Links : \E a, d \in Ids, k \in Nat : r = <<a, d, k>>
      BY DEF Links
    <3> QED
      BY <2>2, <2>3, <3>1
  <2>5. \A d \in D : after[d].parent = table[d].parent
    BY <1>2, <2>1
  <2>6. Exact(after, C, D)
    BY <2>5 DEF Exact, Rooted, Stepwise
  <2> QED
    BY <1>6, <2>1, <2>4, <2>6 DEF C2
<1> QED
  BY <1>3, <1>4, <1>5, <1>6 DEF Moves

-----------------------------------------------------------------------------
(* The steps of SQLite. *)

(* A step of the one transaction that runs, which writes nothing yet.      *)
LEMMA AloneStep ==
  ASSUME Versions, Serial, NEW p \in Admins, NEW t,
         tx' = [tx EXCEPT ![p] = t], UNCHANGED <<rows, closure>>,
         t = Idle \/ Ready(rows, closure, t),
         t # Idle => tx[p] # Idle \/ \A q \in Admins \ {p} : tx[q] = Idle
  PROVE  Serial'
<1>1. tx'[p] = t /\ \A q \in Admins \ {p} : tx'[q] = tx[q]
  BY DEF Versions, TypeOK
<1>2. rows' = rows /\ closure' = closure
  OBVIOUS
<1>3. Exact(rows, closure, DepartmentsIn(rows))'
  BY <1>2 DEF Serial
<1>4. (\A q, r \in Admins : tx[q] = Idle \/ tx[r] = Idle \/ q = r)'
  BY <1>1 DEF Serial
<1>5. (\A q \in Admins : tx[q] = Idle \/ Ready(rows, closure, tx[q]))'
  <2> SUFFICES ASSUME NEW q \in Admins PROVE tx'[q] = Idle \/ Ready(rows', closure', tx'[q])
    OBVIOUS
  <2>1. CASE q = p
    BY <2>1, <1>1, <1>2
  <2>2. CASE q # p
    BY <2>2, <1>1, <1>2 DEF Serial
  <2> QED
    BY <2>1, <2>2
<1> QED
  BY <1>3, <1>4, <1>5 DEF Serial

LEMMA Others_Idle ==
  ASSUME NEW p \in Admins, \A o \in Others(p) : o = Idle
  PROVE  \A q \in Admins \ {p} : tx[q] = Idle
  BY DEF Others

(* A new parent that is found is not below d.                              *)
LEMMA NotBelow ==
  ASSUME NEW d, NEW parent, ~IsDescendant(d, parent)
  PROVE  \A k \in Nat : <<d, parent, k>> \notin closure
<1>1. ASSUME NEW k \in Nat, <<d, parent, k>> \in closure PROVE FALSE
  <2>1. <<d, k>> \in AncestorsIn(closure, parent)
    BY <1>1 DEF AncestorsIn
  <2> QED
    BY <2>1 DEF IsDescendant
<1> QED
  BY <1>1

(* What the record of a transaction becomes keeps its request.             *)
LEMMA StillGranted ==
  ASSUME NEW table, NEW C, NEW o, NEW t, Granted(table, C, o), t.parent = o.parent, t.kind = o.kind,
         t.id = o.id, t.from = o.from, o.kind = "create" => t.tree = o.tree
  PROVE  Granted(table, C, t)
  BY DEF Granted, Moves

LEMMA SerialStep ==
  ASSUME Versions, Serial, dialect = "sqlite", [Next]_vars
  PROVE  Serial'
<1>t. TypeOK /\ closure \in SUBSET Links
  BY DEF Versions, TypeOK
<1>p. ASSUME NEW p \in Admins PROVE tx[p] \in Tx
  BY <1>t DEF TypeOK
<1>g. ASSUME NEW p \in Admins, tx[p].pc \notin {"idle", "parent", "cycle"}
      PROVE  /\ tx[p] # Idle /\ Granted(rows, closure, tx[p]) /\ Stage(closure, tx[p])
             /\ Asked(tx[p], page[p]) /\ tx[p].id \in Ids /\ tx[p].kind \in {"create", "update", "delete"}
  <2>1. tx[p] # Idle
    BY <1>g DEF Idle
  <2>2. tx[p] \in Tx
    BY <1>p
  <2> QED
    BY <1>g, <2>1, <2>2 DEF Serial, Ready, Looking, Versions, AllAsked, Asked, Tx
<1>0. CASE UNCHANGED vars
  <2>1. rows' = rows /\ closure' = closure /\ tx' = tx
    BY <1>0 DEF vars
  <2> QED
    BY <2>1 DEF Serial
<1>3. ASSUME NEW p \in Admins, Load(p) PROVE Serial'
  <2>1. rows' = rows /\ closure' = closure /\ tx' = tx
    BY <1>3 DEF Load
  <2> QED
    BY <2>1 DEF Serial
<1>b. ASSUME NEW p \in Admins, NEW t, Begins(p, t),
             Looking(rows, t) \/ (Granted(rows, closure, t) /\ t.pc = "write"),
             t.del = {}, t.ins = {}
      PROVE  Serial'
  <2>1. Ready(rows, closure, t)
    BY <1>b DEF Stage, Ready
  <2>2. \A q \in Admins \ {p} : tx[q] = Idle
    BY <1>b, Others_Idle DEF Begins
  <2> QED
    BY <1>b, <2>1, <2>2, AloneStep DEF Begins
<1>4. ASSUME NEW p \in Admins, Create(p) PROVE Serial'
  <2>1. PICK d \in Ids, parent \in {Root} \cup (DepartmentsIn(page[p]) \cap Departments) :
          /\ rows[d] = NoRow
          /\ Begins(p, [Request("create", d, parent, 0, parent) EXCEPT !.tree = {<<d, 0>>}])
    BY <1>4 DEF Create
  <2> DEFINE t == [Request("create", d, parent, 0, parent) EXCEPT !.tree = {<<d, 0>>}]
  <2>2. /\ t.pc = "write" /\ t.kind = "create" /\ t.id = d /\ t.parent = parent /\ t.tree = {<<d, 0>>}
        /\ t.del = {} /\ t.ins = {}
    BY DEF Request, Idle
  <2> HIDE DEF t
  <2>3. parent \in DepartmentsIn(rows) \cup {Root}
    BY DEF Departments
  <2>4. Granted(rows, closure, t)
    BY <2>2, <2>3 DEF Granted, Moves
  <2> QED
    BY <2>1, <2>2, <2>4, <1>b DEF t
<1>5. ASSUME NEW p \in Admins, Update(p) PROVE Serial'
  <2>0. PICK d \in DepartmentsIn(page[p]) : \E parent \in ParentOptions(page[p], d) :
          /\ Current(d, page[p][d].version)
          /\ Begins(p, Asking(Request("update", d, parent, page[p][d].version, rows[d].parent)))
    BY <1>5 DEF Update
  <2>1. PICK parent \in ParentOptions(page[p], d) :
          /\ Current(d, page[p][d].version)
          /\ Begins(p, Asking(Request("update", d, parent, page[p][d].version, rows[d].parent)))
    BY <2>0
  <2>2. /\ d \in Ids /\ d \in DepartmentsIn(rows) /\ parent \in Ids \cup {Root}
        /\ page[p][d].version \in Nat /\ rows[d].parent \in Ids \cup {Root}
    BY <2>1, <1>t DEF Current, Departments, DepartmentsIn, ParentOptions, TypeOK, Row
  <2>v. PICK v \in Nat : v = page[p][d].version
    BY <2>2
  <2>f. PICK f \in Ids \cup {Root} : f = rows[d].parent
    BY <2>2
  <2> DEFINE u == Request("update", d, parent, v, f)
             t == Asking(u)
  <2>3. /\ u \in Tx /\ u.pc = "write" /\ u.kind = "update" /\ u.id = d /\ u.parent = parent
        /\ u.from = f /\ u.del = {} /\ u.ins = {}
    BY <2>2 DEF Request, Idle, Tx
  <2> HIDE DEF u
  <2>4. /\ t.pc \in {"parent", "write"}
        /\ t.pc = "parent" <=> Moves(u) /\ parent # Root
        /\ t.kind = "update" /\ t.id = d /\ t.parent = parent
        /\ t.from = rows[d].parent /\ t.del = {} /\ t.ins = {}
    BY <2>3, <2>f, AskingType
  <2>a. Begins(p, t)
    BY <2>1, <2>v, <2>f DEF u
  <2> HIDE DEF t
  <2>5. CASE t.pc = "parent"
    <3>1. Looking(rows, t)
      BY <2>2, <2>4, <2>5 DEF Looking
    <3> QED
      BY <2>a, <2>4, <3>1, <1>b
  <2>6. CASE t.pc = "write"
    <3>1. parent = rows[d].parent \/ parent = Root
      BY <2>3, <2>f, <2>4, <2>6 DEF Moves
    <3>2. parent \in DepartmentsIn(rows) \cup {Root}
      BY <2>2, <3>1 DEF Serial, Exact, Rooted
    <3>3. \A k : <<d, Root, k>> \notin closure
      BY RootAssumption DEF Serial, Exact, Within, DepartmentsIn
    <3>4. Granted(rows, closure, t)
      BY <2>2, <2>4, <3>1, <3>2, <3>3 DEF Granted, Moves
    <3> QED
      BY <2>a, <2>4, <2>6, <3>4, <1>b
  <2> QED
    BY <2>4, <2>5, <2>6
<1>6. ASSUME NEW p \in Admins, Delete(p) PROVE Serial'
  <2>1. PICK d \in DepartmentsIn(page[p]) :
          /\ Current(d, page[p][d].version) /\ \A c \in Departments : rows[c].parent # d
          /\ Begins(p, Request("delete", d, Root, page[p][d].version, Root))
    BY <1>6 DEF Delete
  <2> DEFINE t == Request("delete", d, Root, page[p][d].version, Root)
  <2>2. /\ t.pc = "write" /\ t.kind = "delete" /\ t.id = d /\ t.parent = Root /\ t.del = {} /\ t.ins = {}
    BY DEF Request, Idle
  <2> HIDE DEF t
  <2>3. Granted(rows, closure, t)
    BY <2>1, <2>2 DEF Granted, Moves, Current, Departments
  <2> QED
    BY <2>1, <2>2, <2>3, <1>b DEF t
<1>7. ASSUME NEW p \in Admins, Fails(p) PROVE Serial'
  BY <1>7, AloneStep DEF Fails
<1>l. ASSUME NEW p \in Admins, tx[p].pc \in {"parent", "cycle"}
      PROVE  tx[p] # Idle /\ Looking(rows, tx[p]) /\ tx[p] \in Tx
  <2>1. tx[p] # Idle
    BY <1>l DEF Idle
  <2>2. ~Stage(closure, tx[p])
    BY <1>l DEF Stage
  <2> QED
    BY <2>1, <2>2, <1>p DEF Serial, Ready
<1>15. ASSUME NEW p \in Admins, GetParent(p) PROVE Serial'
  <2> DEFINE t == [tx[p] EXCEPT !.pc = "cycle"]
  <2>1. /\ tx[p] # Idle /\ Looking(rows, tx[p]) /\ tx[p].parent \in DepartmentsIn(rows)
        /\ tx' = [tx EXCEPT ![p] = t] /\ UNCHANGED <<rows, closure>>
    BY <1>15, <1>l DEF GetParent, Step, Departments
  <2>2. Looking(rows, t)
    BY <2>1, <1>p DEF Looking, Tx
  <2> QED
    BY <2>1, <2>2, AloneStep DEF Ready
<1>16. ASSUME NEW p \in Admins, CheckCycle(p) PROVE Serial'
  <2> DEFINE t == [tx[p] EXCEPT !.pc = "write"]
  <2>1. /\ tx[p] # Idle /\ Looking(rows, tx[p]) /\ tx[p].pc = "cycle"
        /\ ~IsDescendant(tx[p].id, tx[p].parent)
        /\ tx' = [tx EXCEPT ![p] = t] /\ UNCHANGED <<rows, closure>>
    BY <1>16, <1>l DEF CheckCycle, Step
  <2>2. /\ t.pc = "write" /\ t.kind = tx[p].kind /\ t.id = tx[p].id /\ t.parent = tx[p].parent
        /\ t.from = tx[p].from /\ t.del = tx[p].del /\ t.ins = tx[p].ins
    BY <1>p DEF Tx
  <2> HIDE DEF t
  <2>3. Granted(rows, closure, t)
    BY <2>1, <2>2, NotBelow DEF Granted, Looking
  <2>4. Stage(closure, t)
    BY <2>1, <2>2 DEF Stage, Looking
  <2> QED
    BY <2>1, <2>3, <2>4, AloneStep DEF Ready, t
<1>s. ASSUME NEW p \in Admins, NEW t, tx[p].pc \notin {"idle", "parent", "cycle"}, tx' = [tx EXCEPT ![p] = t],
             UNCHANGED <<rows, closure>>, t.parent = tx[p].parent, t.kind = tx[p].kind,
             t.id = tx[p].id, t.from = tx[p].from, tx[p].kind = "create" => t.tree = tx[p].tree,
             Stage(closure, t)
      PROVE  Serial'
  <2>1. tx[p] # Idle /\ Granted(rows, closure, tx[p])
    BY <1>s, <1>g
  <2>2. Granted(rows, closure, t)
    BY <2>1, <1>s, StillGranted
  <2> QED
    BY <2>1, <2>2, <1>s, AloneStep DEF Ready
<1>8. ASSUME NEW p \in Admins, Write(p) PROVE Serial'
  <2> DEFINE o == tx[p]
             ins == IF o.kind = "create" THEN {<<o.id, o.id, 0>>} ELSE {}
             del == IF o.kind = "delete" THEN Cascade(o.id) ELSE {}
             pc == IF Moves(o) THEN "links"
                   ELSE IF o.kind = "create" /\ o.parent # Root THEN "above"
                   ELSE "commit"
             t == [o EXCEPT !.wrote = TRUE, !.ins = ins, !.del = del, !.pc = pc]
  <2>1. /\ o \in Tx /\ o.pc = "write" /\ o.pc # "idle" /\ tx' = [tx EXCEPT ![p] = t]
        /\ UNCHANGED <<rows, closure>>
    BY <1>8, <1>p DEF Write, Step
  <2>2. /\ Granted(rows, closure, o) /\ o.id \in Ids /\ o.kind \in {"create", "update", "delete"}
    BY <2>1, <1>g
  <2> HIDE DEF o
  <2>3. /\ t.parent = o.parent /\ t.kind = o.kind /\ t.id = o.id /\ t.from = o.from /\ t.tree = o.tree
        /\ t.ins = ins /\ t.del = del /\ t.pc = pc
    <3> HIDE DEF ins, del, pc
    <3> QED
      BY <2>1 DEF Tx
  <2> HIDE DEF t
  <2>4. CASE Moves(o)
    <3>1. o.kind = "update" /\ Moves(t)
      BY <2>3, <2>4 DEF Moves
    <3>2. t.pc = "links" /\ t.ins = {} /\ t.del = {}
      BY <2>3, <2>4, <3>1
    <3>3. Stage(closure, t)
      BY <3>1, <3>2 DEF Stage
    <3> QED
      BY <2>1, <2>3, <3>3, <1>s DEF o
  <2>5. CASE ~Moves(o) /\ o.kind = "create" /\ o.parent # Root
    <3>1. t.pc = "above" /\ t.ins = {<<t.id, t.id, 0>>} /\ t.del = {}
      BY <2>3, <2>5
    <3>2. Stage(closure, t)
      BY <2>3, <2>5, <3>1 DEF Stage, Cut
    <3> QED
      BY <2>1, <2>3, <3>2, <1>s DEF o
  <2>6. CASE ~Moves(o) /\ ~(o.kind = "create" /\ o.parent # Root)
    <3>1. t.pc = "commit" /\ ~Moves(t)
      BY <2>3, <2>6 DEF Moves
    <3>2. ASSUME NEW a \in Ids, NEW d \in Ids, NEW k \in Nat
          PROVE  <<a, d, k>> \in Written(closure, t) <=> Asks(closure, t, a, d, k)
      <4>1. CASE t.kind = "create"
        <5>1. t.parent = Root /\ \A x, j : <<x, Root, j>> \notin closure
          BY <2>3, <2>6, <4>1, RootAssumption DEF Serial, Exact, Within, DepartmentsIn
        <5>2. CreatedAt(closure, t.id, t.parent, a, d, k) <=>
                <<a, d, k>> \in closure \/ (a = t.id /\ d = t.id /\ k = 0)
          BY <5>1 DEF CreatedAt
        <5>3. t.ins = {<<t.id, t.id, 0>>} /\ t.del = {}
          BY <2>3, <4>1
        <5> QED
          BY <4>1, <5>2, <5>3, <3>1 DEF Asks, Written
      <4>2. CASE t.kind = "update"
        <5>1. t.ins = {} /\ t.del = {}
          BY <2>3, <4>2
        <5> QED
          BY <4>2, <5>1, <3>1 DEF Asks, Written
      <4>3. CASE t.kind = "delete"
        <5>1. t.ins = {} /\ t.del = Cascade(t.id)
          BY <2>3, <4>3
        <5>2. <<a, d, k>> \in Cascade(t.id) <=> <<a, d, k>> \in closure /\ (t.id = a \/ t.id = d)
          BY DEF Cascade
        <5> QED
          BY <4>3, <5>1, <5>2, <3>1 DEF Asks, Written
      <4> QED
        BY <2>2, <2>3, <4>1, <4>2, <4>3
    <3>3. Stage(closure, t)
      BY <3>1, <3>2 DEF Stage, Done
    <3> QED
      BY <2>1, <2>3, <3>3, <1>s DEF o
  <2> QED
    BY <2>4, <2>5, <2>6
<1>9. ASSUME NEW p \in Admins, ReadLinks(p) PROVE Serial'
  <2> DEFINE o == tx[p]
             tree == DescendantsIn(closure, o.id)
             old == {l[1] : l \in AncestorsIn(closure, o.id)} \ {o.id}
             t == [o EXCEPT !.tree = tree, !.old = old, !.pc = "find"]
  <2>1. /\ o \in Tx /\ o.pc = "links" /\ o.pc # "idle" /\ tx' = [tx EXCEPT ![p] = t]
        /\ UNCHANGED <<rows, closure>>
    BY <1>9, <1>p DEF ReadLinks, Step
  <2>2. Moves(o) /\ o.kind = "update" /\ o.del = {} /\ o.ins = {}
    BY <2>1, <1>g DEF Stage, Moves
  <2> HIDE DEF o
  <2>3. /\ t.parent = o.parent /\ t.kind = o.kind /\ t.id = o.id /\ t.from = o.from
        /\ t.del = o.del /\ t.ins = o.ins /\ t.tree = tree /\ t.old = old /\ t.pc = "find"
    <3> HIDE DEF tree, old
    <3> QED
      BY <2>1 DEF Tx
  <2> HIDE DEF t
  <2>4. Stage(closure, t)
    BY <2>2, <2>3 DEF Stage, HasRead, Moves
  <2> QED
    BY <2>1, <2>2, <2>3, <2>4, <1>s DEF o
<1>10. ASSUME NEW p \in Admins, FindLinks(p) PROVE Serial'
  <2> DEFINE o == tx[p]
             t == [o EXCEPT !.targets = Crossing(o), !.pc = "unlink"]
  <2>1. /\ o \in Tx /\ o.pc = "find" /\ o.pc # "idle" /\ tx' = [tx EXCEPT ![p] = t]
        /\ UNCHANGED <<rows, closure>>
    BY <1>10, <1>p DEF FindLinks, Step
  <2>2. Moves(o) /\ o.kind = "update" /\ o.del = {} /\ o.ins = {} /\ HasRead(closure, o)
    BY <2>1, <1>g DEF Stage, Moves
  <2> HIDE DEF o
  <2>3. /\ t.parent = o.parent /\ t.kind = o.kind /\ t.id = o.id /\ t.from = o.from
        /\ t.del = o.del /\ t.ins = o.ins /\ t.tree = o.tree /\ t.old = o.old
        /\ t.targets = Crossing(o) /\ t.pc = "unlink"
    BY <2>1 DEF Tx
  <2> HIDE DEF t
  <2>4. t.targets = Crosses(closure, t)
    BY <2>3 DEF Crossing, Crosses
  <2>5. Stage(closure, t)
    BY <2>2, <2>3, <2>4 DEF Stage, HasRead, Moves
  <2> QED
    BY <2>1, <2>2, <2>3, <2>5, <1>s DEF o
<1>11. ASSUME NEW p \in Admins, DeleteLinks(p) PROVE Serial'
  <2> DEFINE o == tx[p]
             t == [o EXCEPT !.del = o.targets \cap closure,
                            !.pc = IF o.parent = Root THEN "commit" ELSE "above"]
  <2>1. /\ o \in Tx /\ o.pc = "unlink" /\ o.pc # "idle" /\ tx' = [tx EXCEPT ![p] = t]
        /\ UNCHANGED <<rows, closure>>
    BY <1>11, <1>p DEF DeleteLinks, Step
  <2>2. /\ Moves(o) /\ o.kind = "update" /\ o.ins = {} /\ HasRead(closure, o)
        /\ o.targets = Crosses(closure, o) /\ Granted(rows, closure, o) /\ o.id \in Ids
    BY <2>1, <1>g DEF Stage, Moves
  <2> HIDE DEF o
  <2>3. /\ t.parent = o.parent /\ t.kind = o.kind /\ t.id = o.id /\ t.from = o.from
        /\ t.ins = o.ins /\ t.tree = o.tree /\ t.old = o.old
        /\ t.del = o.targets \cap closure
        /\ t.pc = IF o.parent = Root THEN "commit" ELSE "above"
    BY <2>1 DEF Tx
  <2> HIDE DEF t
  <2>4. t.del = Crosses(closure, t) /\ Moves(t) /\ HasRead(closure, t)
    BY <2>2, <2>3 DEF Crosses, HasRead, Moves
  <2>5. Cut(closure, t)
    BY <2>2, <2>3, <2>4 DEF Cut
  <2>6. ASSUME o.parent = Root PROVE Done(closure, t)
    <3>1. Granted(rows, closure, t)
      BY <2>2, <2>3, StillGranted
    <3>2. TreeType(t)
      BY <2>1, <2>3 DEF TreeType, Tx
    <3>3. Above(closure, t) = {}
      BY <2>3, <2>6, RootWritten DEF Serial, DepartmentsIn
    <3>4. \A a, d \in Ids, k \in Nat :
            <<a, d, k>> \in (closure \ t.del) \cup (t.ins \cup Above(closure, t)) <=> Asks(closure, t, a, d, k)
      BY <3>1, <3>2, <2>2, <2>3, <2>5, <1>t, CutWritten
    <3>5. Written(closure, t) = (closure \ t.del) \cup (t.ins \cup Above(closure, t))
      BY <3>3 DEF Written
    <3> QED
      BY <3>4, <3>5 DEF Done
  <2>7. Stage(closure, t)
    BY <2>3, <2>5, <2>6 DEF Stage
  <2> QED
    BY <2>1, <2>2, <2>3, <2>7, <1>s DEF o
<1>c. ASSUME NEW p \in Admins, Cut(closure, tx[p]), Granted(rows, closure, tx[p]), tx[p].id \in Ids,
             Asked(tx[p], page[p])
      PROVE  NewLinks(p) = Above(closure, tx[p])
  <2>1. tx[p].id # tx[p].parent
    <3>1. CASE tx[p].kind = "create"
      BY <1>c, <3>1, RootAssumption DEF Asked, Granted, DepartmentsIn
    <3>2. CASE Moves(tx[p])
      <4>1. tx[p].id \in DepartmentsIn(rows) /\ \A k \in Nat : <<tx[p].id, tx[p].parent, k>> \notin closure
        BY <1>c, <3>2 DEF Granted, Moves
      <4>2. <<tx[p].id, tx[p].id, 0>> \in closure
        BY <4>1, <1>c DEF Serial, Exact, Stepwise
      <4> QED
        BY <4>1, <4>2
    <3> QED
      BY <1>c, <3>1, <3>2 DEF Cut
  <2>2. AncestorsIn(Written(closure, tx[p]), tx[p].parent) = AncestorsIn(closure, tx[p].parent)
    BY <2>1, <1>c, <1>t, ParentKept
  <2>3. Sees(p) = Written(closure, tx[p])
    BY DEF Sees, Written
  <2> QED
    BY <2>2, <2>3 DEF NewLinks, Above
<1>12. ASSUME NEW p \in Admins, ReadAbove(p) PROVE Serial'
  <2> DEFINE o == tx[p]
             t == [o EXCEPT !.links = NewLinks(p), !.pc = "link"]
  <2>1. /\ o \in Tx /\ o.pc = "above" /\ o.pc # "idle" /\ tx' = [tx EXCEPT ![p] = t]
        /\ UNCHANGED <<rows, closure>>
    BY <1>12, <1>p DEF ReadAbove, Step
  <2>2. /\ Cut(closure, o) /\ Granted(rows, closure, o) /\ o.id \in Ids /\ Asked(o, page[p])
    BY <2>1, <1>g DEF Stage
  <2>3. NewLinks(p) = Above(closure, o)
    BY <2>2, <1>c
  <2> HIDE DEF o
  <2>4. /\ t.parent = o.parent /\ t.kind = o.kind /\ t.id = o.id /\ t.from = o.from
        /\ t.ins = o.ins /\ t.del = o.del /\ t.tree = o.tree /\ t.old = o.old
        /\ t.links = NewLinks(p) /\ t.pc = "link"
    BY <2>1 DEF Tx
  <2> HIDE DEF t
  <2>5. Cut(closure, t)
    BY <2>2, <2>4 DEF Cut, Moves, HasRead, Crosses
  <2>6. t.links = Above(closure, t)
    BY <2>3, <2>4 DEF Above
  <2>7. Stage(closure, t)
    BY <2>4, <2>5, <2>6 DEF Stage
  <2> QED
    BY <2>1, <2>4, <2>7, <1>s DEF o
<1>13. ASSUME NEW p \in Admins, InsertLinks(p) PROVE Serial'
  <2> DEFINE o == tx[p]
             t == [o EXCEPT !.ins = @ \cup o.links, !.pc = "commit"]
  <2>1. /\ o \in Tx /\ o.pc = "link" /\ o.pc # "idle" /\ tx' = [tx EXCEPT ![p] = t]
        /\ UNCHANGED <<rows, closure>>
    BY <1>13, <1>p DEF InsertLinks, Step
  <2>2. /\ Cut(closure, o) /\ Granted(rows, closure, o) /\ o.id \in Ids
        /\ o.links = Above(closure, o)
    BY <2>1, <1>g DEF Stage
  <2> HIDE DEF o
  <2>3. /\ t.parent = o.parent /\ t.kind = o.kind /\ t.id = o.id /\ t.from = o.from
        /\ t.ins = o.ins \cup o.links /\ t.del = o.del /\ t.tree = o.tree /\ t.pc = "commit"
    BY <2>1 DEF Tx
  <2> HIDE DEF t
  <2>4. TreeType(o)
    BY <2>1 DEF TreeType, Tx
  <2>5. ASSUME NEW a \in Ids, NEW d \in Ids, NEW k \in Nat
        PROVE  <<a, d, k>> \in Written(closure, t) <=> Asks(closure, t, a, d, k)
    <3>1. <<a, d, k>> \in (closure \ o.del) \cup (o.ins \cup Above(closure, o)) <=> Asks(closure, o, a, d, k)
      BY <2>2, <2>4, <1>t, CutWritten
    <3>2. Asks(closure, t, a, d, k) <=> Asks(closure, o, a, d, k)
      BY <2>3 DEF Asks, Moves
    <3>3. Written(closure, t) = (closure \ o.del) \cup (o.ins \cup Above(closure, o))
      BY <2>2, <2>3 DEF Written
    <3> QED
      BY <3>1, <3>2, <3>3
  <2>6. Stage(closure, t)
    BY <2>3, <2>5 DEF Stage, Done
  <2> QED
    BY <2>1, <2>3, <2>6, <1>s DEF o
<1>14. ASSUME NEW p \in Admins, Commit(p) PROVE Serial'
  <2> DEFINE t == tx[p]
             D == DepartmentsIn(rows)
             row == [parent |-> t.parent, version |-> t.seen + 1]
  <2>1. /\ t \in Tx /\ t.pc = "commit" /\ t.pc # "idle" /\ tx' = [tx EXCEPT ![p] = Idle]
        /\ rows' = [rows EXCEPT ![t.id] = IF t.kind = "delete" THEN Gone ELSE row]
        /\ closure' = Written(closure, t)
    BY <1>14, <1>p DEF Commit, Sees, Written
  <2>2. /\ Granted(rows, closure, t) /\ Done(closure, t) /\ t.id \in Ids /\ t # Idle
        /\ Asked(t, page[p]) /\ t.kind \in {"create", "update", "delete"}
    BY <2>1, <1>g DEF Stage
  <2>3. /\ \A d \in Ids \ {t.id} : rows'[d] = rows[d]
        /\ rows'[t.id] = IF t.kind = "delete" THEN Gone ELSE row
        /\ \A q \in Admins : tx'[q] = Idle
    BY <2>1, <2>2, <1>t DEF Serial, TypeOK
  <2>4. t.seen \in Nat /\ (t.kind # "delete" => t.seen + 1 # 0 /\ t.seen + 1 # MaxVersion + 1)
    BY <2>1, <2>2, VersionAssumption DEF Tx, Asked
  <2>5. row \notin {NoRow, Gone} \/ t.kind = "delete"
    BY <2>4 DEF NoRow, Gone
  <2>6. DepartmentsIn(rows') = IF t.kind = "delete" THEN D \ {t.id} ELSE D \cup {t.id}
    BY <2>2, <2>3, <2>5 DEF DepartmentsIn
  <2>7. t.kind = "create" => t.id \notin D
    BY <2>2 DEF Asked, DepartmentsIn
  <2>8. Written(closure, t) \in SUBSET Links
    BY <2>1, <1>t DEF Written, Tx
  <2>9. t.kind # "delete" => rows'[t.id].parent = t.parent
    BY <2>3
  <2>10. D \in SUBSET Ids /\ Exact(rows, closure, D) /\ D = DepartmentsIn(rows)
    BY DEF DepartmentsIn, Serial
  <2> HIDE DEF t, D, row
  <2> DEFINE after == rows'
             E == DepartmentsIn(after)
  <2>11. /\ \A d \in Ids \ {t.id} : after[d] = rows[d]
         /\ t.kind # "delete" => after[t.id].parent = t.parent
         /\ E = IF t.kind = "delete" THEN D \ {t.id} ELSE D \cup {t.id}
    BY <2>3, <2>6, <2>9
  <2> HIDE DEF after, E
  <2>12. Exact(after, Written(closure, t), E)
    BY <2>2, <2>7, <2>8, <2>10, <2>11, CommitExact
  <2> QED
    BY <2>1, <2>3, <2>12 DEF Serial, after, E
<1> QED
  BY <1>0, <1>3, <1>4, <1>5, <1>6, <1>7, <1>8, <1>9, <1>10, <1>11, <1>12, <1>13, <1>14,
     <1>15, <1>16 DEF Next

LEMMA InitSerial == Init => Serial
<1> SUFFICES ASSUME Init PROVE Serial
  OBVIOUS
<1>1. DepartmentsIn(rows) = {} /\ closure = {} /\ \A p \in Admins : tx[p] = Idle
  BY DEF Init, DepartmentsIn
<1>2. Exact(rows, closure, DepartmentsIn(rows))
  BY <1>1 DEF Exact, Within, Rooted, Stepwise, Unique, Transitive, Comparable
<1> QED
  BY <1>1, <1>2 DEF Serial

(* SerialExact: on SQLite, where a transaction that overlaps another one   *)
(* fails, creating, moving and deleting departments keeps the closure      *)
(* table the tree's.                                                       *)
THEOREM SerialExactCorrect == Spec => []SerialExact
<1>1. Init => IInv
  BY VersionsInit, InitSerial DEF IInv
<1>2. IInv /\ [Next]_vars => IInv'
  <2> SUFFICES ASSUME IInv, [Next]_vars PROVE IInv'
    OBVIOUS
  <2>1. dialect' = dialect
    BY DEF Next, vars, Load, Create, Update, Delete, Begins, GetParent, CheckCycle, Write, ReadLinks,
           FindLinks, DeleteLinks, ReadAbove, InsertLinks, Step, Commit, Fails
  <2>2. Versions'
    BY VersionsStep DEF IInv
  <2>3. dialect = "sqlite" => Serial'
    BY SerialStep DEF IInv
  <2> QED
    BY <2>1, <2>2, <2>3 DEF IInv
<1>3. IInv => SerialExact
  BY ExactIsClosureExact DEF IInv, Serial, SerialExact, Departments
<1> QED
  BY <1>1, <1>2, <1>3, PTL DEF Spec

=============================================================================
