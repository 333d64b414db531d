---------------------------- MODULE RvVme_proofs ----------------------------
(***************************************************************************)
(* The Sv39 tables with any indexes, spaces and pages: every table handed  *)
(* out has one place in the tree of one space, so that an entry belongs to *)
(* one page, whatever tables the spaces share.                             *)
(***************************************************************************)
EXTENDS RvVme, TLAPS

Target == Pa \cup KernelVa \cup {Junk}
Entry  == [to : {"none", "table", "page"}, at : {0} \cup Frame \cup Target]
Memory == [Frame -> [Idx -> Entry]]

\* The place of a table: its level, 2 for a root; the space it was made for; the indexes
\* that lead to it.
Place(l, s, i, j) == [level |-> l, of |-> s, i |-> i, j |-> j]

\* Table b hangs in entry k of a table at place p.  A user's root may hold the kernel's tables.
IsChild(b, p, k) ==
  \/ p.level = 2 /\ b.level = 1 /\ b.of \in {p.of, Kas} /\ b.i = k
  \/ p.level = 1 /\ b.level = 0 /\ b.of = p.of /\ b.i = p.i /\ b.j = k

\* A page hangs where its size allows it.
IsPage(p, k) == \/ p.level = 0
                \/ p.level = 1 /\ <<p.i, k>> \in HugeVa
                \/ p.level = 2 /\ <<k>> \in HugeVa

\* With n tables handed out, memory m is a forest, with the tables at the places P.
Shape(m, n, P) ==
  /\ n \in 0..MaxTables /\ m \in Memory
  /\ \A t \in Frame, k \in Idx : m[t][k].to = "page" => m[t][k].at \in Target
  /\ \A t \in Frame, k \in Idx : t > n => m[t][k].to = "page"
  /\ \A t \in 1..n : P[t].level \in {0, 1, 2} /\ P[t].of \in Space
  /\ \A t \in 1..n, k \in Idx :
       /\ m[t][k].to = "table" => m[t][k].at \in 1..n /\ IsChild(P[m[t][k].at], P[t], k)
       /\ m[t][k].to = "page" => IsPage(P[t], k)

\* What the hardware finds for page v below root table r.
Find(m, r, v) ==
  LET e2 == m[r][v[1]]
      e1 == m[e2.at][v[2]]
      e0 == m[e1.at][v[3]]
  IN  IF e2.to = "none" THEN Fault ELSE IF e2.to = "page" THEN e2.at
      ELSE IF e1.to = "none" THEN Fault ELSE IF e1.to = "page" THEN e1.at
      ELSE IF e0.to = "page" THEN e0.at ELSE Fault

\* The entry that decides on the 2 MiB around page v, if there is a table for it.
Middle(m, r, v) == IF m[r][v[1]].to = "table" THEN m[m[r][v[1]].at][v[2]] ELSE m[r][v[1]]

\* From memory m to m2 that entry stays what it is, or stays empty.
KeepsMiddle(m, r, v, m2) ==
  /\ Middle(m, r, v).to = "none" => Middle(m2, r, v).to = "none"
  /\ Middle(m, r, v).to # "none" => Middle(m2, r, v) = Middle(m, r, v)

-----------------------------------------------------------------------------
(* Walks, over any memory.                                                 *)

\* A walk that has reached table a.
At(m, n, a) == [mem |-> m, used |-> n, at |-> a]

LEMMA EntryFacts ==
  /\ None \in Entry /\ None.to = "none"
  /\ \A t \in Frame : TableAt(t) \in Entry /\ TableAt(t).to = "table" /\ TableAt(t).at = t
  /\ \A p \in Target : PageAt(p) \in Entry /\ PageAt(p).to = "page" /\ PageAt(p).at = p
  /\ Empty \in [Idx -> Entry] /\ \A i \in Idx : Empty[i] = None
  BY DEF None, TableAt, PageAt, Empty, Entry

\* Memory m with an empty table as table n + 1, in entry i of table a.
WithTable(m, n, a, i) == [[m EXCEPT ![n + 1] = Empty] EXCEPT ![a][i] = TableAt(n + 1)]

LEMMA DescendIs ==
  ASSUME NEW m, NEW n, NEW a, NEW i
  PROVE  /\ m[a][i].to = "none" =>
              Descend(At(m, n, a), i) =
                At(WithTable(m, n, a, i), n + 1, n + 1)
         /\ m[a][i].to # "none" => Descend(At(m, n, a), i) = At(m, n, m[a][i].at)
  BY DEF Descend, Hook, NewPage, At, WithTable

LEMMA SetLeafIs ==
  ASSUME NEW m, NEW n, NEW a, NEW i, NEW p
  PROVE  SetLeaf(At(m, n, a), i, p) =
           At(IF m[a][i].to = "none" THEN [m EXCEPT ![a][i] = PageAt(p)] ELSE m, n, a)
  BY DEF SetLeaf, At

LEMMA ShapeFacts ==
  ASSUME NEW m, NEW n, NEW P, Shape(m, n, P)
  PROVE  /\ n \in Nat /\ n <= MaxTables /\ \A t \in 1..n : t \in Frame
         /\ \A t \in Frame, k \in Idx : m[t][k] \in Entry /\ m[t][k].to \in {"none", "table", "page"}
  <1>1. n \in Nat /\ n <= MaxTables /\ \A t \in 1..n : t \in Frame
    BY VmeAssumption DEF Shape, Frame
  <1>2. \A t \in Frame, k \in Idx : m[t][k] \in Entry
    BY DEF Shape, Memory
  <1>3. \A e \in Entry : e.to \in {"none", "table", "page"}
    BY DEF Entry
  <1> QED
    BY <1>1, <1>2, <1>3

\* What hangs in entry k of table t, level by level.
EntryFits(m, n, P, t, k) ==
  LET e == m[t][k]
  IN  /\ e \in Entry /\ e.to \in {"none", "table", "page"}
      /\ P[t].level = 2 /\ e.to = "page" => <<k>> \in HugeVa
      /\ P[t].level = 1 /\ e.to = "page" => <<P[t].i, k>> \in HugeVa
      /\ P[t].level = 2 /\ e.to = "table" =>
           /\ e.at \in 1..n /\ P[e.at].level = 1 /\ P[e.at].i = k
           /\ P[e.at].of \in {P[t].of, Kas}
      /\ P[t].level = 1 /\ e.to = "table" =>
           /\ e.at \in 1..n /\ P[e.at].level = 0 /\ P[e.at].i = P[t].i
           /\ P[e.at].j = k /\ P[e.at].of = P[t].of
      /\ P[t].level = 0 => e.to # "table"

LEMMA Child ==
  ASSUME NEW m, NEW n, NEW P, Shape(m, n, P), NEW t \in 1..n, NEW k \in Idx
  PROVE  EntryFits(m, n, P, t, k)
  <1>1. m[t][k] \in Entry /\ m[t][k].to \in {"none", "table", "page"}
    BY ShapeFacts
  <1>2. /\ m[t][k].to = "table" => m[t][k].at \in 1..n /\ IsChild(P[m[t][k].at], P[t], k)
        /\ m[t][k].to = "page" => IsPage(P[t], k)
    BY DEF Shape
  <1> QED
    BY <1>1, <1>2 DEF IsChild, IsPage, EntryFits

\* The way of page v down from root r.
OnWay(m, n, P, r, v) ==
  LET e2 == m[r][v[1]]
      e1 == m[e2.at][v[2]]
      e0 == m[e1.at][v[3]]
  IN  /\ v = <<v[1], v[2], v[3]>> /\ v[1] \in Idx /\ v[2] \in Idx /\ v[3] \in Idx
      /\ e2 \in Entry /\ e2.to \in {"none", "table", "page"}
      /\ e2.to = "page" => <<v[1]>> \in HugeVa
      /\ e2.to = "table" => /\ e2.at \in 1..n /\ P[e2.at].level = 1 /\ P[e2.at].i = v[1]
                            /\ P[e2.at].of \in {P[r].of, Kas}
                            /\ e1 \in Entry /\ e1.to \in {"none", "table", "page"}
                            /\ e1.to = "page" => <<v[1], v[2]>> \in HugeVa
      /\ e2.to = "table" /\ e1.to = "table" =>
           /\ e1.at \in 1..n /\ P[e1.at].level = 0 /\ P[e1.at].i = v[1]
           /\ P[e1.at].j = v[2] /\ P[e1.at].of = P[e2.at].of
           /\ e0 \in Entry /\ e0.to \in {"none", "page"}

LEMMA WayDown ==
  ASSUME NEW m, NEW n, NEW P, Shape(m, n, P),
         NEW r \in 1..n, P[r].level = 2, NEW v \in Vpn
  PROVE  OnWay(m, n, P, r, v)
  <1> DEFINE e2 == m[r][v[1]]
             e1 == m[e2.at][v[2]]
             e0 == m[e1.at][v[3]]
  <1>1. v = <<v[1], v[2], v[3]>> /\ v[1] \in Idx /\ v[2] \in Idx /\ v[3] \in Idx
    BY DEF Vpn
  <1>2. EntryFits(m, n, P, r, v[1])
    BY <1>1, Child
  <1>3. e2.to = "table" => EntryFits(m, n, P, e2.at, v[2])
    <2> SUFFICES ASSUME e2.to = "table"
                 PROVE  EntryFits(m, n, P, e2.at, v[2])
      OBVIOUS
    <2>1. e2.at \in 1..n
      BY <1>2 DEF EntryFits
    <2> QED
      BY <1>1, <2>1, Child
  <1>4. e2.to = "table" /\ e1.to = "table" => EntryFits(m, n, P, e1.at, v[3])
    <2> SUFFICES ASSUME e2.to = "table", e1.to = "table"
                 PROVE  EntryFits(m, n, P, e1.at, v[3])
      BY Zenon
    <2>1. e2.at \in 1..n /\ P[e2.at].level = 1
      BY <1>2 DEF EntryFits
    <2>2. e1.at \in 1..n
      BY <1>3, <2>1, Zenon DEF EntryFits
    <2> QED
      BY <1>1, <2>2, Child, Zenon
  <1>5. /\ e2 \in Entry /\ e2.to \in {"none", "table", "page"}
        /\ e2.to = "page" => <<v[1]>> \in HugeVa
        /\ e2.to = "table" => /\ e2.at \in 1..n /\ P[e2.at].level = 1 /\ P[e2.at].i = v[1]
                              /\ P[e2.at].of \in {P[r].of, Kas}
    BY <1>2 DEF EntryFits
  <1>6. e2.to = "table" => /\ e1 \in Entry /\ e1.to \in {"none", "table", "page"}
                           /\ e1.to = "page" => <<v[1], v[2]>> \in HugeVa
    BY <1>3, <1>5, Zenon DEF EntryFits
  <1>7. e2.to = "table" /\ e1.to = "table" =>
          /\ e1.at \in 1..n /\ P[e1.at].level = 0 /\ P[e1.at].i = v[1]
          /\ P[e1.at].j = v[2] /\ P[e1.at].of = P[e2.at].of
    BY <1>3, <1>5, Zenon DEF EntryFits
  <1>8. e2.to = "table" /\ e1.to = "table" => e0 \in Entry /\ e0.to \in {"none", "page"}
    <2> SUFFICES ASSUME e2.to = "table", e1.to = "table"
                 PROVE  e0 \in Entry /\ e0.to \in {"none", "page"}
      BY Zenon
    <2> QED
      BY <1>4, <1>7, Zenon DEF EntryFits
  <1> QED
    BY <1>1, <1>5, <1>6, <1>7, <1>8, Zenon DEF OnWay

-----------------------------------------------------------------------------
(* One level down.                                                         *)

\* A table more, at most, and the old ones in their places; an entry changes only if it
\* was empty, and only entry i of table a.
Grows(m, n, P, m2, n2, Q, a, i) ==
  /\ Shape(m2, n2, Q)
  /\ n2 \in {n, n + 1}
  /\ \A t \in 1..n : Q[t] = P[t]
  /\ \A t \in 1..n, k \in Idx :
       m2[t][k] # m[t][k] => t = a /\ k = i /\ m[t][k].to = "none"

\* The walk finds the next table, or makes it; either way every page is found as before.
LEMMA MakesTable ==
  ASSUME NEW m, NEW n, NEW P, Shape(m, n, P), n < MaxTables,
         NEW a \in 1..n, P[a].level \in {1, 2}, NEW i \in Idx, m[a][i].to = "none"
  PROVE  LET m2 == WithTable(m, n, a, i)
         IN  \E Q : /\ Grows(m, n, P, m2, n + 1, Q, a, i)
                    /\ m2[a][i] = TableAt(n + 1) /\ Q[n + 1].of = P[a].of
                    /\ \A k \in Idx : m2[n + 1][k].to = "none"
                    /\ \A r \in 1..n, v \in Vpn :
                         P[r].level = 2 => Find(m2, r, v) = Find(m, r, v)
  <1> DEFINE m2 == WithTable(m, n, a, i)
             c == IF P[a].level = 2 THEN Place(1, P[a].of, i, i)
                                    ELSE Place(0, P[a].of, P[a].i, i)
             Q == [t \in Frame |-> IF t = n + 1 THEN c ELSE P[t]]
  <1>1. /\ n \in Nat /\ n <= MaxTables /\ n + 1 \in Frame /\ \A t \in 1..n : t \in Frame
        /\ n + 1 \notin 1..n /\ a \in Frame /\ a # n + 1
        /\ 1..(n + 1) = (1..n) \cup {n + 1}
    <2>1. n \in Nat /\ n <= MaxTables /\ \A t \in 1..n : t \in Frame
      BY ShapeFacts
    <2> QED
      BY <2>1, VmeAssumption DEF Frame
  <1>2. m \in Memory /\ \A t \in Frame, k \in Idx : m[t][k] \in Entry
    BY DEF Shape, Memory
  <1>3. TableAt(n + 1) \in Entry /\ TableAt(n + 1).to = "table" /\ TableAt(n + 1).at = n + 1
    BY <1>1, EntryFacts
  <1>4. /\ m2 \in Memory
        /\ m2[a][i] = TableAt(n + 1)
        /\ \A k \in Idx : m2[n + 1][k] = None
        /\ \A t \in Frame, k \in Idx : t # n + 1 /\ (t # a \/ k # i) => m2[t][k] = m[t][k]
    BY <1>1, <1>2, <1>3, EntryFacts DEF Memory, WithTable
  <1>5. /\ \A t \in 1..n : Q[t] = P[t]
        /\ Q[n + 1] = c /\ c.of = P[a].of /\ c.level \in {0, 1} /\ IsChild(c, P[a], i)
    BY <1>1 DEF Place, IsChild
  <1>6. Shape(m2, n + 1, Q)
    <2>1. n + 1 \in 0..MaxTables
      BY <1>1, VmeAssumption
    <2>2. \A t \in Frame, k \in Idx : m2[t][k].to = "page" => m2[t][k] = m[t][k]
      BY <1>3, <1>4, EntryFacts
    <2>3. \A t \in Frame, k \in Idx : m2[t][k].to = "page" => m2[t][k].at \in Target
      BY <2>2 DEF Shape
    <2>4. \A t \in Frame, k \in Idx : t > n + 1 => m2[t][k].to = "page"
      <3> SUFFICES ASSUME NEW t \in Frame, NEW k \in Idx, t > n + 1
                   PROVE  m2[t][k].to = "page"
        OBVIOUS
      <3>1. t # n + 1 /\ t # a /\ t > n
        BY <1>1 DEF Frame
      <3>2. m2[t][k] = m[t][k]
        BY <1>4, <3>1
      <3>3. m[t][k].to = "page"
        BY <3>1 DEF Shape
      <3> QED
        BY <3>2, <3>3
    <2>5. \A t \in 1..(n + 1) : Q[t].level \in {0, 1, 2} /\ Q[t].of \in Space
      BY <1>1, <1>5 DEF Shape
    <2>6. ASSUME NEW t \in 1..(n + 1), NEW k \in Idx
          PROVE  /\ m2[t][k].to = "table" => /\ m2[t][k].at \in 1..(n + 1)
                                             /\ IsChild(Q[m2[t][k].at], Q[t], k)
                 /\ m2[t][k].to = "page" => IsPage(Q[t], k)
      <3>1. CASE t = n + 1
        BY <1>4, <3>1, EntryFacts
      <3>2. CASE t = a /\ k = i
        BY <1>1, <1>3, <1>4, <1>5, <3>2
      <3>3. CASE t # n + 1 /\ (t # a \/ k # i)
        <4>1. t \in 1..n /\ m2[t][k] = m[t][k] /\ Q[t] = P[t]
          BY <1>1, <1>4, <1>5, <3>3
        <4>2. m[t][k].to = "table" => m[t][k].at \in 1..n /\ IsChild(P[m[t][k].at], P[t], k)
          BY <4>1 DEF Shape
        <4>3. m[t][k].to = "page" => IsPage(P[t], k)
          BY <4>1 DEF Shape
        <4> QED
          BY <1>1, <1>5, <4>1, <4>2, <4>3
      <3> QED
        BY <3>1, <3>2, <3>3
    <2> HIDE DEF m2, Q, c
    <2> QED
      BY <1>4, <2>1, <2>3, <2>4, <2>5, <2>6 DEF Shape
  <1>7. Grows(m, n, P, m2, n + 1, Q, a, i)
    <2> HIDE DEF m2, Q, c
    <2> QED
      BY <1>1, <1>4, <1>5, <1>6 DEF Grows
  <1>8. ASSUME NEW r \in 1..n, NEW v \in Vpn, P[r].level = 2
        PROVE  Find(m2, r, v) = Find(m, r, v)
    <2> DEFINE e2 == m[r][v[1]]
               e1 == m[e2.at][v[2]]
    <2>1. /\ v[1] \in Idx /\ v[2] \in Idx /\ v[3] \in Idx
          /\ e2.to \in {"none", "table", "page"}
          /\ e2.to = "table" => /\ e2.at \in 1..n /\ P[e2.at].level = 1
                                /\ e1.to \in {"none", "table", "page"}
          /\ e2.to = "table" /\ e1.to = "table" => e1.at \in 1..n /\ P[e1.at].level = 0
      <3>1. OnWay(m, n, P, r, v)
        BY <1>8, WayDown
      <3> QED
        BY <3>1, Zenon DEF OnWay
    <2> HIDE DEF m2, Q, c
    <2>2. CASE r = a /\ v[1] = i
      <3>1. e2.to = "none" /\ m2[r][v[1]].to = "table" /\ m2[r][v[1]].at = n + 1
        BY <1>3, <1>4, <2>2
      <3>2. m2[n + 1][v[2]].to = "none"
        BY <1>4, <2>1, EntryFacts, Zenon
      <3> QED
        BY <3>1, <3>2 DEF Find
    <2>3. CASE ~(r = a /\ v[1] = i) /\ e2.to # "table"
      <3>1. m2[r][v[1]] = e2
        BY <1>1, <1>4, <2>1, <2>3, Zenon
      <3>2. e2.to \in {"none", "page"}
        BY <2>1, <2>3, Zenon
      <3> QED
        BY <3>1, <3>2, Zenon DEF Find
    <2>4. CASE ~(r = a /\ v[1] = i) /\ e2.to = "table"
      <3>1. m2[r][v[1]] = e2 /\ e2.at \in 1..n /\ P[e2.at].level = 1
        BY <1>1, <1>4, <2>1, <2>4, Zenon
      <3>2. CASE e2.at = a /\ v[2] = i
        BY <1>1, <1>3, <1>4, <2>1, <2>4, <3>1, <3>2, EntryFacts DEF Find
      <3>3. CASE ~(e2.at = a /\ v[2] = i)
        <4>1. m2[e2.at][v[2]] = e1
          BY <1>1, <1>4, <2>1, <3>1, <3>3, Zenon
        <4>2. e1.to = "table" => m2[e1.at][v[3]] = m[e1.at][v[3]]
          <5> SUFFICES ASSUME e1.to = "table"
                       PROVE  m2[e1.at][v[3]] = m[e1.at][v[3]]
            BY Zenon
          <5>1. e1.at \in 1..n /\ P[e1.at].level = 0
            BY <2>1, <2>4, Zenon
          <5>2. \A x \in 1..n : P[x].level = 0 => x \in Frame /\ x # n + 1 /\ x # a
            BY <1>1
          <5>3. e1.at \in Frame /\ e1.at # n + 1 /\ e1.at # a
            BY <5>1, <5>2, Zenon
          <5> QED
            BY <1>4, <2>1, <5>3, Zenon
        <4>3. e1.to \in {"none", "table", "page"}
          BY <2>1, <2>4, Zenon
        <4> QED
          BY <2>4, <3>1, <4>1, <4>2, <4>3, Zenon DEF Find
      <3> QED
        BY <3>2, <3>3
    <2> QED
      BY <2>2, <2>3, <2>4
  <1> SUFFICES \E q : /\ Grows(m, n, P, m2, n + 1, q, a, i)
                      /\ m2[a][i] = TableAt(n + 1) /\ q[n + 1].of = P[a].of
                      /\ \A k \in Idx : m2[n + 1][k].to = "none"
                      /\ \A r \in 1..n, v \in Vpn :
                           P[r].level = 2 => Find(m2, r, v) = Find(m, r, v)
    OBVIOUS
  <1> HIDE DEF m2, Q, c
  <1> QED
    BY <1>4, <1>5, <1>7, <1>8, EntryFacts

\* Through entry i of table a the walk gets from m, n to table b in m2, n2.
Below(m, n, P, a, i, m2, n2, Q, b) ==
  /\ Grows(m, n, P, m2, n2, Q, a, i)
  /\ b \in 1..n2 /\ m2[a][i].to = "table" /\ m2[a][i].at = b
  /\ m2[a][i] # m[a][i] => Q[b].of = P[a].of
  /\ m[a][i].to = "none" => \A k \in Idx : m2[b][k].to = "none"
  /\ P[a].level = 2 => Q[b].level = 1 /\ Q[b].i = i
  /\ P[a].level = 1 => Q[b].level = 0 /\ Q[b].i = P[a].i /\ Q[b].j = i /\ Q[b].of = P[a].of
  /\ \A r \in 1..n, v \in Vpn : P[r].level = 2 => Find(m2, r, v) = Find(m, r, v)

LEMMA Descending ==
  ASSUME NEW m, NEW n, NEW P, Shape(m, n, P), n < MaxTables,
         NEW a \in 1..n, P[a].level \in {1, 2}, NEW i \in Idx, m[a][i].to # "page"
  PROVE  \E m2, n2, Q, b : /\ Descend(At(m, n, a), i) = At(m2, n2, b)
                           /\ Below(m, n, P, a, i, m2, n2, Q, b)
  <1>1. CASE m[a][i].to = "none"
    <2> DEFINE m2 == WithTable(m, n, a, i)
    <2>1. PICK Q : /\ Grows(m, n, P, m2, n + 1, Q, a, i)
                   /\ m2[a][i] = TableAt(n + 1) /\ Q[n + 1].of = P[a].of
                   /\ \A k \in Idx : m2[n + 1][k].to = "none"
                   /\ \A r \in 1..n, v \in Vpn : P[r].level = 2 => Find(m2, r, v) = Find(m, r, v)
      BY <1>1, MakesTable
    <2>2. Descend(At(m, n, a), i) = At(m2, n + 1, n + 1)
      BY <1>1, DescendIs
    <2> HIDE DEF m2
    <2>3. n \in Nat /\ n + 1 \in Frame /\ a \in 1..(n + 1) /\ n + 1 \in 1..(n + 1)
      BY ShapeFacts, VmeAssumption DEF Frame
    <2>4. m2[a][i].to = "table" /\ m2[a][i].at = n + 1
      BY <2>1, <2>3, EntryFacts
    <2>5. EntryFits(m2, n + 1, Q, a, i) /\ Q[a] = P[a]
      BY <2>1, <2>3, Child DEF Grows
    <2> QED
      BY <2>1, <2>2, <2>3, <2>4, <2>5 DEF Below, EntryFits
  <1>2. CASE m[a][i].to # "none"
    <2>1. EntryFits(m, n, P, a, i) /\ m[a][i].to = "table"
      BY <1>2, Child DEF EntryFits
    <2>2. Descend(At(m, n, a), i) = At(m, n, m[a][i].at)
      BY <1>2, DescendIs
    <2>3. Grows(m, n, P, m, n, P, a, i)
      BY DEF Grows
    <2>4. Below(m, n, P, a, i, m, n, P, m[a][i].at)
      BY <2>1, <2>3 DEF Below, EntryFits
    <2> QED
      BY <2>2, <2>4
  <1> QED
    BY <1>1, <1>2

-----------------------------------------------------------------------------
(* The end of a walk.                                                      *)

\* Memory m with page p in entry k of table a, unless the entry is in use.
Put(m, a, k, p) == IF m[a][k].to = "none" THEN [m EXCEPT ![a][k] = PageAt(p)] ELSE m

LEMMA PutEntries ==
  ASSUME NEW m, NEW n, NEW P, Shape(m, n, P), NEW a \in 1..n, NEW k \in Idx, NEW p \in Target
  PROVE  /\ Put(m, a, k, p) \in Memory
         /\ m[a][k].to = "none" => /\ Put(m, a, k, p)[a][k].to = "page"
                                   /\ Put(m, a, k, p)[a][k].at = p
         /\ m[a][k].to # "none" => Put(m, a, k, p) = m
         /\ \A t \in Frame, j \in Idx :
              t # a \/ j # k \/ m[a][k].to # "none" => Put(m, a, k, p)[t][j] = m[t][j]
  <1>1. m \in Memory /\ a \in Frame
    <2>1. a \in Frame
      BY ShapeFacts
    <2> QED
      BY <2>1 DEF Shape
  <1>2. PageAt(p) \in Entry /\ PageAt(p).to = "page" /\ PageAt(p).at = p
    BY EntryFacts
  <1> QED
    BY <1>1, <1>2 DEF Put, Memory

LEMMA PutShape ==
  ASSUME NEW m, NEW n, NEW P, Shape(m, n, P), NEW a \in 1..n, NEW k \in Idx, NEW p \in Target,
         IsPage(P[a], k)
  PROVE  Grows(m, n, P, Put(m, a, k, p), n, P, a, k)
  <1> DEFINE m2 == Put(m, a, k, p)
  <1>1. /\ m2 \in Memory
        /\ m[a][k].to = "none" => m2[a][k].to = "page" /\ m2[a][k].at = p
        /\ m[a][k].to # "none" => m2 = m
        /\ \A t \in Frame, j \in Idx : t # a \/ j # k \/ m[a][k].to # "none" => m2[t][j] = m[t][j]
    BY PutEntries
  <1>2. n \in Nat /\ a \in Frame /\ a <= n /\ \A t \in 1..n : t \in Frame
    BY ShapeFacts
  <1> HIDE DEF m2
  <1>3. CASE m[a][k].to # "none"
    BY <1>1, <1>3 DEF Grows, m2
  <1>4. CASE m[a][k].to = "none"
    <2>1. \A t \in Frame, j \in Idx : m2[t][j].to = "page" => m2[t][j].at \in Target
      BY <1>1, <1>4 DEF Shape
    <2>2. ASSUME NEW t \in Frame, NEW j \in Idx, t > n
          PROVE  m2[t][j].to = "page"
      <3>1. t # a
        BY <1>2, <2>2 DEF Frame
      <3>2. m2[t][j] = m[t][j]
        BY <1>1, <3>1
      <3> QED
        BY <2>2, <3>2 DEF Shape
    <2>3. ASSUME NEW t \in 1..n, NEW j \in Idx
          PROVE  /\ m2[t][j].to = "table" => m2[t][j].at \in 1..n /\ IsChild(P[m2[t][j].at], P[t], j)
                 /\ m2[t][j].to = "page" => IsPage(P[t], j)
      <3>1. CASE t = a /\ j = k
        BY <1>1, <1>4, <3>1
      <3>2. CASE ~(t = a /\ j = k)
        <4>1. m2[t][j] = m[t][j]
          BY <1>1, <1>2, <3>2
        <4> QED
          BY <4>1 DEF Shape
      <3> QED
        BY <3>1, <3>2
    <2>4. Shape(m2, n, P)
      BY <1>1, <2>1, <2>2, <2>3 DEF Shape
    <2>5. \A t \in 1..n, j \in Idx : m2[t][j] # m[t][j] => t = a /\ j = k /\ m[t][j].to = "none"
      BY <1>1, <1>2, <1>4
    <2> QED
      BY <2>4, <2>5 DEF Grows, m2
  <1> QED
    BY <1>3, <1>4

\* The way of page v down from root r ends at entry k of table a.
EndsAt(m, r, v, a, k) == /\ m[r][v[1]].to = "table"
                         /\ m[m[r][v[1]].at][v[2]].to = "table"
                         /\ m[m[r][v[1]].at][v[2]].at = a
                         /\ v[3] = k

\* A small page shows up at the end of its own way alone.
LEMMA PutFinds ==
  ASSUME NEW m, NEW n, NEW P, Shape(m, n, P), NEW a \in 1..n, NEW k \in Idx, NEW p \in Target,
         P[a].level = 0, NEW r \in 1..n, P[r].level = 2, NEW v \in Vpn
  PROVE  /\ EndsAt(m, r, v, a, k) /\ Find(m, r, v) = Fault => Find(Put(m, a, k, p), r, v) = p
         /\ Find(Put(m, a, k, p), r, v) # Find(m, r, v) =>
              /\ EndsAt(m, r, v, a, k) /\ Find(m, r, v) = Fault
              /\ P[m[r][v[1]].at].of = P[a].of
              /\ v = <<P[a].i, P[a].j, k>>
  <1> DEFINE m2 == Put(m, a, k, p)
             e2 == m[r][v[1]]
             e1 == m[e2.at][v[2]]
             e0 == m[e1.at][v[3]]
  <1>1. /\ m[a][k].to = "none" => m2[a][k].to = "page" /\ m2[a][k].at = p
        /\ m[a][k].to # "none" => m2 = m
        /\ \A t \in Frame, j \in Idx : t # a \/ j # k \/ m[a][k].to # "none" => m2[t][j] = m[t][j]
    BY PutEntries
  <1> HIDE DEF m2
  <1>2. OnWay(m, n, P, r, v)
    BY WayDown
  <1>3. \A t \in 1..n : t \in Frame /\ (P[t].level # 0 => t # a)
    BY ShapeFacts
  <1>4. v[1] \in Idx /\ m2[r][v[1]] = e2 /\ e2.to \in {"none", "table", "page"}
    <2>1. v[1] \in Idx /\ e2.to \in {"none", "table", "page"}
      BY <1>2, Zenon DEF OnWay
    <2>2. r # a /\ r \in Frame
      BY <1>3
    <2> QED
      BY <1>1, <2>1, <2>2
  <1>5. e2.to = "table" => m2[e2.at][v[2]] = e1 /\ e1.to \in {"none", "table", "page"}
    <2> SUFFICES ASSUME e2.to = "table"
                 PROVE  m2[e2.at][v[2]] = e1 /\ e1.to \in {"none", "table", "page"}
      OBVIOUS
    <2>1. e2.at \in 1..n /\ P[e2.at].level = 1 /\ v[2] \in Idx
      BY <1>2, Zenon DEF OnWay
    <2>2. e1.to \in {"none", "table", "page"}
      BY <1>2, Zenon DEF OnWay
    <2>3. e2.at # a /\ e2.at \in Frame
      BY <1>3, <2>1
    <2> QED
      BY <1>1, <2>1, <2>2, <2>3
  <1>6. CASE ~EndsAt(m, r, v, a, k)
    <2>1. e2.to = "table" /\ e1.to = "table" => m2[e1.at][v[3]] = e0
      <3> SUFFICES ASSUME e2.to = "table", e1.to = "table"
                   PROVE  m2[e1.at][v[3]] = e0
        BY Zenon
      <3>1. e1.at \in 1..n /\ v[3] \in Idx
        BY <1>2, Zenon DEF OnWay
      <3>2. e1.at # a \/ v[3] # k
        BY <1>6 DEF EndsAt
      <3> QED
        BY <1>1, <1>3, <3>1, <3>2, Zenon
    <2>2. Find(m2, r, v) = Find(m, r, v)
      BY <1>4, <1>5, <2>1, ZenonT(40) DEF Find
    <2> QED
      BY <1>6, <2>2 DEF m2
  <1>7. CASE EndsAt(m, r, v, a, k)
    <2>1. e2.to = "table" /\ e1.to = "table" /\ e1.at = a /\ v[3] = k
      BY <1>7 DEF EndsAt
    <2>2. /\ v = <<P[a].i, P[a].j, k>> /\ P[e2.at].of = P[a].of
          /\ e0 = m[a][k] /\ e0.to \in {"none", "page"}
      BY <1>2, <2>1 DEF OnWay
    <2>3. Find(m, r, v) = IF e0.to = "page" THEN e0.at ELSE Fault
      BY <2>1 DEF Find
    <2>4. Find(m2, r, v) = IF m2[a][k].to = "page" THEN m2[a][k].at ELSE Fault
      BY <1>4, <1>5, <2>1, Zenon DEF Find
    <2>5. CASE e0.to = "none"
      <3>1. Find(m, r, v) = Fault /\ Find(m2, r, v) = p
        BY <1>1, <2>2, <2>3, <2>4, <2>5, Zenon
      <3> QED
        BY <1>7, <2>2, <3>1, Zenon DEF m2
    <2>6. CASE e0.to = "page"
      <3>1. e0.at # Fault
        BY <1>3, <2>1, <2>2, <2>6, VmeAssumption DEF Shape, Target
      <3>2. m2 = m
        BY <1>1, <2>2, <2>6, Zenon
      <3> QED
        BY <2>3, <2>6, <3>1, <3>2, Zenon DEF m2
    <2> QED
      BY <2>2, <2>5, <2>6, Zenon
  <1> QED
    BY <1>6, <1>7

\* A huge page is on no small page's way.
LEMMA PutHuge ==
  ASSUME NEW m, NEW n, NEW P, Shape(m, n, P), NEW a \in 1..n, NEW k \in Idx, NEW p \in Target,
         P[a].level \in {1, 2}, IsPage(P[a], k),
         NEW r \in 1..n, P[r].level = 2, NEW v \in Vpn,
         <<v[1]>> \notin HugeVa, <<v[1], v[2]>> \notin HugeVa
  PROVE  Find(Put(m, a, k, p), r, v) = Find(m, r, v)
  <1> DEFINE m2 == Put(m, a, k, p)
             e2 == m[r][v[1]]
             e1 == m[e2.at][v[2]]
             e0 == m[e1.at][v[3]]
  <1>1. \A t \in Frame, j \in Idx : t # a \/ j # k => m2[t][j] = m[t][j]
    BY PutEntries
  <1> HIDE DEF m2
  <1>2. OnWay(m, n, P, r, v)
    BY WayDown
  <1>3. \A t \in 1..n : t \in Frame /\ (P[t].level = 0 => t # a)
    BY ShapeFacts
  <1>4. m2[r][v[1]] = e2 /\ e2.to \in {"none", "table", "page"}
    <2>1. r # a \/ v[1] # k
      BY DEF IsPage
    <2> QED
      BY <1>1, <1>2, <1>3, <2>1, Zenon DEF OnWay
  <1>5. e2.to = "table" => m2[e2.at][v[2]] = e1 /\ e1.to \in {"none", "table", "page"}
    <2> SUFFICES ASSUME e2.to = "table"
                 PROVE  m2[e2.at][v[2]] = e1 /\ e1.to \in {"none", "table", "page"}
      OBVIOUS
    <2>1. e2.at \in 1..n /\ P[e2.at].level = 1 /\ P[e2.at].i = v[1] /\ v[2] \in Idx
      BY <1>2, Zenon DEF OnWay
    <2>2. e2.at # a \/ v[2] # k
      BY <2>1 DEF IsPage
    <2>3. m2[e2.at][v[2]] = e1
      BY <1>1, <1>3, <2>1, <2>2
    <2> QED
      BY <1>2, <2>3, Zenon DEF OnWay
  <1>6. e2.to = "table" /\ e1.to = "table" => m2[e1.at][v[3]] = e0
    <2> SUFFICES ASSUME e2.to = "table", e1.to = "table"
                 PROVE  m2[e1.at][v[3]] = e0
      BY Zenon
    <2>1. e1.at \in 1..n /\ P[e1.at].level = 0 /\ v[3] \in Idx
      BY <1>2, Zenon DEF OnWay
    <2> QED
      BY <1>1, <1>3, <2>1, Zenon
  <1>7. Find(m2, r, v) = Find(m, r, v)
    BY <1>4, <1>5, <1>6, Zenon DEF Find
  <1> QED
    BY <1>7 DEF m2

-----------------------------------------------------------------------------
(* What a walk does to the middle entries.                                 *)

LEMMA MiddleFinds ==
  ASSUME NEW m, NEW n, NEW P, Shape(m, n, P), NEW r \in 1..n, P[r].level = 2, NEW v \in Vpn
  PROVE  /\ Middle(m, r, v).to = "none" => Find(m, r, v) = Fault
         /\ Middle(m, r, v).to = "page" => Find(m, r, v) = Middle(m, r, v).at
  <1> DEFINE e2 == m[r][v[1]]
             e1 == m[e2.at][v[2]]
  <1>1. OnWay(m, n, P, r, v)
    BY WayDown
  <1>2. CASE e2.to = "table"
    <2>1. Middle(m, r, v) = e1
      BY <1>2 DEF Middle
    <2> QED
      BY <1>2, <2>1, Zenon DEF Find
  <1>3. CASE e2.to # "table"
    <2>1. Middle(m, r, v) = e2
      BY <1>3 DEF Middle
    <2> QED
      BY <1>3, <2>1, Zenon DEF Find
  <1> QED
    BY <1>2, <1>3

\* Of the tables 1 to n only entry i of table a may change.
OnlyAt(m, n, m2, a, i) == \A t \in 1..n, k \in Idx : m2[t][k] # m[t][k] => t = a /\ k = i

\* A change below root r leaves the middle entry of a page whose way it does not touch.
LEMMA KeepsAway ==
  ASSUME NEW m, NEW n, NEW P, Shape(m, n, P), NEW r \in 1..n, P[r].level = 2, NEW v \in Vpn,
         NEW m2, NEW a \in 1..n, NEW i \in Idx,
         OnlyAt(m, n, m2, a, i),
         ~(P[a].level = 2 /\ v[1] = i), ~(P[a].level = 1 /\ P[a].i = v[1] /\ v[2] = i)
  PROVE  Middle(m2, r, v) = Middle(m, r, v)
  <1> DEFINE e2 == m[r][v[1]]
  <1>1. OnWay(m, n, P, r, v)
    BY WayDown
  <1>2. v[1] \in Idx /\ v[2] \in Idx
    BY <1>1, Zenon DEF OnWay
  <1>3. m2[r][v[1]] = e2
    BY <1>2 DEF OnlyAt
  <1>4. CASE e2.to = "table"
    <2>1. e2.at \in 1..n /\ P[e2.at].level = 1 /\ P[e2.at].i = v[1]
      BY <1>1, <1>4, Zenon DEF OnWay
    <2>2. m2[e2.at][v[2]] = m[e2.at][v[2]]
      BY <1>2, <2>1 DEF OnlyAt
    <2> QED
      BY <1>3, <1>4, <2>2, Zenon DEF Middle
  <1>5. CASE e2.to # "table"
    BY <1>3, <1>5, Zenon DEF Middle
  <1> QED
    BY <1>4, <1>5

\* A table hooked into a root is empty.
LEMMA KeepsBelow ==
  ASSUME NEW m, NEW n, NEW P, Shape(m, n, P), NEW r \in 1..n, P[r].level = 2, NEW v \in Vpn,
         NEW i \in Idx, NEW m2, NEW n2, NEW Q, NEW b, Below(m, n, P, r, i, m2, n2, Q, b)
  PROVE  KeepsMiddle(m, r, v, m2)
  <1>1. /\ \A t \in 1..n, k \in Idx :
             m2[t][k] # m[t][k] => t = r /\ k = i /\ m[t][k].to = "none"
        /\ m2[r][i].to = "table" /\ m2[r][i].at = b
        /\ m[r][i].to = "none" => \A k \in Idx : m2[b][k].to = "none"
    BY DEF Below, Grows
  <1>2. v[1] \in Idx /\ v[2] \in Idx
    BY DEF Vpn
  <1>3. CASE m[r][i].to = "none" /\ v[1] = i
    <2>1. Middle(m, r, v).to = "none"
      BY <1>3 DEF Middle
    <2>2. Middle(m2, r, v).to = "none"
      BY <1>1, <1>2, <1>3 DEF Middle
    <2> QED
      BY <2>1, <2>2 DEF KeepsMiddle
  <1>4. CASE m[r][i].to # "none"
    <2>1. \A t \in 1..n, k \in Idx : m2[t][k] = m[t][k]
      BY <1>1, <1>4
    <2>2. OnWay(m, n, P, r, v)
      BY WayDown
    <2>3. m[r][v[1]].to = "table" => m[r][v[1]].at \in 1..n
      BY <2>2, Zenon DEF OnWay
    <2>4. m2[r][v[1]] = m[r][v[1]]
      BY <1>2, <2>1
    <2>5. Middle(m2, r, v) = Middle(m, r, v)
      BY <1>2, <2>1, <2>3, <2>4 DEF Middle
    <2> QED
      BY <2>5 DEF KeepsMiddle
  <1>5. CASE v[1] # i
    <2>1. OnlyAt(m, n, m2, r, i)
      BY <1>1 DEF OnlyAt
    <2>2. Middle(m2, r, v) = Middle(m, r, v)
      BY <1>5, <2>1, KeepsAway
    <2> QED
      BY <2>2 DEF KeepsMiddle
  <1> QED
    BY <1>3, <1>4, <1>5

-----------------------------------------------------------------------------
(* Walks from a root.                                                      *)

\* What any walk from root r leaves, that starts with index i: a root changes in its
\* empty entries alone, and only root r, at index i.
Walked(m, n, P, r, i, m2, n2, Q) ==
  /\ Shape(m2, n2, Q) /\ n <= n2
  /\ \A t \in 1..n : Q[t] = P[t]
  /\ \A x \in 1..n, k \in Idx :
       P[x].level = 2 /\ m2[x][k] # m[x][k] => x = r /\ k = i /\ m[x][k].to = "none"

\* The table a walk has put in a root is that space's own.
OwnTable(m, P, r, i, m2, Q) ==
  m2[r][i] # m[r][i] => m2[r][i].to = "table" /\ Q[m2[r][i].at].of = P[r].of

\* A walk for page v from root r: it is found there, if no page was, and every other page
\* as before; from another root page v can be new only by way of a table of the same space.
Mapped(m, n, P, r, v, p, m2, n2, Q) ==
  /\ Find(m, r, v) = Fault => Find(m2, r, v) = p
  /\ \A x \in 1..n, u \in Vpn :
       P[x].level = 2 /\ Find(m2, x, u) # Find(m, x, u) =>
         /\ u = v /\ Find(m, x, u) = Fault
         /\ m2[x][v[1]].to = "table" /\ m2[r][v[1]].to = "table"
         /\ Q[m2[x][v[1]].at].of = Q[m2[r][v[1]].at].of

\* A walk that passes entry j of the table in entry i of root r leaves the others.
Beside(m, r, i, j, m2) ==
  \A u \in Vpn : ~(u[1] = i /\ u[2] = j) => KeepsMiddle(m, r, u, m2)

LEMMA SmallWalk ==
  ASSUME NEW m, NEW n, NEW P, Shape(m, n, P), n + 2 <= MaxTables,
         NEW r \in 1..n, P[r].level = 2, NEW v \in Vpn, NEW p \in Target,
         <<v[1]>> \notin HugeVa, <<v[1], v[2]>> \notin HugeVa
  PROVE  \E m2, n2, Q, b :
           /\ SetLeaf(Descend(Descend(At(m, n, r), v[1]), v[2]), v[3], p) = At(m2, n2, b)
           /\ Walked(m, n, P, r, v[1], m2, n2, Q)
           /\ OwnTable(m, P, r, v[1], m2, Q)
           /\ Mapped(m, n, P, r, v, p, m2, n2, Q)
           /\ Beside(m, r, v[1], v[2], m2)
  <1>1. v[1] \in Idx /\ v[2] \in Idx /\ v[3] \in Idx /\ v = <<v[1], v[2], v[3]>>
    BY DEF Vpn
  <1>2. n \in Nat /\ MaxTables \in Nat
    BY ShapeFacts, VmeAssumption
  <1>3. PICK m1, n1, Q1, a : /\ Descend(At(m, n, r), v[1]) = At(m1, n1, a)
                             /\ Below(m, n, P, r, v[1], m1, n1, Q1, a)
    <2>1. m[r][v[1]].to # "page" /\ n < MaxTables
      <3>1. EntryFits(m, n, P, r, v[1])
        BY <1>1, Child
      <3> QED
        BY <1>2, <3>1 DEF EntryFits
    <2> QED
      BY <1>1, <2>1, Descending
  <1>4. /\ Shape(m1, n1, Q1) /\ n1 \in {n, n + 1} /\ \A t \in 1..n : t \in 1..n1 /\ Q1[t] = P[t]
        /\ \A t \in 1..n, k \in Idx : m1[t][k] # m[t][k] => t = r /\ k = v[1] /\ m[t][k].to = "none"
        /\ a \in 1..n1 /\ m1[r][v[1]].to = "table" /\ m1[r][v[1]].at = a
        /\ Q1[a].level = 1 /\ Q1[a].i = v[1]
        /\ m1[r][v[1]] # m[r][v[1]] => Q1[a].of = P[r].of
        /\ \A x \in 1..n, u \in Vpn : P[x].level = 2 => Find(m1, x, u) = Find(m, x, u)
    BY <1>2, <1>3 DEF Below, Grows
  <1>5. PICK m2, n2, Q, b : /\ Descend(At(m1, n1, a), v[2]) = At(m2, n2, b)
                            /\ Below(m1, n1, Q1, a, v[2], m2, n2, Q, b)
    <2>1. m1[a][v[2]].to # "page" /\ n1 < MaxTables
      <3>1. EntryFits(m1, n1, Q1, a, v[2])
        BY <1>1, <1>4, Child
      <3> QED
        BY <1>2, <1>4, <3>1 DEF EntryFits
    <2> QED
      BY <1>1, <1>4, <2>1, Descending
  <1>6. /\ Shape(m2, n2, Q) /\ n2 \in {n1, n1 + 1}
        /\ \A t \in 1..n1 : t \in 1..n2 /\ Q[t] = Q1[t]
        /\ \A t \in 1..n1, k \in Idx : m2[t][k] # m1[t][k] => t = a
        /\ b \in 1..n2 /\ m2[a][v[2]].to = "table" /\ m2[a][v[2]].at = b
        /\ Q[b].level = 0 /\ Q[b].i = v[1] /\ Q[b].j = v[2]
        /\ \A x \in 1..n1, u \in Vpn : Q1[x].level = 2 => Find(m2, x, u) = Find(m1, x, u)
    BY <1>2, <1>4, <1>5 DEF Below, Grows
  <1> DEFINE m3 == Put(m2, b, v[3], p)
  <1>7. SetLeaf(Descend(Descend(At(m, n, r), v[1]), v[2]), v[3], p) = At(m3, n2, b)
    <2>1. SetLeaf(At(m2, n2, b), v[3], p) = At(m3, n2, b)
      BY SetLeafIs DEF Put
    <2> QED
      BY <1>3, <1>5, <2>1
  <1>8. Grows(m2, n2, Q, m3, n2, Q, b, v[3])
    BY <1>1, <1>6, PutShape DEF IsPage
  <1>9. ASSUME NEW x \in 1..n, P[x].level = 2
        PROVE  /\ x \in 1..n1 /\ x \in 1..n2 /\ Q1[x] = P[x] /\ Q[x] = P[x]
               /\ \A k \in Idx : m3[x][k] = m1[x][k] /\ m2[x][k] = m1[x][k]
               /\ \A u \in Vpn : Find(m2, x, u) = Find(m, x, u)
    <2>1. x \in 1..n1 /\ x \in 1..n2 /\ Q1[x] = P[x] /\ Q[x] = P[x]
      BY <1>4, <1>6
    <2>2. x # a /\ x # b
      BY <1>4, <1>6, <1>9, <2>1
    <2>3. \A k \in Idx : m3[x][k] = m2[x][k]
      BY <1>8, <2>1, <2>2 DEF Grows
    <2>4. \A k \in Idx : m2[x][k] = m1[x][k]
      BY <1>6, <2>1, <2>2
    <2> QED
      BY <1>4, <1>6, <1>9, <2>1, <2>3, <2>4
  <1>10. Walked(m, n, P, r, v[1], m3, n2, Q)
    <2>1. Shape(m3, n2, Q)
      BY <1>8 DEF Grows
    <2>2. n <= n2 /\ \A t \in 1..n : Q[t] = P[t]
      BY <1>2, <1>4, <1>6
    <2> QED
      BY <1>4, <1>9, <2>1, <2>2 DEF Walked
  <1>11. Q[a].of = Q1[a].of /\ m3[r][v[1]] = m1[r][v[1]] /\ m2[r][v[1]] = m1[r][v[1]]
    BY <1>1, <1>4, <1>6, <1>9
  <1>12. OwnTable(m, P, r, v[1], m3, Q)
    BY <1>4, <1>11 DEF OwnTable
  <1>13. EndsAt(m2, r, v, b, v[3]) /\ Find(m2, r, v) = Find(m, r, v)
    BY <1>4, <1>6, <1>9, <1>11 DEF EndsAt
  <1>14. Mapped(m, n, P, r, v, p, m3, n2, Q)
    <2>1. Find(m, r, v) = Fault => Find(m3, r, v) = p
      BY <1>1, <1>6, <1>9, <1>13, PutFinds
    <2>2. ASSUME NEW x \in 1..n, NEW u \in Vpn, P[x].level = 2, Find(m3, x, u) # Find(m, x, u)
          PROVE  /\ u = v /\ Find(m, x, u) = Fault
                 /\ m3[x][v[1]].to = "table" /\ m3[r][v[1]].to = "table"
                 /\ Q[m3[x][v[1]].at].of = Q[m3[r][v[1]].at].of
      <3>1. /\ x \in 1..n2 /\ Q[x].level = 2 /\ Find(m2, x, u) = Find(m, x, u)
            /\ m3[x][v[1]] = m2[x][v[1]]
        BY <1>1, <1>9, <2>2
      <3>2. /\ EndsAt(m2, x, u, b, v[3]) /\ Find(m2, x, u) = Fault
            /\ Q[m2[x][u[1]].at].of = Q[b].of
            /\ u = <<Q[b].i, Q[b].j, v[3]>>
        BY <1>1, <1>6, <2>2, <3>1, PutFinds
      <3>3. u = v
        BY <1>1, <1>6, <3>2
      <3>4. Q[b].of = Q[a].of /\ Q[m3[r][v[1]].at].of = Q[a].of /\ m3[r][v[1]].to = "table"
        BY <1>4, <1>5, <1>6, <1>11, SMTT(30) DEF Below
      <3>5. m3[x][v[1]].to = "table" /\ Q[m3[x][v[1]].at].of = Q[b].of
        BY <3>1, <3>2, <3>3 DEF EndsAt
      <3> QED
        BY <3>1, <3>2, <3>3, <3>4, <3>5
    <2> QED
      BY <2>1, <2>2 DEF Mapped
  <1>15. Beside(m, r, v[1], v[2], m3)
    <2> SUFFICES ASSUME NEW u \in Vpn, ~(u[1] = v[1] /\ u[2] = v[2])
                 PROVE  KeepsMiddle(m, r, u, m3)
      BY DEF Beside
    <2>0. u[1] # v[1] \/ u[2] # v[2]
      OBVIOUS
    <2>1. KeepsMiddle(m, r, u, m1)
      BY <1>1, <1>3, KeepsBelow
    <2>2. Middle(m2, r, u) = Middle(m1, r, u)
      <3>1. OnlyAt(m1, n1, m2, a, v[2])
        BY <1>5 DEF Below, Grows, OnlyAt
      <3>2. /\ r \in 1..n1 /\ Q1[r].level = 2 /\ Shape(m1, n1, Q1) /\ a \in 1..n1 /\ v[2] \in Idx
            /\ Q1[a].level = 1 /\ Q1[a].i = v[1]
        BY <1>1, <1>4, <1>9
      <3>3. /\ ~(Q1[a].level = 2 /\ u[1] = v[2])
            /\ ~(Q1[a].level = 1 /\ Q1[a].i = u[1] /\ u[2] = v[2])
        BY <2>0, <3>2
      <3> QED
        BY <3>1, <3>2, <3>3, KeepsAway
    <2>3. Middle(m3, r, u) = Middle(m2, r, u)
      <3>1. OnlyAt(m2, n2, m3, b, v[3])
        BY <1>8 DEF Grows, OnlyAt
      <3>2. /\ r \in 1..n2 /\ Q[r].level = 2 /\ Shape(m2, n2, Q) /\ b \in 1..n2 /\ v[3] \in Idx
            /\ Q[b].level = 0
        BY <1>1, <1>6, <1>9
      <3>3. ~(Q[b].level = 2 /\ u[1] = v[3]) /\ ~(Q[b].level = 1 /\ Q[b].i = u[1] /\ u[2] = v[3])
        BY <3>2
      <3> HIDE DEF m3
      <3> QED
        BY <3>1, <3>2, <3>3, KeepsAway
    <2> QED
      BY <2>1, <2>2, <2>3 DEF KeepsMiddle
  <1> HIDE DEF m3
  <1> QED
    BY <1>7, <1>10, <1>12, <1>14, <1>15

\* On the way of page v no huge page may be mapped.
Small(v) == <<v[1]>> \notin HugeVa /\ <<v[1], v[2]>> \notin HugeVa

LEMMA SmallPages == \A v \in KernelVa \cup ExtraVa \cup UserVa : v \in Vpn /\ Small(v)
  BY VmeAssumption DEF Small

\* Walks for huge pages.
HugeWalked(m, n, P, r, i, m2, n2, Q) ==
  /\ Walked(m, n, P, r, i, m2, n2, Q)
  /\ \A x \in 1..n, u \in Vpn :
       P[x].level = 2 /\ Small(u) => Find(m2, x, u) = Find(m, x, u)

\* A walk for 2 MiB: where there was nothing it puts target p, and leaves the others.
MegaMapped(m, r, i, j, p, m2) ==
  /\ Beside(m, r, i, j, m2)
  /\ \A u \in Vpn : u[1] = i /\ u[2] = j /\ Middle(m, r, u).to = "none" =>
       Middle(m2, r, u).to = "page" /\ Middle(m2, r, u).at = p

LEMMA MiddleWalk ==
  ASSUME NEW m, NEW n, NEW P, Shape(m, n, P), n + 1 <= MaxTables,
         NEW r \in 1..n, P[r].level = 2, NEW i \in Idx, NEW j \in Idx, NEW p \in Target,
         <<i>> \notin HugeVa, <<i, j>> \in HugeVa
  PROVE  \E m2, n2, Q, b : /\ SetLeaf(Descend(At(m, n, r), i), j, p) = At(m2, n2, b)
                           /\ HugeWalked(m, n, P, r, i, m2, n2, Q)
                           /\ MegaMapped(m, r, i, j, p, m2)
  <1>1. n \in Nat /\ MaxTables \in Nat
    BY ShapeFacts, VmeAssumption
  <1>2. PICK m1, n1, Q, a : /\ Descend(At(m, n, r), i) = At(m1, n1, a)
                            /\ Below(m, n, P, r, i, m1, n1, Q, a)
    <2>1. EntryFits(m, n, P, r, i)
      BY Child
    <2>2. m[r][i].to # "page" /\ n < MaxTables
      BY <1>1, <2>1 DEF EntryFits
    <2> QED
      BY <2>2, Descending
  <1>3. /\ Shape(m1, n1, Q) /\ n1 \in {n, n + 1} /\ \A t \in 1..n : t \in 1..n1 /\ Q[t] = P[t]
        /\ \A t \in 1..n, k \in Idx : m1[t][k] # m[t][k] => t = r /\ k = i /\ m[t][k].to = "none"
        /\ a \in 1..n1 /\ Q[a].level = 1 /\ Q[a].i = i
        /\ \A x \in 1..n, u \in Vpn : P[x].level = 2 => Find(m1, x, u) = Find(m, x, u)
    BY <1>1, <1>2 DEF Below, Grows
  <1> DEFINE m2 == Put(m1, a, j, p)
  <1>4. SetLeaf(Descend(At(m, n, r), i), j, p) = At(m2, n1, a)
    <2>1. SetLeaf(At(m1, n1, a), j, p) = At(m2, n1, a)
      BY SetLeafIs DEF Put
    <2> QED
      BY <1>2, <2>1
  <1>5. IsPage(Q[a], j)
    BY <1>3 DEF IsPage
  <1>6. Grows(m1, n1, Q, m2, n1, Q, a, j)
    BY <1>3, <1>5, PutShape
  <1>7. \A x \in 1..n, k \in Idx : P[x].level = 2 => m2[x][k] = m1[x][k]
    BY <1>3, <1>6 DEF Grows
  <1>8. \A x \in 1..n, u \in Vpn : P[x].level = 2 /\ Small(u) => Find(m2, x, u) = Find(m1, x, u)
    BY <1>3, <1>5, PutHuge DEF Small
  <1>9. Shape(m2, n1, Q)
    BY <1>6 DEF Grows
  <1>11. MegaMapped(m, r, i, j, p, m2)
    <2>1. m1[r][i].to = "table" /\ m1[r][i].at = a /\ r \in 1..n1 /\ Q[r].level = 2 /\ r # a
      BY <1>2, <1>3 DEF Below
    <2>2. /\ \A u \in Vpn : KeepsMiddle(m, r, u, m1)
          /\ OnlyAt(m1, n1, m2, a, j)
      BY <1>2, <1>6, KeepsBelow DEF Grows, OnlyAt
    <2>3. ASSUME NEW u \in Vpn, ~(u[1] = i /\ u[2] = j)
          PROVE  KeepsMiddle(m, r, u, m2)
      <3>1. Middle(m2, r, u) = Middle(m1, r, u)
        BY <1>3, <2>1, <2>2, <2>3, KeepsAway
      <3> QED
        BY <2>2, <3>1 DEF KeepsMiddle
    <2>4. ASSUME NEW u \in Vpn, u[1] = i, u[2] = j, Middle(m, r, u).to = "none"
          PROVE  Middle(m2, r, u).to = "page" /\ Middle(m2, r, u).at = p
      <3>1. m1[a][j].to = "none"
        BY <2>1, <2>2, <2>4 DEF KeepsMiddle, Middle
      <3>2. m2[a][j].to = "page" /\ m2[a][j].at = p
        BY <1>3, <3>1, PutEntries
      <3>3. m2[r][i] = m1[r][i]
        BY <2>1, <2>2 DEF OnlyAt
      <3> QED
        BY <2>1, <2>4, <3>2, <3>3 DEF Middle
    <2> QED
      BY <2>3, <2>4 DEF MegaMapped, Beside
  <1> HIDE DEF m2
  <1>10. HugeWalked(m, n, P, r, i, m2, n1, Q)
    BY <1>1, <1>3, <1>7, <1>8, <1>9 DEF HugeWalked, Walked
  <1> QED
    BY <1>4, <1>10, <1>11

LEMMA TopWalk ==
  ASSUME NEW m, NEW n, NEW P, Shape(m, n, P),
         NEW r \in 1..n, P[r].level = 2, NEW i \in Idx, NEW p \in Target, <<i>> \in HugeVa
  PROVE  \E m2, n2, Q, b : /\ SetLeaf(At(m, n, r), i, p) = At(m2, n2, b)
                           /\ HugeWalked(m, n, P, r, i, m2, n2, Q)
  <1> DEFINE m2 == Put(m, r, i, p)
  <1>1. SetLeaf(At(m, n, r), i, p) = At(m2, n, r)
    BY SetLeafIs DEF Put
  <1>2. IsPage(P[r], i) /\ n \in Nat
    BY ShapeFacts DEF IsPage
  <1>3. Grows(m, n, P, m2, n, P, r, i)
    BY <1>2, PutShape
  <1>4. \A x \in 1..n, u \in Vpn : P[x].level = 2 /\ Small(u) => Find(m2, x, u) = Find(m, x, u)
    BY <1>2, PutHuge DEF Small
  <1> HIDE DEF m2
  <1>5. HugeWalked(m, n, P, r, i, m2, n, P)
    BY <1>2, <1>3, <1>4 DEF HugeWalked, Walked, Grows
  <1> QED
    BY <1>1, <1>5

-----------------------------------------------------------------------------
(* The invariant.                                                          *)

\* The roots are tables of their spaces.
Rooted(P) ==
  /\ root \in [Space -> 0..used]
  /\ \A s \in Space : root[s] # 0 => P[root[s]].level = 2 /\ P[root[s]].of = s

\* How far _vme_init has got.
Progress ==
  /\ todo \subseteq KernelVa /\ enabled \in BOOLEAN /\ satp \in Space \cup {NoSpace}
  /\ root[Kas] = 0 => todo = KernelVa
  /\ ~enabled => \A s \in User : root[s] = 0
  /\ enabled => todo = {} /\ root[Kas] # 0 /\ satp \in Space /\ root[satp] # 0

\* The kernel's pages.
KernelFound ==
  /\ root[Kas] # 0 =>
       \A v \in KernelVa : Find(mem, root[Kas], v) = IF v \in todo THEN Fault ELSE v
  /\ \A s \in User, v \in KernelVa : root[s] # 0 => Find(mem, root[s], v) = v

\* A user page hangs below a table of its own space, and the kernel has none.
Apart(P) ==
  \A s \in Space, u \in UserVa :
    root[s] # 0 /\ mem[root[s]][u[1]].to # "none" =>
      s # Kas /\ mem[root[s]][u[1]].to = "table" /\ P[mem[root[s]][u[1]].at].of = s

Good(P) == /\ Shape(mem, used, P) /\ Rooted(P) /\ Progress /\ KernelFound
           /\ RootsApart => Apart(P)

IInv == \E P : Good(P)

LEMMA InitIInv == Init => IInv
  <1> SUFFICES ASSUME Init
               PROVE  IInv
    OBVIOUS
  <1> DEFINE P == [t \in Frame |-> Place(2, Kas, 0, 0)]
  <1>1. PageAt(Junk) \in Entry /\ PageAt(Junk).to = "page" /\ PageAt(Junk).at \in Target
    BY EntryFacts DEF Target
  <1>2. Shape(mem, used, P)
    <2>1. /\ mem \in Memory /\ used = 0 /\ 1..used = {} /\ used \in 0..MaxTables
          /\ \A t \in Frame, k \in Idx : mem[t][k] = PageAt(Junk)
      BY <1>1, VmeAssumption DEF Init, Memory
    <2> QED
      BY <1>1, <2>1 DEF Shape
  <1>3. Rooted(P)
    BY DEF Init, Rooted
  <1>4. \A s \in Space : root[s] = 0
    BY DEF Init
  <1>5. Progress /\ KernelFound /\ Apart(P)
    BY <1>4, VmeAssumption DEF Init, Progress, KernelFound, Apart, Space
  <1> QED
    BY <1>2, <1>3, <1>5 DEF IInv, Good

-----------------------------------------------------------------------------
(* Steps that walk.                                                        *)

LEMMA RootFacts ==
  ASSUME NEW P, Good(P), NEW s \in Space, root[s] # 0
  PROVE  root[s] \in 1..used /\ P[root[s]].level = 2 /\ P[root[s]].of = s
  <1>1. used \in Nat
    BY ShapeFacts DEF Good
  <1>2. root[s] \in 0..used
    BY DEF Good, Rooted
  <1> QED
    BY <1>1, <1>2 DEF Good, Rooted

LEMMA WalkStep ==
  ASSUME NEW P, Good(P), NEW s \in Space, root[s] # 0, NEW v \in Vpn, Small(v),
         NEW p \in Target, used + 2 <= MaxTables, Becomes(Walk4K(s, v, p))
  PROVE  \E Q : /\ Walked(mem, used, P, root[s], v[1], mem', used', Q)
                /\ OwnTable(mem, P, root[s], v[1], mem', Q)
                /\ Mapped(mem, used, P, root[s], v, p, mem', used', Q)
                /\ Beside(mem, root[s], v[1], v[2], mem')
  <1>1. Shape(mem, used, P) /\ root[s] \in 1..used /\ P[root[s]].level = 2
    BY RootFacts DEF Good
  <1>2. PICK m2, n2, Q, b :
           /\ SetLeaf(Descend(Descend(At(mem, used, root[s]), v[1]), v[2]), v[3], p) = At(m2, n2, b)
           /\ Walked(mem, used, P, root[s], v[1], m2, n2, Q)
           /\ OwnTable(mem, P, root[s], v[1], m2, Q)
           /\ Mapped(mem, used, P, root[s], v, p, m2, n2, Q)
           /\ Beside(mem, root[s], v[1], v[2], m2)
    BY <1>1, SmallWalk DEF Small
  <1>3. Walk4K(s, v, p) = At(m2, n2, b)
    BY <1>2 DEF Walk4K, WalkFrom, At
  <1>4. mem' = m2 /\ used' = n2
    BY <1>3 DEF Becomes, At
  <1> QED
    BY <1>2, <1>4

LEMMA HugeStep ==
  ASSUME NEW P, Good(P), root[Kas] # 0, NEW h \in HugeVa, NEW p \in Target,
         used + 1 <= MaxTables,
         Becomes(IF h \in Idx \X Idx THEN Walk2M(Kas, h, p) ELSE Walk1G(Kas, h, p))
  PROVE  /\ h[1] \in Idx
         /\ \E Q : HugeWalked(mem, used, P, root[Kas], h[1], mem', used', Q)
         /\ h \in Idx \X Idx => MegaMapped(mem, root[Kas], h[1], h[2], p, mem')
  <1>1. Shape(mem, used, P) /\ root[Kas] \in 1..used /\ P[root[Kas]].level = 2
    BY RootFacts DEF Good, Space
  <1>2. CASE h \in Idx \X Idx
    <2>1. h = <<h[1], h[2]>> /\ h[1] \in Idx /\ h[2] \in Idx /\ <<h[1]>> \notin HugeVa
      BY <1>2, VmeAssumption
    <2>2. PICK m2, n2, Q, b :
            /\ SetLeaf(Descend(At(mem, used, root[Kas]), h[1]), h[2], p) = At(m2, n2, b)
            /\ HugeWalked(mem, used, P, root[Kas], h[1], m2, n2, Q)
            /\ MegaMapped(mem, root[Kas], h[1], h[2], p, m2)
      BY <1>1, <2>1, MiddleWalk
    <2>3. Walk2M(Kas, h, p) = At(m2, n2, b)
      BY <2>2 DEF Walk2M, WalkFrom, At
    <2>4. mem' = m2 /\ used' = n2
      BY <1>2, <2>3 DEF Becomes, At
    <2> QED
      BY <2>1, <2>2, <2>4
  <1>3. CASE h \notin Idx \X Idx
    <2>1. h = <<h[1]>> /\ h[1] \in Idx
      BY <1>3, VmeAssumption
    <2>2. PICK m2, n2, Q, b :
            /\ SetLeaf(At(mem, used, root[Kas]), h[1], p) = At(m2, n2, b)
            /\ HugeWalked(mem, used, P, root[Kas], h[1], m2, n2, Q)
      BY <1>1, <2>1, TopWalk
    <2>3. Walk1G(Kas, h, p) = At(m2, n2, b)
      BY <2>2 DEF Walk1G, WalkFrom, At
    <2>4. mem' = m2 /\ used' = n2
      BY <1>3, <2>3 DEF Becomes, At
    <2> QED
      BY <2>1, <2>2, <2>4
  <1> QED
    BY <1>2, <1>3

LEMMA RootsStay ==
  ASSUME NEW P, NEW Q, Good(P), NEW s \in Space, root[s] # 0, NEW i \in Idx,
         Walked(mem, used, P, root[s], i, mem', used', Q), UNCHANGED root
  PROVE  Shape(mem', used', Q) /\ Rooted(Q)'
  <1>1. Shape(mem', used', Q) /\ used <= used' /\ \A t \in 1..used : Q[t] = P[t]
    BY DEF Walked
  <1>2. used \in Nat /\ used' \in Nat
    BY <1>1, ShapeFacts DEF Good
  <1>3. \A t \in Space : root[t] # 0 => Q[root[t]].level = 2 /\ Q[root[t]].of = t
    BY <1>1, RootFacts
  <1>4. root' \in [Space -> 0..used']
    <2>1. 0..used \subseteq 0..used'
      BY <1>1, <1>2
    <2> QED
      BY <2>1 DEF Good, Rooted
  <1> QED
    BY <1>1, <1>3, <1>4 DEF Rooted

LEMMA ApartStays ==
  ASSUME NEW P, NEW Q, Good(P), Apart(P), NEW s \in Space, root[s] # 0, NEW i \in Idx,
         Walked(mem, used, P, root[s], i, mem', used', Q), UNCHANGED root,
         \/ s = Kas /\ \A u \in UserVa : u[1] # i
         \/ s \in User /\ OwnTable(mem, P, root[s], i, mem', Q)
  PROVE  Apart(Q)'
  <1> SUFFICES ASSUME NEW t \in Space, NEW u \in UserVa, root[t] # 0,
                      mem'[root[t]][u[1]].to # "none"
               PROVE  /\ t # Kas /\ mem'[root[t]][u[1]].to = "table"
                      /\ Q[mem'[root[t]][u[1]].at].of = t
    BY DEF Apart
  <1>1. /\ \A x \in 1..used : Q[x] = P[x]
        /\ \A x \in 1..used, k \in Idx :
             P[x].level = 2 /\ mem'[x][k] # mem[x][k] => x = root[s] /\ k = i
    BY DEF Walked
  <1>2. root[t] \in 1..used /\ P[root[t]].level = 2 /\ P[root[t]].of = t /\ u[1] \in Idx
    BY RootFacts, VmeAssumption DEF Vpn
  <1>3. P[root[s]].of = s /\ Kas \notin User
    BY RootFacts, VmeAssumption
  <1>4. CASE mem'[root[t]][u[1]] = mem[root[t]][u[1]]
    <2>1. /\ t # Kas /\ mem[root[t]][u[1]].to = "table"
          /\ P[mem[root[t]][u[1]].at].of = t
      BY <1>4 DEF Apart
    <2>2. EntryFits(mem, used, P, root[t], u[1])
      BY <1>2, Child DEF Good
    <2>3. mem[root[t]][u[1]].at \in 1..used
      BY <1>2, <2>1, <2>2 DEF EntryFits
    <2> QED
      BY <1>1, <1>4, <2>1, <2>3
  <1>5. CASE mem'[root[t]][u[1]] # mem[root[t]][u[1]]
    <2>1. root[t] = root[s] /\ u[1] = i /\ t = s
      BY <1>1, <1>2, <1>3, <1>5
    <2> QED
      BY <1>3, <1>5, <2>1 DEF OwnTable
  <1> QED
    BY <1>4, <1>5

-----------------------------------------------------------------------------
(* Steps that make a root.                                                 *)

\* A copy of a root finds the same pages.
LEMMA CopyFinds ==
  ASSUME NEW m, NEW n, NEW P, Shape(m, n, P), NEW r \in 1..n, P[r].level = 2, NEW v \in Vpn,
         NEW m2, NEW y, \A t \in 1..n, k \in Idx : m2[t][k] = m[t][k],
         \A k \in Idx : m2[y][k] = m[r][k]
  PROVE  Find(m2, y, v) = Find(m, r, v)
  <1> DEFINE e2 == m[r][v[1]]
             e1 == m[e2.at][v[2]]
             e0 == m[e1.at][v[3]]
  <1>1. OnWay(m, n, P, r, v)
    BY WayDown
  <1>2. m2[y][v[1]] = e2 /\ e2.to \in {"none", "table", "page"}
    BY <1>1, Zenon DEF OnWay
  <1>3. e2.to = "table" => m2[e2.at][v[2]] = e1 /\ e1.to \in {"none", "table", "page"}
    BY <1>1, Zenon DEF OnWay
  <1>4. e2.to = "table" /\ e1.to = "table" => m2[e1.at][v[3]] = e0
    BY <1>1, Zenon DEF OnWay
  <1> QED
    BY <1>2, <1>3, <1>4, Zenon DEF Find

\* Table T may become a root: its entries point to the kernel's tables, or nowhere.
MayBeRoot(m, n, P, T) ==
  /\ T \in [Idx -> Entry]
  /\ \A k \in Idx :
       /\ T[k].to = "table" => /\ T[k].at \in 1..n /\ P[T[k].at].level = 1
                               /\ P[T[k].at].of = Kas /\ P[T[k].at].i = k
       /\ T[k].to = "page" => <<k>> \in HugeVa /\ T[k].at \in Target

\* Memory m with T as table n + 1.
WithRoot(m, n, T) == [m EXCEPT ![n + 1] = T]

\* Memory m2 has a root for space s as table n + 1, and the old tables.
HasRoot(m, n, P, s, m2, Q) ==
  /\ Shape(m2, n + 1, Q)
  /\ \A t \in 1..n : Q[t] = P[t] /\ m2[t] = m[t]
  /\ Q[n + 1].level = 2 /\ Q[n + 1].of = s

LEMMA NewRoot ==
  ASSUME NEW m, NEW n, NEW P, Shape(m, n, P), n < MaxTables, NEW s \in Space, NEW T,
         MayBeRoot(m, n, P, T)
  PROVE  /\ WithRoot(m, n, T)[n + 1] = T
         /\ \E Q : HasRoot(m, n, P, s, WithRoot(m, n, T), Q)
  <1> DEFINE m2 == WithRoot(m, n, T)
             Q == [t \in Frame |-> IF t = n + 1 THEN Place(2, s, 0, 0) ELSE P[t]]
  <1>1. /\ n \in Nat /\ n <= MaxTables /\ n + 1 \in Frame /\ \A t \in 1..n : t \in Frame
        /\ n + 1 \notin 1..n /\ 1..(n + 1) = (1..n) \cup {n + 1} /\ n + 1 \in 0..MaxTables
    <2>1. n \in Nat /\ n <= MaxTables /\ \A t \in 1..n : t \in Frame
      BY ShapeFacts
    <2> QED
      BY <2>1, VmeAssumption DEF Frame
  <1>2. m2 \in Memory /\ m2[n + 1] = T /\ \A t \in Frame : t # n + 1 => m2[t] = m[t]
    BY <1>1 DEF Shape, Memory, MayBeRoot, WithRoot
  <1>3. /\ \A t \in 1..n : Q[t] = P[t]
        /\ Q[n + 1].level = 2 /\ Q[n + 1].of = s
    BY <1>1 DEF Place
  <1> HIDE DEF m2, Q
  <1>4. \A t \in Frame, k \in Idx : m2[t][k].to = "page" => m2[t][k].at \in Target
    BY <1>2, ZenonT(30) DEF Shape, MayBeRoot
  <1>5. ASSUME NEW t \in Frame, NEW k \in Idx, t > n + 1
        PROVE  m2[t][k].to = "page"
    <2>1. t # n + 1 /\ t > n
      BY <1>1, <1>5 DEF Frame
    <2> QED
      BY <1>2, <2>1 DEF Shape
  <1>6. \A t \in 1..(n + 1) : Q[t].level \in {0, 1, 2} /\ Q[t].of \in Space
    BY <1>1, <1>3 DEF Shape
  <1>7. ASSUME NEW t \in 1..(n + 1), NEW k \in Idx
        PROVE  /\ m2[t][k].to = "table" => /\ m2[t][k].at \in 1..(n + 1)
                                           /\ IsChild(Q[m2[t][k].at], Q[t], k)
               /\ m2[t][k].to = "page" => IsPage(Q[t], k)
    <2>1. CASE t = n + 1
      <3>1. /\ T[k].to = "table" => /\ T[k].at \in 1..n /\ P[T[k].at].level = 1
                                    /\ P[T[k].at].of = Kas /\ P[T[k].at].i = k
            /\ T[k].to = "page" => <<k>> \in HugeVa
        BY DEF MayBeRoot
      <3> QED
        BY <1>1, <1>2, <1>3, <2>1, <3>1 DEF IsChild, IsPage
    <2>2. CASE t \in 1..n
      <3>1. m2[t][k] = m[t][k] /\ Q[t] = P[t]
        BY <1>1, <1>2, <1>3, <2>2
      <3>2. m[t][k].to = "table" => m[t][k].at \in 1..n /\ IsChild(P[m[t][k].at], P[t], k)
        BY <2>2 DEF Shape
      <3>3. m[t][k].to = "page" => IsPage(P[t], k)
        BY <2>2 DEF Shape
      <3> QED
        BY <1>1, <1>3, <3>1, <3>2, <3>3
    <2> QED
      BY <1>1, <2>1, <2>2
  <1>8. Shape(m2, n + 1, Q)
    BY <1>1, <1>2, <1>4, <1>5, <1>6, <1>7 DEF Shape
  <1>9. HasRoot(m, n, P, s, m2, Q)
    BY <1>1, <1>2, <1>3, <1>8 DEF HasRoot
  <1> QED
    BY <1>2, <1>9 DEF m2

\* The step that makes a root: the other roots stay.
LEMMA RootMade ==
  ASSUME NEW P, NEW Q, Good(P), NEW s \in Space, root[s] = 0,
         HasRoot(mem, used, P, s, mem', Q), used' = used + 1, root' = [root EXCEPT ![s] = used + 1]
  PROVE  /\ Shape(mem', used', Q) /\ Rooted(Q)' /\ root'[s] = used + 1 /\ used + 1 # 0
         /\ \A t \in Space : t # s => root'[t] = root[t]
         /\ \A t \in Space, v \in Vpn : t # s /\ root[t] # 0 =>
              Find(mem', root'[t], v) = Find(mem, root[t], v)
  <1>1. used \in Nat /\ used + 1 # 0
    BY ShapeFacts DEF Good
  <1>2. /\ root'[s] = used + 1 /\ root' \in [Space -> 0..used']
        /\ \A t \in Space : t # s => root'[t] = root[t]
    <2>1. root \in [Space -> 0..used] /\ 0..used \subseteq 0..(used + 1) /\ used + 1 \in 0..(used + 1)
      BY <1>1 DEF Good, Rooted
    <2> QED
      BY <2>1
  <1>3. \A t \in Space : root'[t] # 0 => Q[root'[t]].level = 2 /\ Q[root'[t]].of = t
    BY <1>2, RootFacts DEF HasRoot
  <1>4. ASSUME NEW t \in Space, NEW v \in Vpn, t # s, root[t] # 0
        PROVE  Find(mem', root'[t], v) = Find(mem, root[t], v)
    <2>1. root[t] \in 1..used /\ P[root[t]].level = 2 /\ root'[t] = root[t]
      BY <1>2, <1>4, RootFacts
    <2>2. Shape(mem, used, P) /\ \A x \in 1..used : mem'[x] = mem[x]
      BY DEF Good, HasRoot
    <2> QED
      BY <2>1, <2>2, CopyFinds
  <1> QED
    BY <1>1, <1>2, <1>3, <1>4 DEF Rooted, HasRoot

-----------------------------------------------------------------------------
(* Every step keeps the invariant.                                         *)

LEMMA KernelRootStep ==
  ASSUME NEW P, Good(P), KernelRoot
  PROVE  IInv'
  <1>1. /\ root[Kas] = 0 /\ used < MaxTables
        /\ mem' = [mem EXCEPT ![used + 1] = Empty] /\ used' = used + 1
        /\ root' = [root EXCEPT ![Kas] = used + 1]
        /\ UNCHANGED <<todo, enabled, satp>>
    BY DEF KernelRoot, Becomes, NewPage, WalkFrom
  <1>2. Kas \in Space /\ \A s \in User : s # Kas /\ s \in Space
    BY VmeAssumption DEF Space
  <1>3. MayBeRoot(mem, used, P, Empty)
    BY EntryFacts DEF MayBeRoot
  <1>4. Shape(mem, used, P) /\ todo = KernelVa /\ ~enabled /\ \A s \in User : root[s] = 0
    BY <1>1 DEF Good, Progress
  <1>5. mem' = WithRoot(mem, used, Empty) /\ mem'[used + 1] = Empty
    BY <1>1, <1>2, <1>3, <1>4, NewRoot DEF WithRoot
  <1>6. PICK Q : HasRoot(mem, used, P, Kas, mem', Q)
    <2>1. \E Q : HasRoot(mem, used, P, Kas, WithRoot(mem, used, Empty), Q)
      BY <1>1, <1>2, <1>3, <1>4, NewRoot
    <2> QED
      BY <1>5, <2>1
  <1>7. /\ Shape(mem', used', Q) /\ Rooted(Q)' /\ root'[Kas] = used + 1 /\ used + 1 # 0
        /\ \A t \in Space : t # Kas => root'[t] = root[t]
    BY <1>1, <1>2, <1>6, RootMade
  <1>8. Progress'
    BY <1>1, <1>2, <1>4, <1>7 DEF Good, Progress
  <1>9. \A v \in Vpn : Find(mem', used + 1, v) = Fault /\ mem'[used + 1][v[1]].to = "none"
    <2> SUFFICES ASSUME NEW v \in Vpn
                 PROVE  Find(mem', used + 1, v) = Fault /\ mem'[used + 1][v[1]].to = "none"
      OBVIOUS
    <2>1. v[1] \in Idx
      BY DEF Vpn
    <2>2. mem'[used + 1][v[1]].to = "none"
      BY <1>5, <2>1, EntryFacts
    <2> QED
      BY <2>2 DEF Find
  <1>10. KernelFound'
    BY <1>1, <1>2, <1>4, <1>7, <1>9, SmallPages DEF KernelFound
  <1>11. Apart(Q)'
    <2>1. \A s \in Space : root'[s] # 0 => s = Kas /\ root'[s] = used + 1
      BY <1>4, <1>7 DEF Space
    <2> QED
      BY <1>9, <2>1, SmallPages DEF Apart
  <1> QED
    BY <1>7, <1>8, <1>10, <1>11 DEF IInv, Good

LEMMA MapSegmentStep ==
  ASSUME NEW P, Good(P), NEW v \in KernelVa, MapSegment(v)
  PROVE  IInv'
  <1>1. /\ root[Kas] # 0 /\ v \in todo /\ used + 2 <= MaxTables
        /\ Becomes(Walk4K(Kas, v, v)) /\ todo' = todo \ {v} /\ UNCHANGED <<root, enabled, satp>>
    BY DEF MapSegment
  <1>2. v \in Vpn /\ Small(v) /\ v \in Target /\ Kas \in Space /\ v[1] \in Idx
    BY SmallPages DEF Target, Space, Vpn
  <1>3. PICK Q : /\ Walked(mem, used, P, root[Kas], v[1], mem', used', Q)
                 /\ Mapped(mem, used, P, root[Kas], v, v, mem', used', Q)
    BY <1>1, <1>2, WalkStep
  <1>4. Shape(mem', used', Q) /\ Rooted(Q)'
    BY <1>1, <1>2, <1>3, RootsStay
  <1>5. ~enabled /\ todo \subseteq KernelVa /\ \A s \in User : root[s] = 0
    BY <1>1 DEF Good, Progress
  <1>6. Progress'
    BY <1>1, <1>5 DEF Good, Progress
  <1>7. KernelFound'
    <2>1. root[Kas] \in 1..used /\ P[root[Kas]].level = 2
      BY <1>1, <1>2, RootFacts
    <2>2. Find(mem, root[Kas], v) = Fault /\ Find(mem', root[Kas], v) = v
      BY <1>1, <1>3 DEF Good, KernelFound, Mapped
    <2>3. ASSUME NEW u \in KernelVa, u # v
          PROVE  Find(mem', root[Kas], u) = Find(mem, root[Kas], u)
      BY <1>3, <2>1, <2>3, SmallPages DEF Mapped
    <2>4. ASSUME NEW u \in KernelVa
          PROVE  Find(mem', root[Kas], u) = IF u \in todo' THEN Fault ELSE u
      BY <1>1, <2>2, <2>3 DEF Good, KernelFound
    <2> QED
      BY <1>1, <1>5, <2>4 DEF KernelFound
  <1>8. RootsApart => Apart(Q)'
    <2>1. RootsApart => \A u \in UserVa : u[1] # v[1]
      BY DEF RootsApart
    <2> QED
      BY <1>1, <1>2, <1>3, <2>1, ApartStays DEF Good
  <1> QED
    BY <1>4, <1>6, <1>7, <1>8 DEF IInv, Good

LEMMA EnableStep ==
  ASSUME NEW P, Good(P), Enable
  PROVE  IInv'
  <1>1. /\ root[Kas] # 0 /\ todo = {} /\ satp' = Kas /\ enabled' = TRUE
        /\ UNCHANGED <<mem, used, root, todo>>
    BY DEF Enable
  <1>2. Progress'
    BY <1>1 DEF Good, Progress, Space
  <1> QED
    BY <1>1, <1>2 DEF IInv, Good, Rooted, KernelFound, Apart

LEMMA TrapStep ==
  ASSUME NEW P, Good(P), NEW s \in Space, Trap(s)
  PROVE  IInv'
  <1>1. root[s] # 0 /\ satp' = s /\ enabled /\ UNCHANGED <<mem, used, root, todo, enabled>>
    BY DEF Trap
  <1>2. Progress'
    BY <1>1 DEF Good, Progress
  <1> QED
    BY <1>1, <1>2 DEF IInv, Good, Rooted, KernelFound, Apart

\* Any walk once translation is on: no page of the kernel is replaced.
LEMMA WalksKeep ==
  ASSUME NEW P, NEW Q, Good(P), enabled, NEW s \in Space, root[s] # 0,
         NEW i \in Idx, Walked(mem, used, P, root[s], i, mem', used', Q),
         UNCHANGED <<root, todo, enabled, satp>>,
         \A t \in Space, u \in KernelVa :
           root[t] # 0 /\ Find(mem, root[t], u) # Fault =>
             Find(mem', root[t], u) = Find(mem, root[t], u),
         RootsApart => Apart(Q)'
  PROVE  IInv'
  <1>1. Shape(mem', used', Q) /\ Rooted(Q)'
    BY RootsStay
  <1>2. Progress'
    BY DEF Good, Progress
  <1>3. todo = {} /\ \A u \in KernelVa : u # Fault
    BY VmeAssumption DEF Good, Progress
  <1>4. KernelFound'
    <2>1. \A u \in KernelVa : root[Kas] # 0 => Find(mem', root[Kas], u) = u
      BY <1>3 DEF Good, KernelFound, Space
    <2>2. \A t \in User, u \in KernelVa : root[t] # 0 => Find(mem', root[t], u) = u
      BY <1>3 DEF Good, KernelFound, Space
    <2> QED
      BY <1>3, <2>1, <2>2 DEF KernelFound
  <1> QED
    BY <1>1, <1>2, <1>4 DEF IInv, Good

LEMMA ProtectStep ==
  ASSUME NEW P, Good(P), NEW s \in User, Protect(s)
  PROVE  IInv'
  <1>1. /\ enabled /\ root[s] = 0 /\ used < MaxTables
        /\ mem' = WithRoot(mem, used, mem[root[Kas]]) /\ used' = used + 1
        /\ root' = [root EXCEPT ![s] = used + 1]
        /\ UNCHANGED <<todo, enabled, satp>>
    BY DEF Protect, WithRoot
  <1>2. Kas \in Space /\ s \in Space /\ s # Kas /\ root[Kas] # 0 /\ todo = {}
    BY <1>1, VmeAssumption DEF Space, Good, Progress
  <1>3. root[Kas] \in 1..used /\ P[root[Kas]].level = 2 /\ P[root[Kas]].of = Kas
    BY <1>2, RootFacts
  <1>4. Shape(mem, used, P) /\ root[Kas] \in Frame
    BY <1>3, ShapeFacts DEF Good
  <1>5. MayBeRoot(mem, used, P, mem[root[Kas]])
    <2>1. \A k \in Idx : EntryFits(mem, used, P, root[Kas], k)
      BY <1>3, <1>4, Child
    <2>2. mem[root[Kas]] \in [Idx -> Entry]
      BY <1>4 DEF Shape, Memory
    <2>3. \A k \in Idx : mem[root[Kas]][k].to = "page" => mem[root[Kas]][k].at \in Target
      BY <1>4 DEF Shape
    <2> QED
      BY <1>3, <2>1, <2>2, <2>3 DEF MayBeRoot, EntryFits
  <1>6. mem'[used + 1] = mem[root[Kas]]
    BY <1>1, <1>2, <1>4, <1>5, NewRoot
  <1>7. PICK Q : HasRoot(mem, used, P, s, mem', Q)
    <2>1. \E Q : HasRoot(mem, used, P, s, WithRoot(mem, used, mem[root[Kas]]), Q)
      BY <1>1, <1>2, <1>4, <1>5, NewRoot
    <2> QED
      BY <1>1, <2>1
  <1>8. /\ Shape(mem', used', Q) /\ Rooted(Q)' /\ root'[s] = used + 1 /\ used + 1 # 0
        /\ \A t \in Space : t # s => root'[t] = root[t]
        /\ \A t \in Space, v \in Vpn : t # s /\ root[t] # 0 =>
             Find(mem', root'[t], v) = Find(mem, root[t], v)
    BY <1>1, <1>2, <1>7, RootMade
  <1>9. Progress'
    BY <1>1, <1>2, <1>8 DEF Good, Progress
  <1>10. \A v \in Vpn : Find(mem', root'[s], v) = Find(mem, root[Kas], v)
    <2>1. \A t \in 1..used, k \in Idx : mem'[t][k] = mem[t][k]
      BY <1>7 DEF HasRoot
    <2>2. \A k \in Idx : mem'[used + 1][k] = mem[root[Kas]][k]
      BY <1>6
    <2> QED
      BY <1>3, <1>4, <1>8, <2>1, <2>2, CopyFinds
  <1>11. KernelFound'
    <2>1. \A v \in KernelVa : v \in Vpn /\ Find(mem, root[Kas], v) = v
      BY <1>2, SmallPages DEF Good, KernelFound
    <2>2. \A t \in Space, v \in KernelVa : root'[t] # 0 => Find(mem', root'[t], v) = v
      BY <1>8, <1>10, <2>1 DEF Good, KernelFound, Space
    <2> QED
      BY <1>1, <1>2, <2>2 DEF KernelFound, Space
  <1>12. ASSUME RootsApart
         PROVE  Apart(Q)'
    <2> SUFFICES ASSUME NEW t \in Space, NEW u \in UserVa, root'[t] # 0,
                        mem'[root'[t]][u[1]].to # "none"
                 PROVE  /\ t # Kas /\ mem'[root'[t]][u[1]].to = "table"
                        /\ Q[mem'[root'[t]][u[1]].at].of = t
      BY DEF Apart
    <2>1. mem[root[Kas]][u[1]].to = "none"
      BY <1>2, <1>12 DEF Good, Apart
    <2>2. t # s
      BY <1>6, <1>8, <2>1
    <2>3. root'[t] = root[t] /\ root[t] \in 1..used /\ P[root[t]].level = 2 /\ u[1] \in Idx
      BY <1>8, <2>2, RootFacts, SmallPages DEF Vpn
    <2>4. mem'[root[t]][u[1]] = mem[root[t]][u[1]]
      BY <1>7, <2>3 DEF HasRoot
    <2>5. t # Kas /\ mem[root[t]][u[1]].to = "table" /\ P[mem[root[t]][u[1]].at].of = t
      BY <1>12, <2>3, <2>4 DEF Good, Apart
    <2>6. EntryFits(mem, used, P, root[t], u[1])
      BY <1>4, <2>3, Child
    <2>7. mem[root[t]][u[1]].at \in 1..used
      BY <2>3, <2>5, <2>6 DEF EntryFits
    <2> QED
      BY <1>7, <2>3, <2>4, <2>5, <2>7 DEF HasRoot
  <1> QED
    BY <1>8, <1>9, <1>11, <1>12 DEF IInv, Good

LEMMA MapUserStep ==
  ASSUME NEW P, Good(P), NEW s \in User, NEW v \in UserVa, NEW p \in Pa, MapUser(s, v, p)
  PROVE  IInv'
  <1>1. /\ enabled /\ root[s] # 0 /\ used + 2 <= MaxTables /\ Becomes(Walk4K(s, v, p))
        /\ UNCHANGED <<root, todo, enabled, satp>>
    BY DEF MapUser
  <1>2. v \in Vpn /\ Small(v) /\ p \in Target /\ s \in Space /\ v[1] \in Idx
    BY SmallPages DEF Target, Space, Vpn
  <1>3. PICK Q : /\ Walked(mem, used, P, root[s], v[1], mem', used', Q)
                 /\ OwnTable(mem, P, root[s], v[1], mem', Q)
                 /\ Mapped(mem, used, P, root[s], v, p, mem', used', Q)
    BY <1>1, <1>2, WalkStep
  <1>4. \A t \in Space, u \in KernelVa :
          root[t] # 0 /\ Find(mem, root[t], u) # Fault =>
            Find(mem', root[t], u) = Find(mem, root[t], u)
    BY <1>3, RootFacts, SmallPages DEF Mapped
  <1>5. RootsApart => Apart(Q)'
    BY <1>1, <1>2, <1>3, ApartStays DEF Good
  <1> QED
    BY <1>1, <1>2, <1>3, <1>4, <1>5, WalksKeep

LEMMA MapExtraStep ==
  ASSUME NEW P, Good(P), NEW v \in ExtraVa, NEW p \in Pa, MapExtra(v, p)
  PROVE  IInv'
  <1>1. /\ enabled /\ used + 2 <= MaxTables /\ Becomes(Walk4K(Kas, v, p))
        /\ UNCHANGED <<root, todo, enabled, satp>>
    BY DEF MapExtra
  <1>2. /\ v \in Vpn /\ Small(v) /\ p \in Target /\ Kas \in Space /\ v[1] \in Idx
        /\ root[Kas] # 0
    BY <1>1, SmallPages DEF Target, Space, Vpn, Good, Progress
  <1>3. PICK Q : /\ Walked(mem, used, P, root[Kas], v[1], mem', used', Q)
                 /\ Mapped(mem, used, P, root[Kas], v, p, mem', used', Q)
    BY <1>1, <1>2, WalkStep
  <1>4. \A t \in Space, u \in KernelVa :
          root[t] # 0 /\ Find(mem, root[t], u) # Fault =>
            Find(mem', root[t], u) = Find(mem, root[t], u)
    BY <1>3, RootFacts, SmallPages DEF Mapped
  <1>5. RootsApart => Apart(Q)'
    <2>1. RootsApart => \A u \in UserVa : u[1] # v[1]
      BY DEF RootsApart
    <2> QED
      BY <1>1, <1>2, <1>3, <2>1, ApartStays DEF Good
  <1> QED
    BY <1>1, <1>2, <1>3, <1>4, <1>5, WalksKeep

LEMMA MapHugeStep ==
  ASSUME NEW P, Good(P), NEW h \in HugeVa, NEW p \in Pa, MapHuge(h, p)
  PROVE  IInv'
  <1>1. /\ enabled /\ used + 1 <= MaxTables /\ UNCHANGED <<root, todo, enabled, satp>>
        /\ Becomes(IF h \in Idx \X Idx THEN Walk2M(Kas, h, p) ELSE Walk1G(Kas, h, p))
    BY DEF MapHuge
  <1>2. root[Kas] # 0 /\ p \in Target /\ Kas \in Space
    BY <1>1 DEF Target, Space, Good, Progress
  <1>3. h[1] \in Idx /\ \E Q : HugeWalked(mem, used, P, root[Kas], h[1], mem', used', Q)
    BY <1>1, <1>2, HugeStep
  <1>4. PICK Q : /\ Walked(mem, used, P, root[Kas], h[1], mem', used', Q)
                 /\ \A x \in 1..used, u \in Vpn :
                      P[x].level = 2 /\ Small(u) => Find(mem', x, u) = Find(mem, x, u)
    BY <1>3 DEF HugeWalked
  <1>5. \A t \in Space, u \in KernelVa :
          root[t] # 0 => Find(mem', root[t], u) = Find(mem, root[t], u)
    BY <1>4, RootFacts, SmallPages
  <1>6. RootsApart => Apart(Q)'
    <2>1. RootsApart => \A u \in UserVa : u[1] # h[1]
      BY DEF RootsApart
    <2> QED
      BY <1>1, <1>2, <1>3, <1>4, <2>1, ApartStays DEF Good
  <1> QED
    BY <1>1, <1>2, <1>3, <1>4, <1>5, <1>6, WalksKeep

LEMMA StepIInv == IInv /\ [Next]_vars => IInv'
  <1> SUFFICES ASSUME IInv, [Next]_vars
               PROVE  IInv'
    OBVIOUS
  <1>1. PICK P : Good(P)
    BY DEF IInv
  <1>2. CASE UNCHANGED vars
    BY <1>1, <1>2 DEF vars, IInv, Good, Rooted, Progress, KernelFound, Apart
  <1>3. CASE Next
    BY <1>1, <1>3, KernelRootStep, EnableStep, MapSegmentStep, ProtectStep, MapUserStep,
       MapExtraStep, MapHugeStep, TrapStep DEF Next
  <1> QED
    BY <1>2, <1>3

THEOREM Invariance == Spec => []IInv
  BY InitIInv, StepIInv, PTL DEF Spec

-----------------------------------------------------------------------------
(* What the invariant says.                                                *)

LEMMA IInvTypes == IInv => TypeOK
  <1> SUFFICES ASSUME NEW P, Good(P)
               PROVE  TypeOK
    BY DEF IInv
  <1>1. Shape(mem, used, P)
    BY DEF Good
  <1>2. used \in 0..MaxTables /\ used \in Nat
    BY <1>1, ShapeFacts DEF Shape
  <1>3. ASSUME NEW t \in Frame, NEW i \in Idx
        PROVE  EntryOK(mem[t][i], Pa \cup KernelVa \cup {Junk})
    <2>1. mem[t][i].to \in {"none", "table", "page"}
      BY <1>1, ShapeFacts
    <2>2. mem[t][i].to = "page" => mem[t][i].at \in Target
      BY <1>1 DEF Shape
    <2>3. mem[t][i].to = "table" => t \in 1..used
      BY <1>1, <1>2 DEF Shape, Frame
    <2>4. mem[t][i].to = "table" => mem[t][i].at \in 1..used
      BY <1>1, <2>3 DEF Shape
    <2> QED
      BY <2>1, <2>2, <2>4 DEF EntryOK, Target
  <1> QED
    BY <1>2, <1>3 DEF Good, Rooted, Progress, TypeOK

\* Memory, allocator, roots and registers hold values of their kinds; every entry is empty
\* or points to a table handed out or to a page.
THEOREM TypeCorrect == Spec => []TypeOK
  BY IInvTypes, Invariance, PTL

\* Lookup, over any memory.
LookupIn(m, r, v) ==
  LET e2 == m[r][v[1]]
      e1 == m[e2.at][v[2]]
      e0 == m[e1.at][v[3]]
  IN  CASE r = 0 \/ e2.to = "none" -> Fault
        [] r # 0 /\ e2.to = "page" -> e2.at
        [] r # 0 /\ e2.to = "table" ->
             CASE e1.to = "none" -> Fault
               [] e1.to = "page" -> e1.at
               [] e1.to = "table" -> IF e0.to = "page" THEN e0.at ELSE Fault

LEMMA LookupFinds ==
  ASSUME NEW m, NEW n, NEW P, Shape(m, n, P), NEW r, r = 0 \/ (r \in 1..n /\ P[r].level = 2),
         NEW v \in Vpn
  PROVE  LookupIn(m, r, v) = IF r = 0 THEN Fault ELSE Find(m, r, v)
  <1> DEFINE e2 == m[r][v[1]]
             e1 == m[e2.at][v[2]]
             e0 == m[e1.at][v[3]]
  <1>1. CASE r = 0
    BY <1>1 DEF LookupIn
  <1>2. CASE r # 0
    <2>1. OnWay(m, n, P, r, v)
      BY <1>2, WayDown
    <2>2. /\ e2.to \in {"none", "table", "page"}
          /\ e2.to = "table" => e1.to \in {"none", "table", "page"}
      BY <2>1, Zenon DEF OnWay
    <2>3. CASE e2.to = "none"
      BY <1>2, <2>3 DEF LookupIn, Find
    <2>4. CASE e2.to = "page"
      BY <1>2, <2>4, Zenon DEF LookupIn, Find
    <2>5. CASE e2.to = "table" /\ e1.to = "none"
      BY <1>2, <2>5 DEF LookupIn, Find
    <2>6. CASE e2.to = "table" /\ e1.to = "page"
      BY <1>2, <2>6 DEF LookupIn, Find
    <2>7. CASE e2.to = "table" /\ e1.to = "table"
      BY <1>2, <2>7, Zenon DEF LookupIn, Find
    <2> QED
      BY <2>2, <2>3, <2>4, <2>5, <2>6, <2>7
  <1> QED
    BY <1>1, <1>2

LEMMA LookupNow ==
  ASSUME IInv, NEW s \in Space, NEW v \in Vpn
  PROVE  Lookup(s, v) = IF root[s] = 0 THEN Fault ELSE Find(mem, root[s], v)
  <1>1. PICK P : Good(P)
    BY DEF IInv
  <1>2. Shape(mem, used, P) /\ (root[s] = 0 \/ (root[s] \in 1..used /\ P[root[s]].level = 2))
    BY <1>1, RootFacts DEF Good
  <1>3. LookupIn(mem, root[s], v) = IF root[s] = 0 THEN Fault ELSE Find(mem, root[s], v)
    BY <1>2, LookupFinds
  <1> QED
    BY <1>3, Zenon DEF Lookup, LookupIn

LEMMA LookupThen ==
  ASSUME IInv', NEW s \in Space, NEW v \in Vpn
  PROVE  Lookup(s, v)' = IF root'[s] = 0 THEN Fault ELSE Find(mem', root'[s], v)
  <1>1. PICK P : Good(P)'
    BY DEF IInv
  <1>2. /\ Shape(mem', used', P) /\ root'[s] \in 0..used'
        /\ root'[s] # 0 => P[root'[s]].level = 2
    BY <1>1 DEF Good, Rooted
  <1>3. used' \in Nat
    BY <1>2, ShapeFacts
  <1>4. root'[s] = 0 \/ (root'[s] \in 1..used' /\ P[root'[s]].level = 2)
    BY <1>2, <1>3
  <1>5. LookupIn(mem', root'[s], v) = IF root'[s] = 0 THEN Fault ELSE Find(mem', root'[s], v)
    BY <1>2, <1>4, LookupFinds
  <1> QED
    BY <1>5, Zenon DEF Lookup, LookupIn

LEMMA KernelThere == IInv => KernelStays
  <1> SUFFICES ASSUME IInv, enabled
               PROVE  /\ root[satp] # 0
                      /\ \A s \in Space, v \in KernelVa : root[s] # 0 => Lookup(s, v) = v
    BY DEF KernelStays
  <1>1. Progress /\ KernelFound
    BY DEF IInv, Good
  <1>2. root[satp] # 0 /\ todo = {} /\ root[Kas] # 0
    BY <1>1 DEF Progress
  <1>3. ASSUME NEW s \in Space, NEW v \in KernelVa, root[s] # 0
        PROVE  Lookup(s, v) = v
    <2>1. Find(mem, root[s], v) = v
      BY <1>1, <1>2, <1>3 DEF KernelFound, Space
    <2> QED
      BY <1>3, <2>1, LookupNow, SmallPages
  <1> QED
    BY <1>2, <1>3

\* The kernel's pages are mapped one to one in every space, however many are made and
\* whatever is mapped in any of them, whichever tables they share with user pages.
THEOREM KernelIsMapped == Spec => []KernelStays
  BY KernelThere, Invariance, PTL

-----------------------------------------------------------------------------
(* The tables implement independent spaces.                                *)

Virtual == KernelVa \cup UserVa

\* The abstract state.
Made == IF enabled THEN {s \in Space : root[s] # 0} ELSE {}
Tr   == [s \in Space |-> [v \in Virtual |-> IF enabled THEN Lookup(s, v) ELSE Fault]]

\* What space s finds for page v, once there is translation.
Value(s, v) == IF enabled /\ root[s] # 0 THEN Find(mem, root[s], v) ELSE Fault

LEMMA TrNow == IInv => Tr = [s \in Space |-> [v \in Virtual |-> Value(s, v)]]
  <1> SUFFICES ASSUME IInv
               PROVE  Tr = [s \in Space |-> [v \in Virtual |-> Value(s, v)]]
    OBVIOUS
  <1>1. ASSUME NEW s \in Space, NEW v \in Virtual
        PROVE  (IF enabled THEN Lookup(s, v) ELSE Fault) = Value(s, v)
    BY LookupNow, SmallPages DEF Virtual, Value
  <1> QED
    BY <1>1 DEF Tr

LEMMA TrThen == IInv' => Tr' = [s \in Space |-> [v \in Virtual |-> Value(s, v)']]
  <1> SUFFICES ASSUME IInv'
               PROVE  Tr' = [s \in Space |-> [v \in Virtual |-> Value(s, v)']]
    OBVIOUS
  <1>1. ASSUME NEW s \in Space, NEW v \in Virtual
        PROVE  (IF enabled' THEN Lookup(s, v)' ELSE Fault) = Value(s, v)'
    BY LookupThen, SmallPages DEF Virtual, Value
  <1> QED
    BY <1>1 DEF Tr

\* A step that changes no value and makes no space is a stutter.
LEMMA Stutter ==
  ASSUME IInv, IInv', UNCHANGED Made,
         \A s \in Space, v \in Virtual : Value(s, v)' = Value(s, v)
  PROVE  UNCHANGED <<Made, Tr>>
  BY TrNow, TrThen

\* The kernel finds its own pages, and nothing at a user page.
LEMMA KernelValues ==
  ASSUME NEW P, Good(P), RootsApart, todo = {}, root[Kas] # 0, NEW v \in Virtual
  PROVE  Find(mem, root[Kas], v) = IF v \in KernelVa THEN v ELSE Fault
  <1>1. CASE v \in KernelVa
    BY <1>1 DEF Good, KernelFound
  <1>2. CASE v \in UserVa \ KernelVa
    <2>1. mem[root[Kas]][v[1]].to = "none"
      BY <1>2 DEF Good, Apart, Space
    <2> QED
      BY <1>2, <2>1 DEF Find
  <1> QED
    BY <1>1, <1>2 DEF Virtual

\* A walk in space s changes what s finds for its page, and nothing else.
LEMMA WalkIsLocal ==
  ASSUME NEW P, NEW Q, Good(P), Apart(P), NEW s \in Space, root[s] # 0, NEW v \in Vpn, v[1] \in Idx,
         NEW p, Walked(mem, used, P, root[s], v[1], mem', used', Q),
         Mapped(mem, used, P, root[s], v, p, mem', used', Q), UNCHANGED root,
         \/ s = Kas /\ \A u \in UserVa : u[1] # v[1]
         \/ s \in User /\ v \in UserVa /\ OwnTable(mem, P, root[s], v[1], mem', Q),
         NEW t \in Space, root[t] # 0, NEW u \in Virtual, Find(mem, root[t], u) # Fault \/ u \in UserVa,
         Find(mem', root[t], u) # Find(mem, root[t], u)
  PROVE  t = s /\ u = v /\ s \in User
  <1>1. root[t] \in 1..used /\ P[root[t]].level = 2 /\ u \in Vpn
    BY RootFacts, SmallPages DEF Virtual
  <1>2. /\ u = v /\ Find(mem, root[t], u) = Fault
        /\ mem'[root[t]][v[1]].to = "table" /\ mem'[root[s]][v[1]].to = "table"
        /\ Q[mem'[root[t]][v[1]].at].of = Q[mem'[root[s]][v[1]].at].of
    BY <1>1 DEF Mapped
  <1>3. u \in UserVa /\ s \in User /\ Apart(Q)'
    BY <1>2, ApartStays
  <1>4. /\ Q[mem'[root[t]][v[1]].at].of = t
        /\ Q[mem'[root[s]][v[1]].at].of = s
    BY <1>2, <1>3, SmallPages, Zenon DEF Apart
  <1> QED
    BY <1>2, <1>3, <1>4

\* The abstract steps.
LEMMA EnableIsVmeInit ==
  ASSUME NEW P, Good(P), IInv, IInv', RootsApart, Enable
  PROVE  Spaces!VmeInit
  <1>1. /\ root[Kas] # 0 /\ todo = {} /\ ~enabled /\ enabled' = TRUE
        /\ UNCHANGED <<mem, used, root, todo>>
    BY DEF Enable
  <1>2. Kas \in Space /\ \A s \in Space : s # Kas => root[s] = 0
    BY <1>1 DEF Good, Progress, Space
  <1>3. Made = {} /\ Made' = {Kas}
    BY <1>1, <1>2 DEF Made
  <1>4. \A s \in Space, v \in Virtual :
          /\ Value(s, v) = Fault
          /\ Value(s, v)' = IF s = Kas THEN IF v \in KernelVa THEN v ELSE Fault ELSE Fault
    BY <1>1, <1>2, KernelValues DEF Value
  <1>5. Tr' = [Tr EXCEPT ![Kas] = [v \in Virtual |-> IF v \in KernelVa THEN v ELSE Fault]]
    BY <1>2, <1>4, TrNow, TrThen
  <1> QED
    BY <1>3, <1>5 DEF Spaces!VmeInit, Spaces!Identity, Made, Tr, Virtual

LEMMA ProtectIsProtect ==
  ASSUME NEW P, Good(P), IInv, IInv', RootsApart, NEW s \in User, Protect(s)
  PROVE  Spaces!Protect(s)
  <1>1. /\ enabled /\ enabled' /\ root[s] = 0 /\ used < MaxTables
        /\ mem' = WithRoot(mem, used, mem[root[Kas]]) /\ used' = used + 1
        /\ root' = [root EXCEPT ![s] = used + 1] /\ todo' = todo
    BY DEF Protect, WithRoot
  <1>2. Kas \in Space /\ s \in Space /\ s # Kas /\ root[Kas] # 0 /\ todo = {}
    BY <1>1, VmeAssumption DEF Space, Good, Progress
  <1>3. Shape(mem, used, P) /\ root[Kas] \in 1..used /\ P[root[Kas]].level = 2
    BY <1>2, RootFacts DEF Good
  <1>4. used \in Nat /\ \A t \in 1..used : t \in Frame /\ t # used + 1
    BY <1>3, ShapeFacts
  <1>5. used + 1 \in Frame /\ used + 1 # 0
    BY <1>1, <1>4, VmeAssumption DEF Frame
  <1>6. mem'[used + 1] = mem[root[Kas]] /\ \A t \in 1..used : mem'[t] = mem[t]
    BY <1>1, <1>3, <1>4, <1>5 DEF WithRoot, Shape, Memory
  <1>7. root'[s] = used + 1 /\ \A t \in Space : t # s => root'[t] = root[t]
    BY <1>1, <1>2 DEF Good, Rooted
  <1>8. \A v \in Vpn : Find(mem', used + 1, v) = Find(mem, root[Kas], v)
    <2>1. /\ \A t \in 1..used, k \in Idx : mem'[t][k] = mem[t][k]
          /\ \A k \in Idx : mem'[used + 1][k] = mem[root[Kas]][k]
      BY <1>6
    <2> QED
      BY <1>3, <2>1, CopyFinds
  <1>9. \A t \in Space, v \in Vpn : t # s /\ root[t] # 0 =>
          Find(mem', root[t], v) = Find(mem, root[t], v)
    <2> SUFFICES ASSUME NEW t \in Space, NEW v \in Vpn, root[t] # 0
                 PROVE  Find(mem', root[t], v) = Find(mem, root[t], v)
      OBVIOUS
    <2>1. root[t] \in 1..used /\ P[root[t]].level = 2
      BY RootFacts
    <2>2. /\ \A x \in 1..used, k \in Idx : mem'[x][k] = mem[x][k]
          /\ \A k \in Idx : mem'[root[t]][k] = mem[root[t]][k]
      BY <1>6, <2>1
    <2> QED
      BY <1>3, <2>1, <2>2, CopyFinds
  <1>10. \A t \in Space, v \in Virtual :
           Value(t, v)' = IF t = s THEN IF v \in KernelVa THEN v ELSE Fault ELSE Value(t, v)
    <2> SUFFICES ASSUME NEW t \in Space, NEW v \in Virtual
                 PROVE  Value(t, v)' = IF t = s THEN IF v \in KernelVa THEN v ELSE Fault
                                                ELSE Value(t, v)
      OBVIOUS
    <2>1. v \in Vpn
      BY SmallPages DEF Virtual
    <2>2. CASE t = s
      BY <1>1, <1>2, <1>5, <1>7, <1>8, <2>1, <2>2, KernelValues DEF Value
    <2>3. CASE t # s
      BY <1>1, <1>7, <1>9, <2>1, <2>3 DEF Value
    <2> QED
      BY <2>2, <2>3
  <1>11. Tr' = [Tr EXCEPT ![s] = [v \in Virtual |-> IF v \in KernelVa THEN v ELSE Fault]]
    BY <1>2, <1>10, TrNow, TrThen
  <1>12. Made' = Made \cup {s} /\ Kas \in Made /\ s \notin Made
    BY <1>1, <1>2, <1>5, <1>7 DEF Made
  <1> QED
    BY <1>11, <1>12 DEF Spaces!Protect, Spaces!Identity, Made, Tr, Virtual

LEMMA MapUserIsMap ==
  ASSUME NEW P, Good(P), IInv, IInv', RootsApart,
         NEW s \in User, NEW v \in UserVa, NEW p \in Pa, MapUser(s, v, p)
  PROVE  Spaces!Map(s, v, p) \/ UNCHANGED <<Made, Tr>>
  <1>1. /\ enabled /\ root[s] # 0 /\ used + 2 <= MaxTables /\ Becomes(Walk4K(s, v, p))
        /\ UNCHANGED <<root, todo, enabled, satp>>
    BY DEF MapUser
  <1>2. v \in Vpn /\ Small(v) /\ p \in Target /\ s \in Space /\ v[1] \in Idx /\ v \in Virtual
    BY SmallPages DEF Target, Space, Vpn, Virtual
  <1>3. PICK Q : /\ Walked(mem, used, P, root[s], v[1], mem', used', Q)
                 /\ OwnTable(mem, P, root[s], v[1], mem', Q)
                 /\ Mapped(mem, used, P, root[s], v, p, mem', used', Q)
    BY <1>1, <1>2, WalkStep
  <1>4. \A u \in KernelVa, t \in Space : root[t] # 0 => Find(mem, root[t], u) # Fault
    BY <1>1, VmeAssumption DEF Good, Progress, KernelFound, Space
  <1>5. ASSUME NEW t \in Space, NEW u \in Virtual, ~(t = s /\ u = v)
        PROVE  Value(t, u)' = Value(t, u)
    <2>1. root[t] # 0 => Find(mem', root[t], u) = Find(mem, root[t], u)
      <3> SUFFICES ASSUME root[t] # 0, Find(mem', root[t], u) # Find(mem, root[t], u)
                   PROVE  FALSE
        OBVIOUS
      <3>1. Find(mem, root[t], u) # Fault \/ u \in UserVa
        BY <1>4 DEF Virtual
      <3>2. Apart(P) /\ root[s] # 0 /\ UNCHANGED root
        BY <1>1 DEF Good
      <3>3. s \in User /\ v \in UserVa /\ OwnTable(mem, P, root[s], v[1], mem', Q)
        BY <1>3
      <3>4. t = s /\ u = v
        BY <1>2, <1>3, <3>1, <3>2, <3>3, WalkIsLocal, Z3T(30)
      <3> QED
        BY <1>5, <3>4
    <2> QED
      BY <1>1, <2>1 DEF Value
  <1>6. Made' = Made /\ s \in Made
    BY <1>1, <1>2 DEF Made
  <1>7. CASE Value(s, v) # Fault
    <2>1. root[s] \in 1..used /\ P[root[s]].level = 2
      BY <1>1, <1>2, RootFacts
    <2>2. Value(s, v)' = Value(s, v)
      BY <1>1, <1>2, <1>3, <1>7, <2>1 DEF Value, Mapped
    <2> QED
      BY <1>5, <1>6, <2>2, Stutter
  <1>8. CASE Value(s, v) = Fault
    <2>1. Value(s, v)' = p
      BY <1>1, <1>3, <1>8 DEF Value, Mapped
    <2>2. Tr' = [Tr EXCEPT ![s][v] = p]
      BY <1>2, <1>5, <2>1, TrNow, TrThen
    <2>3. Tr[s][v] = Fault
      BY <1>2, <1>8, TrNow
    <2> QED
      BY <1>6, <2>2, <2>3 DEF Spaces!Map, Made, Tr, Virtual
  <1> QED
    BY <1>7, <1>8

\* What the kernel maps later, no kernel page and no user page sees.
LEMMA MapExtraIsHidden ==
  ASSUME NEW P, Good(P), IInv, IInv', RootsApart, NEW v \in ExtraVa, NEW p \in Pa, MapExtra(v, p)
  PROVE  UNCHANGED <<Made, Tr>>
  <1>1. /\ enabled /\ used + 2 <= MaxTables /\ Becomes(Walk4K(Kas, v, p))
        /\ UNCHANGED <<root, todo, enabled, satp>>
    BY DEF MapExtra
  <1>2. /\ v \in Vpn /\ Small(v) /\ p \in Target /\ Kas \in Space /\ v[1] \in Idx
        /\ root[Kas] # 0 /\ Kas \notin User /\ \A u \in UserVa : u[1] # v[1]
    BY <1>1, SmallPages, VmeAssumption DEF Target, Space, Vpn, Good, Progress, RootsApart
  <1>3. PICK Q : /\ Walked(mem, used, P, root[Kas], v[1], mem', used', Q)
                 /\ Mapped(mem, used, P, root[Kas], v, p, mem', used', Q)
    BY <1>1, <1>2, WalkStep
  <1>4. \A u \in KernelVa, t \in Space : root[t] # 0 => Find(mem, root[t], u) # Fault
    BY <1>1, VmeAssumption DEF Good, Progress, KernelFound, Space
  <1>5. ASSUME NEW t \in Space, NEW u \in Virtual
        PROVE  Value(t, u)' = Value(t, u)
    <2>1. root[t] # 0 => Find(mem', root[t], u) = Find(mem, root[t], u)
      BY <1>1, <1>2, <1>3, <1>4, WalkIsLocal, SMTT(30) DEF Good, Virtual
    <2> QED
      BY <1>1, <2>1 DEF Value
  <1> QED
    BY <1>1, <1>5, Stutter DEF Made

LEMMA MapHugeIsHidden ==
  ASSUME NEW P, Good(P), IInv, IInv', NEW h \in HugeVa, NEW p \in Pa, MapHuge(h, p)
  PROVE  UNCHANGED <<Made, Tr>>
  <1>1. /\ enabled /\ used + 1 <= MaxTables /\ UNCHANGED <<root, todo, enabled, satp>>
        /\ Becomes(IF h \in Idx \X Idx THEN Walk2M(Kas, h, p) ELSE Walk1G(Kas, h, p))
    BY DEF MapHuge
  <1>2. root[Kas] # 0 /\ p \in Target
    BY <1>1 DEF Target, Good, Progress
  <1>3. PICK Q : HugeWalked(mem, used, P, root[Kas], h[1], mem', used', Q)
    BY <1>1, <1>2, HugeStep
  <1>4. ASSUME NEW t \in Space, NEW u \in Virtual
        PROVE  Value(t, u)' = Value(t, u)
    <2>1. u \in Vpn /\ Small(u)
      BY SmallPages DEF Virtual
    <2>2. root[t] # 0 => Find(mem', root[t], u) = Find(mem, root[t], u)
      BY <1>3, <2>1, RootFacts DEF HugeWalked
    <2> QED
      BY <1>1, <2>2 DEF Value
  <1> QED
    BY <1>1, <1>4, Stutter DEF Made

LEMMA StepImplements ==
  RootsApart /\ IInv /\ IInv' /\ [Next]_vars => [Spaces!Next]_(Spaces!vars)
  <1> SUFFICES ASSUME RootsApart, IInv, IInv', [Next]_vars
               PROVE  Spaces!Next \/ UNCHANGED <<Made, Tr>>
    BY DEF Spaces!vars, Made, Tr, Virtual
  <1>1. PICK P : Good(P)
    BY DEF IInv
  <1>2. ASSUME ~enabled, ~enabled'
        PROVE  UNCHANGED <<Made, Tr>>
    BY <1>2 DEF Made, Tr
  <1>3. ASSUME UNCHANGED <<mem, root, enabled>>
        PROVE  UNCHANGED <<Made, Tr>>
    BY <1>3, Stutter DEF Made, Value
  <1>4. CASE UNCHANGED vars
    BY <1>3, <1>4 DEF vars
  <1>5. CASE KernelRoot
    BY <1>1, <1>2, <1>5 DEF KernelRoot, Good, Progress
  <1>6. CASE Enable
    BY <1>1, <1>6, EnableIsVmeInit DEF Spaces!Next
  <1>7. ASSUME NEW v \in KernelVa, MapSegment(v)
        PROVE  UNCHANGED <<Made, Tr>>
    BY <1>1, <1>2, <1>7 DEF MapSegment, Good, Progress
  <1>8. ASSUME NEW s \in User, Protect(s)
        PROVE  Spaces!Next
    BY <1>1, <1>8, ProtectIsProtect DEF Spaces!Next
  <1>9. ASSUME NEW s \in User, NEW v \in UserVa, NEW p \in Pa, MapUser(s, v, p)
        PROVE  Spaces!Next \/ UNCHANGED <<Made, Tr>>
    BY <1>1, <1>9, MapUserIsMap DEF Spaces!Next
  <1>10. ASSUME NEW v \in ExtraVa, NEW p \in Pa, MapExtra(v, p)
         PROVE  UNCHANGED <<Made, Tr>>
    BY <1>1, <1>10, MapExtraIsHidden
  <1>11. ASSUME NEW h \in HugeVa, NEW p \in Pa, MapHuge(h, p)
         PROVE  UNCHANGED <<Made, Tr>>
    BY <1>1, <1>11, MapHugeIsHidden
  <1>12. ASSUME NEW s \in Space, Trap(s)
         PROVE  UNCHANGED <<Made, Tr>>
    BY <1>3, <1>12 DEF Trap
  <1> QED
    BY <1>4, <1>5, <1>6, <1>7, <1>8, <1>9, <1>10, <1>11, <1>12 DEF Next

LEMMA InitImplements == Init => Spaces!Init
  BY DEF Init, Spaces!Init, Space

\* Where user pages have root entries of their own, as in the NEMU layout, the tables behave
\* as independent spaces: a space starts with the kernel's pages alone, and _map adds a page
\* to one space and replaces none.
THEOREM Implements ==
  ASSUME RootsApart
  PROVE  Spec => SpacesSpec
  <1>1. Spec => Spaces!Init /\ [][Spaces!Next]_(Spaces!vars)
    BY RootsApart, InitImplements, StepImplements, Invariance, PTL DEF Spec
  <1> QED
    BY <1>1 DEF SpacesSpec, Spaces!Spec

-----------------------------------------------------------------------------
(* Protected spaces do not see each other's user pages.                    *)

\* What a step of the abstract spaces does to one space.
LEMMA AbstractStepIsLocal ==
  ASSUME IInv, IInv', Spaces!Next, NEW s \in User, NEW t \in User,
         NEW u \in UserVa, NEW v \in UserVa, root[s] # 0, root[t] # 0,
         Lookup(s, u)' # Lookup(s, u), Lookup(t, v)' # Lookup(t, v), enabled, enabled'
  PROVE  s = t
  <1>1. s \in Space /\ t \in Space /\ u \in Virtual /\ v \in Virtual
    BY DEF Space, Virtual
  <1>2. /\ Tr[s][u] = Lookup(s, u) /\ Tr[t][v] = Lookup(t, v)
        /\ Tr'[s][u] = Lookup(s, u)' /\ Tr'[t][v] = Lookup(t, v)'
    BY <1>1 DEF Tr
  <1>3. s \in Made /\ t \in Made
    BY <1>1 DEF Made
  <1>4. Tr = [x \in Space |-> Tr[x]]
    BY DEF Tr
  <1>5. CASE Spaces!VmeInit
    BY <1>3, <1>5 DEF Spaces!VmeInit, Made
  <1>6. ASSUME NEW x \in User, Spaces!Protect(x)
        PROVE  FALSE
    <2>1. x \notin Made /\ \A y \in Space : y # x => Tr'[y] = Tr[y]
      BY <1>4, <1>6 DEF Spaces!Protect, Made, Tr, Virtual
    <2> QED
      BY <1>1, <1>2, <1>3, <2>1
  <1>7. ASSUME NEW x \in User, NEW w \in UserVa, NEW p \in Pa, Spaces!Map(x, w, p)
        PROVE  s = t
    <2>1. \A y \in Space : y # x => Tr'[y] = Tr[y]
      BY <1>4, <1>7 DEF Spaces!Map, Made, Tr, Virtual
    <2> QED
      BY <1>1, <1>2, <2>1
  <1> QED
    BY <1>5, <1>6, <1>7 DEF Spaces!Next

LEMMA StepIsLocal ==
  ASSUME RootsApart, IInv, IInv', Next, NEW s \in User, NEW t \in User,
         NEW u \in UserVa, NEW v \in UserVa, root[s] # 0, root[t] # 0,
         Lookup(s, u)' # Lookup(s, u), Lookup(t, v)' # Lookup(t, v)
  PROVE  s = t
  <1>1. enabled /\ enabled \in BOOLEAN
    BY DEF IInv, Good, Progress
  <1>2. enabled'
    BY <1>1 DEF Next, KernelRoot, Enable, MapSegment, Protect, MapUser, MapExtra, MapHuge, Trap
  <1>3. Spaces!Next \/ UNCHANGED <<Made, Tr>>
    BY StepImplements DEF Spaces!vars, Made, Tr, Virtual
  <1>4. CASE UNCHANGED <<Made, Tr>>
    <2>1. s \in Space /\ u \in Virtual
      BY DEF Space, Virtual
    <2>2. Tr[s][u] = Lookup(s, u) /\ Tr'[s][u] = Lookup(s, u)'
      BY <1>1, <1>2, <2>1 DEF Tr
    <2> QED
      BY <1>4, <2>2
  <1> QED
    BY <1>1, <1>2, <1>3, <1>4, AbstractStepIsLocal

\* In such a layout no step changes the user pages of two protected spaces, which it may do
\* in the riscv64-xs layout.
THEOREM UserPagesAreLocal ==
  ASSUME RootsApart
  PROVE  Spec => MapIsLocal
  <1>1. IInv /\ IInv' /\ [Next]_vars =>
          [\A s, t \in User, u, v \in UserVa :
             /\ root[s] # 0 /\ root[t] # 0
             /\ Lookup(s, u)' # Lookup(s, u) /\ Lookup(t, v)' # Lookup(t, v)
             => s = t]_vars
    BY RootsApart, StepIsLocal
  <1> QED
    BY <1>1, Invariance, PTL DEF Spec, MapIsLocal

=============================================================================
