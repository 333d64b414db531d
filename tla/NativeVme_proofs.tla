-------------------------- MODULE NativeVme_proofs --------------------------
(***************************************************************************)
(* The virtual memory of the native port with any spaces, pages, nodes and *)
(* processors: its lists are independent spaces, and, on one processor,    *)
(* the process maps what its current space does, and nothing else.         *)
(*                                                                         *)
(* All but the types is for programs that never map a page twice in a      *)
(* space, as a list with two nodes for one page breaks it (NativeRemap).   *)
(***************************************************************************)
EXTENDS NativeVme, TLAPS

-----------------------------------------------------------------------------
(* Ways along a list.                                                      *)

\* What next may be, at some moment.
Linking(f) == \A i \in Node : f[i] \in Node \cup {Nil}

LEMMA NilIsNoNode == Nil \notin Node /\ Nil \notin Space /\ Nil \notin Va /\ Nil \notin Pa
  BY NativeAssumption DEF Node

LEMMA SpacesAreNoNodes == Space \cap Node = {}
  BY NativeAssumption DEF Node

\* A way holds its first node and does not end before it has met Nil.
LEMMA ReachIsClosed ==
  ASSUME NEW f, NEW n
  PROVE  /\ Reach(f, n) \subseteq Node
         /\ n \in Node => n \in Reach(f, n)
         /\ Linking(f) => \A i \in Reach(f, n) : f[i] \in Reach(f, n) \cup {Nil}
  <1>1. Reach(f, n) \subseteq Node
    BY DEF Reach
  <1>2. n \in Node => n \in Reach(f, n)
    BY NilIsNoNode DEF Reach
  <1>3. ASSUME Linking(f), NEW i \in Reach(f, n), f[i] # Nil
        PROVE  f[i] \in Reach(f, n)
    <2>1. f[i] \in Node /\ i \in Node
      BY <1>1, <1>3 DEF Linking
    <2>2. ASSUME NEW S \in SUBSET Node, n \in S \cup {Nil}, \A j \in S : f[j] \in S \cup {Nil}
          PROVE  f[i] \in S
      BY <1>3, <2>2 DEF Reach
    <2> QED
      BY <2>1, <2>2 DEF Reach
  <1> QED
    BY <1>1, <1>2, <1>3

\* It is the smallest set to do so.
LEMMA ReachIsLeast ==
  ASSUME NEW f, NEW n, NEW S \in SUBSET Node,
         n \in S \cup {Nil}, \A i \in S : f[i] \in S \cup {Nil}
  PROVE  Reach(f, n) \subseteq S
  BY DEF Reach

LEMMA ReachNil ==
  ASSUME NEW f
  PROVE  Reach(f, Nil) = {}
  <1> DEFINE S == {}
  <1>1. S \in SUBSET Node /\ Nil \in S \cup {Nil} /\ \A i \in S : f[i] \in S \cup {Nil}
    OBVIOUS
  <1>2. Reach(f, Nil) \subseteq S
    <2> HIDE DEF S
    <2> QED
      BY <1>1, ReachIsLeast
  <1> QED
    BY <1>2

\* The first node, and the way from the next one.
LEMMA ReachStep ==
  ASSUME NEW f, Linking(f), NEW n \in Node
  PROVE  Reach(f, n) = {n} \cup Reach(f, f[n])
  <1>1. f[n] \in Node \cup {Nil}
    BY DEF Linking
  <1>2. Reach(f, n) \subseteq {n} \cup Reach(f, f[n])
    <2> DEFINE S == {n} \cup Reach(f, f[n])
    <2>1. S \in SUBSET Node /\ n \in S
      BY ReachIsClosed
    <2>2. \A i \in S : f[i] \in S \cup {Nil}
      BY <1>1, ReachIsClosed
    <2> QED
      BY <2>1, <2>2, ReachIsLeast, ZenonT(30)
  <1>3. Reach(f, f[n]) \subseteq Reach(f, n)
    <2> DEFINE S == Reach(f, n)
    <2>1. S \in SUBSET Node /\ n \in S /\ \A i \in S : f[i] \in S \cup {Nil}
      BY ReachIsClosed
    <2> QED
      BY <2>1, ReachIsLeast
  <1> QED
    BY <1>2, <1>3, ReachIsClosed

\* A store off the way does not change it.
LEMMA ReachFrame ==
  ASSUME NEW f, NEW g, NEW n, Linking(f), Linking(g), n \in Node \cup {Nil},
         \A i \in Reach(f, n) : g[i] = f[i]
  PROVE  Reach(g, n) = Reach(f, n)
  <1>1. Reach(g, n) \subseteq Reach(f, n)
    <2> DEFINE S == Reach(f, n)
    <2>1. S \in SUBSET Node /\ n \in S \cup {Nil} /\ \A i \in S : g[i] \in S \cup {Nil}
      BY ReachIsClosed
    <2> QED
      BY <2>1, ReachIsLeast
  <1>2. Reach(f, n) \subseteq Reach(g, n)
    <2> DEFINE S == Reach(g, n)
    <2>1. S \in SUBSET Node /\ n \in S \cup {Nil} /\ \A i \in S : f[i] \in S \cup {Nil}
      BY <1>1, ReachIsClosed
    <2> QED
      BY <2>1, ReachIsLeast
  <1> QED
    BY <1>1, <1>2

\* Nothing that no link points at lies on a way that does not start there.
LEMMA Unreached ==
  ASSUME NEW f, Linking(f), NEW n, n \in Node \cup {Nil}, NEW p, p # n, p # Nil,
         \A i \in Node : f[i] # p
  PROVE  p \notin Reach(f, n)
  <1> DEFINE S == Reach(f, n) \ {p}
  <1>1. S \in SUBSET Node /\ n \in S \cup {Nil} /\ \A i \in S : f[i] \in S \cup {Nil}
    BY ReachIsClosed
  <1> QED
    BY <1>1, ReachIsLeast

-----------------------------------------------------------------------------
(* The lists of the spaces, and the mappings of the process.               *)

Insertion == {"find", "link"}

\* A list is made of nodes allocated, holds a page once, and nothing of another list; the
\* node that is to be linked is on none.
ListInv ==
  /\ \A i \in Space \cup Node : next[i] \in (1..used) \cup {Nil}
  /\ \A s \in Space : \A n \in Nodes(s) : va[n] \in Va /\ pa[n] \in Pa
  /\ \A s \in Space : \A m, n \in Nodes(s) : va[m] = va[n] => m = n

\* _map on its way: the page is not on the list, and so not found.
MapInv(c) ==
  pc[c] \in Insertion =>
    /\ head[c] \in heads /\ page[c] \in Va \X Pa
    /\ \A n \in Nodes(head[c]) : va[n] # page[c][1]
    /\ pc[c] = "find" => pp[c] \in Nodes(head[c]) \cup {Nil} /\ used < MaxNodes
    /\ pc[c] = "link" => /\ pp[c] = used /\ used > 0
                         /\ \A i \in Space \cup Node : next[i] # used

\* mm[c] maps what S holds of the list of h, and nothing else.
NoOther(c, h)   == \A v \in Va : mm[c][v] # Nil =>
                     \E n \in Nodes(h) : mapped[n] /\ va[n] = v /\ pa[n] = mm[c][v]
InForce(c, S)   == \A n \in S : mapped[n] /\ mm[c][va[n]] = pa[n]

\* __am_switch on its way: what it has passed of the old list is unmapped, what it has
\* passed of the new one is in force.
SwitchInv(c) ==
  /\ pc[c] \in {"idle", "unmap"} \cup Insertion => NoOther(c, vmHead[c])
  /\ pc[c] \in {"idle"} \cup Insertion => InForce(c, Nodes(vmHead[c]))
  /\ pc[c] \in {"unmap", "enforce"} => head[c] \in heads \cup {Nil}
  /\ pc[c] = "unmap" => /\ pp[c] \in Nodes(vmHead[c]) \cup {Nil}
                        /\ \A n \in Nodes(vmHead[c]) : mapped[n] => n \in Reach(next, pp[c])
  /\ pc[c] = "enforce" => /\ pp[c] \in Nodes(head[c]) \cup {Nil}
                          /\ NoOther(c, head[c])
                          /\ InForce(c, Nodes(head[c]) \ Reach(next, pp[c]))

VmeInv == TypeOK /\ ListInv /\ \A c \in Cpu : MapInv(c) /\ SwitchInv(c)

\* NoStale and Enforced need it: another processor's switch resets is_mapped (NativeSmp).
OneProcessor == \A c, d \in Cpu : c = d

LEMMA NodesOfNil == Nodes(Nil) = {}
  BY ReachNil DEF Nodes, First

LEMMA TypesLink ==
  ASSUME TypeOK
  PROVE  /\ Linking(next)
         /\ \A h \in Space \cup {Nil} : First(h) \in Node \cup {Nil} /\ Nodes(h) \subseteq Node
  BY ReachIsClosed DEF TypeOK, Linking, First, Nodes

LEMMA VmeInitInv == Init => VmeInv
  <1> SUFFICES ASSUME Init
               PROVE  VmeInv
    OBVIOUS
  <1>1. \A h \in Space \cup {Nil} : Nodes(h) = {}
    BY ReachNil DEF Init, Nodes, First
  <1>2. TypeOK
    <2>1. used \in 0..MaxNodes
      BY NativeAssumption DEF Init
    <2> QED
      BY <2>1 DEF Init, TypeOK
  <1>3. ListInv
    BY <1>1 DEF Init, ListInv
  <1>4. ASSUME NEW c \in Cpu
        PROVE  MapInv(c) /\ SwitchInv(c)
    BY <1>1 DEF Init, MapInv, SwitchInv, Insertion, NoOther, InForce
  <1> QED
    BY <1>2, <1>3, <1>4 DEF VmeInv

-----------------------------------------------------------------------------
(* Steps.                                                                  *)

\* A step that leaves the lists alone.
LEMMA SameLists ==
  ASSUME UNCHANGED list
  PROVE  /\ \A h : Nodes(h)' = Nodes(h)
         /\ \A h : First(h)' = First(h)
         /\ \A n : Reach(next', n) = Reach(next, n)
         /\ UNCHANGED <<used, next, va, pa>>
         /\ ListInv => ListInv'
  BY DEF list, Nodes, First, ListInv

LEMMA SwitchStep ==
  ASSUME OneProcessor, VmeInv, NEW c \in Cpu, NEW h \in heads \cup {Nil}, Switch(c, h)
  PROVE  VmeInv'
  <1>1. UNCHANGED <<enabled, heads, list, mapped, vmHead, mm, page>>
    BY DEF Switch
  <1>2. /\ pc[c] = "idle" /\ pc' = [pc EXCEPT ![c] = "unmap"]
        /\ pp' = [pp EXCEPT ![c] = First(vmHead[c])]
        /\ head' = [head EXCEPT ![c] = h]
    BY DEF Switch, At
  <1>3. vmHead[c] \in Space \cup {Nil} /\ h \in Space \cup {Nil}
    BY DEF VmeInv, TypeOK
  <1>4. TypeOK'
    BY <1>1, <1>2, <1>3, TypesLink DEF VmeInv, TypeOK, list
  <1>5. ListInv'
    BY <1>1, SameLists DEF VmeInv
  <1>6. pc'[c] = "unmap" /\ pp'[c] = First(vmHead[c]) /\ head'[c] = h
    BY <1>2 DEF VmeInv, TypeOK
  <1>7. MapInv(c)'
    BY <1>6 DEF MapInv, Insertion
  <1>8. First(vmHead[c]) \in Nodes(vmHead[c]) \cup {Nil}
    BY <1>3, TypesLink, ReachIsClosed DEF VmeInv, Nodes
  <1>9. \A n \in Nodes(vmHead[c]) : n \in Reach(next, pp'[c])
    BY <1>6 DEF Nodes
  <1>10. SwitchInv(c)'
    <2>1. NoOther(c, vmHead[c])
      BY <1>2 DEF VmeInv, SwitchInv
    <2>2. NoOther(c, vmHead[c])'
      BY <1>1, <2>1, SameLists DEF NoOther
    <2> QED
      BY <1>1, <1>6, <1>8, <1>9, <2>2, SameLists DEF SwitchInv, Insertion
  <1> QED
    BY <1>4, <1>5, <1>7, <1>10, OneProcessor DEF VmeInv, OneProcessor

LEMMA UnmapStep ==
  ASSUME OneProcessor, VmeInv, NEW c \in Cpu, Unmap(c)
  PROVE  VmeInv'
  <1> DEFINE p == pp[c]
             h == vmHead[c]
  <1>1. UNCHANGED <<enabled, heads, list, vmHead, head, page>>
    BY DEF Unmap
  <1>2. /\ pc[c] = "unmap" /\ p # Nil
        /\ pc' = [pc EXCEPT ![c] = "unmap"] /\ pp' = [pp EXCEPT ![c] = next[p]]
        /\ IF mapped[p] THEN /\ mm' = [mm EXCEPT ![c][va[p]] = Nil]
                             /\ mapped' = [mapped EXCEPT ![p] = FALSE]
                        ELSE UNCHANGED <<mm, mapped>>
    BY DEF Unmap, At
  <1>3. h \in Space \cup {Nil} /\ p \in Nodes(h) /\ p \in Node
    BY <1>2, TypesLink DEF VmeInv, TypeOK, SwitchInv
  <1>4. Reach(next, p) = {p} \cup Reach(next, next[p]) /\ next[p] \in Nodes(h) \cup {Nil}
    BY <1>3, TypesLink, ReachStep, ReachIsClosed DEF VmeInv, Nodes
  <1>5. TypeOK'
    <2>1. next[p] \in Node \cup {Nil}
      BY <1>3 DEF VmeInv, TypeOK
    <2>2. mm' \in [Cpu -> [Va -> Pa \cup {Nil}]]
      <3>1. mm \in [Cpu -> [Va -> Pa \cup {Nil}]] /\ mm[c] \in [Va -> Pa \cup {Nil}]
        BY DEF VmeInv, TypeOK
      <3>2. [mm[c] EXCEPT ![va[p]] = Nil] \in [Va -> Pa \cup {Nil}]
        BY <3>1
      <3> QED
        BY <1>2, <3>1, <3>2
    <2>3. mapped' \in [Node -> BOOLEAN]
      BY <1>2 DEF VmeInv, TypeOK
    <2> QED
      BY <1>1, <1>2, <2>1, <2>2, <2>3 DEF VmeInv, TypeOK, list
  <1>6. ListInv'
    BY <1>1, SameLists DEF VmeInv
  <1>7. pc'[c] = "unmap" /\ pp'[c] = next[p]
    BY <1>2 DEF VmeInv, TypeOK
  <1>8. MapInv(c)'
    BY <1>7 DEF MapInv, Insertion
  <1>9. NoOther(c, h)'
    <2> SUFFICES ASSUME NEW v \in Va, mm'[c][v] # Nil
                 PROVE  \E n \in Nodes(h) : mapped'[n] /\ va[n] = v /\ pa[n] = mm'[c][v]
      BY <1>1, SameLists DEF NoOther
    <2>1. mm'[c][v] = mm[c][v] /\ (mapped[p] => v # va[p])
      BY <1>2 DEF VmeInv, TypeOK
    <2>2. PICK n \in Nodes(h) : mapped[n] /\ va[n] = v /\ pa[n] = mm[c][v]
      BY <1>2, <2>1 DEF VmeInv, SwitchInv, NoOther
    <2>3. mapped'[n] /\ n \in Node
      BY <1>2, <1>3, <2>1, <2>2, TypesLink DEF VmeInv, TypeOK
    <2> QED
      BY <2>1, <2>2, <2>3
  <1>10. ASSUME NEW n \in Nodes(h), mapped'[n]
         PROVE  n \in Reach(next, next[p])
    <2>1. n \in Node /\ n # p /\ mapped[n]
      BY <1>2, <1>3, <1>10, TypesLink DEF VmeInv, TypeOK
    <2>2. n \in Reach(next, p)
      BY <1>2, <2>1 DEF VmeInv, SwitchInv
    <2> QED
      BY <1>4, <2>1, <2>2
  <1>11. SwitchInv(c)'
    <2>1. head'[c] \in heads' \cup {Nil}
      BY <1>1, <1>2 DEF VmeInv, SwitchInv
    <2>2. /\ pp'[c] \in Nodes(vmHead[c])' \cup {Nil}
          /\ \A n \in Nodes(vmHead[c])' : mapped'[n] => n \in Reach(next', pp'[c])
      BY <1>1, <1>4, <1>7, <1>10, SameLists
    <2>3. NoOther(c, vmHead[c])'
      BY <1>1, <1>9
    <2> QED
      BY <1>7, <2>1, <2>2, <2>3 DEF SwitchInv, Insertion
  <1> QED
    BY <1>5, <1>6, <1>8, <1>11, OneProcessor DEF VmeInv, OneProcessor

LEMMA UnmapDoneStep ==
  ASSUME OneProcessor, VmeInv, NEW c \in Cpu, UnmapDone(c)
  PROVE  VmeInv'
  <1>1. UNCHANGED <<enabled, heads, list, mapped, vmHead, mm, head, page>>
    BY DEF UnmapDone
  <1>2. /\ pc[c] = "unmap" /\ pp[c] = Nil
        /\ pc' = [pc EXCEPT ![c] = "enforce"] /\ pp' = [pp EXCEPT ![c] = First(head[c])]
    BY DEF UnmapDone, At
  <1>3. head[c] \in heads \cup {Nil} /\ head[c] \in Space \cup {Nil}
    BY <1>2 DEF VmeInv, TypeOK, SwitchInv
  <1>4. First(head[c]) \in Node \cup {Nil} /\ First(head[c]) \in Nodes(head[c]) \cup {Nil}
    BY <1>3, TypesLink, ReachIsClosed DEF VmeInv, Nodes
  <1>5. TypeOK'
    BY <1>1, <1>2, <1>4 DEF VmeInv, TypeOK, list
  <1>6. ListInv'
    BY <1>1, SameLists DEF VmeInv
  <1>7. pc'[c] = "enforce" /\ pp'[c] = First(head[c]) /\ head' = head
    BY <1>1, <1>2 DEF VmeInv, TypeOK
  <1>8. MapInv(c)'
    BY <1>7 DEF MapInv, Insertion
  \* Nothing is mapped any more.
  <1>9. \A v \in Va : mm[c][v] = Nil
    <2>1. \A n \in Nodes(vmHead[c]) : ~mapped[n]
      BY <1>2, ReachNil DEF VmeInv, SwitchInv
    <2>2. NoOther(c, vmHead[c])
      BY <1>2 DEF VmeInv, SwitchInv
    <2> QED
      BY <2>1, <2>2 DEF NoOther
  <1>10. NoOther(c, head[c])'
    BY <1>1, <1>9 DEF NoOther
  <1>11. InForce(c, Nodes(head[c]) \ Reach(next, pp[c]))'
    BY <1>1, <1>7, SameLists DEF InForce, Nodes
  <1>12. SwitchInv(c)'
    BY <1>1, <1>3, <1>4, <1>7, <1>10, <1>11, SameLists DEF SwitchInv, Insertion
  <1> QED
    BY <1>5, <1>6, <1>8, <1>12, OneProcessor DEF VmeInv, OneProcessor

LEMMA EnforceStep ==
  ASSUME OneProcessor, VmeInv, NEW c \in Cpu, Enforce(c)
  PROVE  VmeInv'
  <1> DEFINE p == pp[c]
             h == head[c]
  <1>1. UNCHANGED <<enabled, heads, list, vmHead, head, page>>
    BY DEF Enforce
  <1>2. /\ pc[c] = "enforce" /\ p # Nil
        /\ pc' = [pc EXCEPT ![c] = "enforce"] /\ pp' = [pp EXCEPT ![c] = next[p]]
        /\ mm' = [mm EXCEPT ![c][va[p]] = pa[p]] /\ mapped' = [mapped EXCEPT ![p] = TRUE]
    BY DEF Enforce, At
  <1>3. h \in heads \cup {Nil} /\ h \in Space \cup {Nil} /\ p \in Nodes(h) /\ p \in Node
    BY <1>2, TypesLink DEF VmeInv, TypeOK, SwitchInv
  <1>4. h \in Space /\ va[p] \in Va /\ pa[p] \in Pa
    BY <1>3, NodesOfNil DEF VmeInv, ListInv
  <1>5. Reach(next, p) = {p} \cup Reach(next, next[p]) /\ next[p] \in Nodes(h) \cup {Nil}
    BY <1>3, TypesLink, ReachStep, ReachIsClosed DEF VmeInv, Nodes
  <1>6. TypeOK'
    <2>1. next[p] \in Node \cup {Nil}
      BY <1>3 DEF VmeInv, TypeOK
    <2>2. mm' \in [Cpu -> [Va -> Pa \cup {Nil}]]
      BY <1>2, <1>4 DEF VmeInv, TypeOK
    <2>3. mapped' \in [Node -> BOOLEAN]
      BY <1>2 DEF VmeInv, TypeOK
    <2> QED
      BY <1>1, <1>2, <2>1, <2>2, <2>3 DEF VmeInv, TypeOK, list
  <1>7. ListInv'
    BY <1>1, SameLists DEF VmeInv
  <1>8. pc'[c] = "enforce" /\ pp'[c] = next[p]
    BY <1>2 DEF VmeInv, TypeOK
  <1>9. MapInv(c)'
    BY <1>8 DEF MapInv, Insertion
  <1>10. /\ mm'[c][va[p]] = pa[p] /\ mapped'[p]
         /\ \A v \in Va : v # va[p] => mm'[c][v] = mm[c][v]
         /\ \A n \in Node : mapped[n] => mapped'[n]
    BY <1>2, <1>3, <1>4 DEF VmeInv, TypeOK
  <1>11. NoOther(c, h)'
    <2> SUFFICES ASSUME NEW v \in Va, mm'[c][v] # Nil
                 PROVE  \E n \in Nodes(h) : mapped'[n] /\ va[n] = v /\ pa[n] = mm'[c][v]
      BY <1>1, SameLists DEF NoOther
    <2>1. CASE v = va[p]
      BY <1>3, <1>10, <2>1
    <2>2. CASE v # va[p]
      <3>1. PICK n \in Nodes(h) : mapped[n] /\ va[n] = v /\ pa[n] = mm[c][v]
        <4>1. NoOther(c, h)
          BY <1>2 DEF VmeInv, SwitchInv
        <4>2. mm[c][v] # Nil
          BY <1>10, <2>2
        <4> QED
          BY <4>1, <4>2 DEF NoOther
      <3>2. n \in Node
        BY <1>3, TypesLink DEF VmeInv
      <3> QED
        BY <1>10, <2>2, <3>1, <3>2
    <2> QED
      BY <2>1, <2>2
  <1>12. ASSUME NEW n \in Nodes(h), n \notin Reach(next, next[p])
         PROVE  mapped'[n] /\ mm'[c][va[n]] = pa[n]
    <2>1. CASE n = p
      BY <1>10, <2>1
    <2>2. CASE n # p
      <3>1. n \notin Reach(next, p)
        BY <1>5, <1>12, <2>2
      <3>2. mapped[n] /\ mm[c][va[n]] = pa[n]
        BY <1>2, <3>1 DEF VmeInv, SwitchInv, InForce
      <3>3. n \in Node /\ va[n] \in Va /\ va[n] # va[p]
        BY <1>3, <1>4, <2>2, TypesLink DEF VmeInv, ListInv
      <3> QED
        BY <1>10, <3>2, <3>3
    <2> QED
      BY <2>1, <2>2
  <1>13. InForce(c, Nodes(head[c]) \ Reach(next, pp[c]))'
    BY <1>1, <1>8, <1>12, SameLists DEF InForce
  <1>14. NoOther(c, head[c])'
    BY <1>1, <1>11
  <1>15. SwitchInv(c)'
    BY <1>1, <1>3, <1>5, <1>8, <1>13, <1>14, SameLists DEF SwitchInv, Insertion
  <1> QED
    BY <1>6, <1>7, <1>9, <1>15, OneProcessor DEF VmeInv, OneProcessor

LEMMA EnforceDoneStep ==
  ASSUME OneProcessor, VmeInv, NEW c \in Cpu, EnforceDone(c)
  PROVE  VmeInv'
  <1>1. UNCHANGED <<enabled, heads, list, mapped, mm, head, page>>
    BY DEF EnforceDone
  <1>2. /\ pc[c] = "enforce" /\ pp[c] = Nil
        /\ pc' = [pc EXCEPT ![c] = "idle"] /\ pp' = [pp EXCEPT ![c] = Nil]
        /\ vmHead' = [vmHead EXCEPT ![c] = head[c]]
    BY DEF EnforceDone, At
  <1>3. /\ head[c] \in heads \cup {Nil} /\ NoOther(c, head[c])
        /\ InForce(c, Nodes(head[c]) \ Reach(next, pp[c]))
    BY <1>2 DEF VmeInv, SwitchInv
  <1>4. TypeOK'
    BY <1>1, <1>2, <1>3 DEF VmeInv, TypeOK, list
  <1>5. ListInv'
    BY <1>1, SameLists DEF VmeInv
  <1>6. pc'[c] = "idle" /\ vmHead'[c] = head[c]
    BY <1>2 DEF VmeInv, TypeOK
  <1>7. MapInv(c)'
    BY <1>6 DEF MapInv, Insertion
  <1>8. NoOther(c, vmHead[c])'
    BY <1>1, <1>3, <1>6, SameLists DEF NoOther
  <1>9. InForce(c, Nodes(vmHead[c]))'
    <2>1. Reach(next, pp[c]) = {}
      BY <1>2, ReachNil
    <2>2. \A n \in Nodes(head[c]) : mapped[n] /\ mm[c][va[n]] = pa[n]
      BY <1>3, <2>1 DEF InForce
    <2>3. Nodes(vmHead[c])' = Nodes(head[c])
      BY <1>1, <1>6 DEF Nodes, First, list
    <2> QED
      BY <1>1, <2>2, <2>3, SameLists DEF InForce
  <1>10. SwitchInv(c)'
    BY <1>6, <1>8, <1>9 DEF SwitchInv, Insertion
  <1> QED
    BY <1>4, <1>5, <1>7, <1>10, OneProcessor DEF VmeInv, OneProcessor

\* A step of _map that changes neither lists nor mappings leaves the switch alone.
LEMMA StillInForce ==
  ASSUME VmeInv, NEW c \in Cpu, UNCHANGED <<list, mapped, mm, vmHead>>,
         pc[c] \in {"idle"} \cup Insertion, pc'[c] \in {"idle"} \cup Insertion
  PROVE  SwitchInv(c)'
  <1>1. NoOther(c, vmHead[c]) /\ InForce(c, Nodes(vmHead[c]))
    BY DEF VmeInv, SwitchInv
  <1>2. NoOther(c, vmHead[c])' /\ InForce(c, Nodes(vmHead[c]))'
    BY <1>1, SameLists DEF NoOther, InForce
  <1> QED
    BY <1>2 DEF SwitchInv, Insertion

LEMMA MapStep ==
  ASSUME OneProcessor, VmeInv, ~Remap, NEW c \in Cpu, NEW s \in heads, NEW v \in Va, NEW p \in Pa, Map(c, s, v, p)
  PROVE  VmeInv'
  <1>1. UNCHANGED <<enabled, heads, list, mapped, vmHead, mm>>
    BY DEF Map
  <1>2. /\ pc[c] = "idle" /\ used < MaxNodes /\ \A n \in Nodes(s) : va[n] # v
        /\ head' = [head EXCEPT ![c] = s] /\ page' = [page EXCEPT ![c] = <<v, p>>]
        /\ pc' = [pc EXCEPT ![c] = "find"] /\ pp' = [pp EXCEPT ![c] = next[s]]
    BY DEF Map, At
  <1>3. s \in Space /\ First(s) = next[s]
    BY NilIsNoNode DEF VmeInv, TypeOK, First
  <1>4. next[s] \in Node \cup {Nil} /\ next[s] \in Nodes(s) \cup {Nil}
    BY <1>3, TypesLink, ReachIsClosed DEF VmeInv, Nodes
  <1>5. TypeOK'
    BY <1>1, <1>2, <1>3, <1>4 DEF VmeInv, TypeOK, list
  <1>6. ListInv'
    BY <1>1, SameLists DEF VmeInv
  <1>7. pc'[c] = "find" /\ pp'[c] = next[s] /\ head'[c] = s
    BY <1>2 DEF VmeInv, TypeOK
  <1>8. page'[c] = <<v, p>>
    BY <1>2 DEF VmeInv, TypeOK
  <1>9. MapInv(c)'
    BY <1>1, <1>2, <1>4, <1>7, <1>8, SameLists DEF MapInv, Insertion
  <1>10. SwitchInv(c)'
    BY <1>1, <1>2, <1>7, StillInForce DEF Insertion
  <1> QED
    BY <1>5, <1>6, <1>9, <1>10, OneProcessor DEF VmeInv, OneProcessor

LEMMA FindStep ==
  ASSUME OneProcessor, VmeInv, NEW c \in Cpu, Find(c)
  PROVE  VmeInv'
  <1> DEFINE p == pp[c]
             s == head[c]
  <1>1. UNCHANGED <<enabled, heads, list, mapped, vmHead, mm, head, page>> /\ pc[c] = "find"
    BY DEF Find
  <1>2. /\ s \in Space /\ p \in Nodes(s) /\ p \in Node /\ va[p] # page[c][1]
    <2>1. s \in Space /\ p \in Nodes(s)
      BY <1>1 DEF Find, VmeInv, TypeOK, MapInv, Insertion
    <2> QED
      BY <1>1, <2>1, TypesLink DEF VmeInv, MapInv, Insertion
  <1>3. pc' = [pc EXCEPT ![c] = "find"] /\ pp' = [pp EXCEPT ![c] = next[p]]
    BY <1>2 DEF Find, At
  <1>4. next[p] \in Node \cup {Nil} /\ next[p] \in Nodes(s) \cup {Nil}
    BY <1>2, TypesLink, ReachIsClosed DEF VmeInv, Nodes, Linking
  <1>5. TypeOK'
    BY <1>1, <1>3, <1>4 DEF VmeInv, TypeOK, list
  <1>6. ListInv'
    BY <1>1, SameLists DEF VmeInv
  <1>7. pc'[c] = "find" /\ pp'[c] = next[p]
    BY <1>3 DEF VmeInv, TypeOK
  <1>8. MapInv(c)'
    <2>1. MapInv(c) /\ pc[c] \in Insertion
      BY <1>1 DEF VmeInv, Insertion
    <2> QED
      BY <1>1, <1>4, <1>7, <2>1, SameLists DEF MapInv
  <1>9. SwitchInv(c)'
    BY <1>1, <1>7, StillInForce DEF Insertion
  <1> QED
    BY <1>5, <1>6, <1>8, <1>9, OneProcessor DEF VmeInv, OneProcessor

LEMMA NotFoundStep ==
  ASSUME OneProcessor, VmeInv, NEW c \in Cpu, NotFound(c)
  PROVE  VmeInv'
  <1>1. /\ UNCHANGED <<enabled, heads, next, va, pa, mapped, vmHead, mm, head, page>>
        /\ pc[c] = "find" /\ used' = used + 1
    BY DEF NotFound
  <1>2. /\ pc' = [pc EXCEPT ![c] = "link"] /\ pp' = [pp EXCEPT ![c] = used + 1]
    BY DEF NotFound, At
  <1>3. used \in 0..MaxNodes /\ used < MaxNodes /\ MaxNodes \in Nat
    BY <1>1, NativeAssumption DEF VmeInv, TypeOK, MapInv, Insertion
  <1>4. TypeOK'
    <2>1. used + 1 \in Node /\ used' \in 0..MaxNodes
      BY <1>1, <1>3 DEF Node
    <2> QED
      BY <1>1, <1>2, <2>1 DEF VmeInv, TypeOK
  <1>5. \A h : Nodes(h)' = Nodes(h)
    BY <1>1 DEF Nodes, First
  <1>6. ListInv'
    <2>1. 1..used \subseteq 1..(used + 1)
      BY <1>3
    <2> QED
      BY <1>1, <1>5, <2>1 DEF VmeInv, ListInv
  <1>7. pc'[c] = "link" /\ pp'[c] = used'
    BY <1>1, <1>2 DEF VmeInv, TypeOK
  <1>8. MapInv(c)'
    <2>1. MapInv(c) /\ pc[c] \in Insertion
      BY <1>1 DEF VmeInv, Insertion
    <2>2. used' > 0 /\ \A i \in Space \cup Node : next[i] # used'
      BY <1>1, <1>3, NativeAssumption DEF VmeInv, ListInv, Node
    <2> QED
      BY <1>1, <1>5, <1>7, <2>1, <2>2 DEF MapInv
  <1>9. SwitchInv(c)'
    <2>1. NoOther(c, vmHead[c]) /\ InForce(c, Nodes(vmHead[c]))
      BY <1>1 DEF VmeInv, SwitchInv, Insertion
    <2>2. NoOther(c, vmHead[c])' /\ InForce(c, Nodes(vmHead[c]))'
      BY <1>1, <1>5, <2>1 DEF NoOther, InForce
    <2> QED
      BY <1>7, <2>2 DEF SwitchInv, Insertion
  <1> QED
    BY <1>4, <1>6, <1>8, <1>9, OneProcessor DEF VmeInv, OneProcessor

\* The new node is the first one of its list; nothing else changes about the lists.
LEMMA LinkLists ==
  ASSUME TypeOK, ListInv, NEW c \in Cpu, MapInv(c), Link(c)
  PROVE  /\ head[c] \in Space /\ pp[c] \in Node /\ pp[c] = used
         /\ Linking(next') /\ next' \in [Space \cup Node -> Node \cup {Nil}]
         /\ \A i \in Space \cup Node : next'[i] \in (1..used) \cup {Nil}
         /\ Nodes(head[c])' = {pp[c]} \cup Nodes(head[c])
         /\ \A h \in Space \cup {Nil} : h # head[c] => Nodes(h)' = Nodes(h)
         /\ \A h \in Space \cup {Nil} : pp[c] \notin Nodes(h)
  <1> DEFINE p == pp[c]
             s == head[c]
  <1>1. /\ pc[c] = "link" /\ next' = [next EXCEPT ![p] = next[s], ![s] = p]
    BY DEF Link, Insert
  <1>2. /\ s \in Space /\ p = used /\ used > 0 /\ \A i \in Space \cup Node : next[i] # p
    BY <1>1 DEF MapInv, Insertion, TypeOK
  <1>3. p \in Node /\ p \notin Space /\ s \notin Node
    BY <1>2, NativeAssumption, SpacesAreNoNodes DEF TypeOK, Node
  <1>4. /\ next'[p] = next[s] /\ next'[s] = p
        /\ \A i \in Space \cup Node : i # p /\ i # s => next'[i] = next[i]
        /\ next' \in [Space \cup Node -> Node \cup {Nil}]
    BY <1>1, <1>2, <1>3 DEF TypeOK
  <1>5. Linking(next') /\ Linking(next)
    BY <1>4, TypesLink DEF Linking
  <1>6. \A i \in Space \cup Node : next'[i] \in (1..used) \cup {Nil}
    <2>1. p \in 1..used
      BY <1>2 DEF TypeOK
    <2>2. \A i \in Space \cup Node : next[i] \in (1..used) \cup {Nil}
      BY DEF ListInv
    <2> QED
      BY <1>2, <1>3, <1>4, <2>1, <2>2
  <1>7. ASSUME NEW n, n \in Node \cup {Nil}, n # p
        PROVE  p \notin Reach(next, n) /\ Reach(next', n) = Reach(next, n)
    <2>1. p \notin Reach(next, n)
      BY <1>2, <1>3, <1>5, <1>7, NilIsNoNode, Unreached
    <2>2. \A i \in Reach(next, n) : next'[i] = next[i]
      BY <1>3, <1>4, <2>1, ReachIsClosed
    <2> QED
      BY <1>5, <1>7, <2>1, <2>2, ReachFrame
  <1>8. ASSUME NEW h \in Space \cup {Nil}
        PROVE  p \notin Nodes(h) /\ (h # s => Nodes(h)' = Nodes(h))
    <2>1. First(h) \in Node \cup {Nil} /\ First(h) # p
      BY <1>2, <1>3, TypesLink, NilIsNoNode DEF First
    <2>2. h # s => First(h)' = First(h)
      BY <1>3, <1>4 DEF First
    <2> QED
      BY <1>7, <2>1, <2>2 DEF Nodes
  <1>9. Nodes(s)' = {p} \cup Nodes(s)
    <2>1. First(s)' = p /\ s' = s /\ First(s) = next[s] /\ next[s] \in Node \cup {Nil} /\ next[s] # p
      BY <1>2, <1>4, NilIsNoNode DEF First, Link, VmeInv, TypeOK
    <2>2. Reach(next', p) = {p} \cup Reach(next', next[s])
      BY <1>3, <1>4, <1>5, ReachStep
    <2> QED
      BY <1>7, <2>1, <2>2 DEF Nodes
  <1> QED
    BY <1>2, <1>3, <1>4, <1>5, <1>6, <1>8, <1>9

LEMMA LinkStep ==
  ASSUME OneProcessor, VmeInv, NEW c \in Cpu, Link(c)
  PROVE  VmeInv'
  <1> DEFINE p == pp[c]
             s == head[c]
             v == page[c][1]
             q == page[c][2]
             now == s = vmHead[c]
  <1>1. /\ pc[c] = "link" /\ UNCHANGED <<enabled, heads, used, vmHead, head, page>>
        /\ va' = [va EXCEPT ![p] = v] /\ pa' = [pa EXCEPT ![p] = q]
        /\ mapped' = [mapped EXCEPT ![p] = now]
        /\ mm' = IF now THEN [mm EXCEPT ![c][v] = q] ELSE mm
        /\ pc' = [pc EXCEPT ![c] = "idle"] /\ pp' = [pp EXCEPT ![c] = Nil]
    BY DEF Link, At
  <1>2. s \in heads /\ v \in Va /\ q \in Pa /\ \A n \in Nodes(s) : va[n] # v
    BY <1>1 DEF VmeInv, MapInv, Insertion
  <1>3. /\ s \in Space /\ p \in Node /\ p = used
        /\ next' \in [Space \cup Node -> Node \cup {Nil}]
        /\ \A i \in Space \cup Node : next'[i] \in (1..used) \cup {Nil}
        /\ Nodes(s)' = {p} \cup Nodes(s)
        /\ \A h \in Space \cup {Nil} : h # s => Nodes(h)' = Nodes(h)
        /\ \A h \in Space \cup {Nil} : p \notin Nodes(h)
    BY LinkLists DEF VmeInv
  <1>4. /\ va'[p] = v /\ pa'[p] = q /\ mapped'[p] = now
        /\ \A n \in Node : n # p => va'[n] = va[n] /\ pa'[n] = pa[n] /\ mapped'[n] = mapped[n]
    BY <1>1, <1>3 DEF VmeInv, TypeOK
  <1>5. /\ now => mm'[c][v] = q
        /\ \A u \in Va : u # v \/ ~now => mm'[c][u] = mm[c][u]
    BY <1>1, <1>2 DEF VmeInv, TypeOK
  <1>6. pc'[c] = "idle"
    BY <1>1 DEF VmeInv, TypeOK
  <1>7. TypeOK'
    <2>1. mm' \in [Cpu -> [Va -> Pa \cup {Nil}]]
      BY <1>1, <1>2 DEF VmeInv, TypeOK
    <2>2. mapped' \in [Node -> BOOLEAN]
      BY <1>1 DEF VmeInv, TypeOK
    <2>3. va' \in [Node -> Va \cup {Nil}] /\ pa' \in [Node -> Pa \cup {Nil}]
      BY <1>1, <1>2 DEF VmeInv, TypeOK
    <2> QED
      BY <1>1, <1>3, <2>1, <2>2, <2>3 DEF VmeInv, TypeOK
  \* Every node of a list is the new one or keeps what it says.
  <1>8. ASSUME NEW h \in Space \cup {Nil}, NEW n \in Nodes(h)'
        PROVE  \/ h = s /\ n = p
               \/ n \in Nodes(h) /\ n # p /\ n \in Node
    <2>1. Nodes(h) \subseteq Node
      BY TypesLink DEF VmeInv
    <2> QED
      BY <1>1, <1>3, <1>8, <2>1
  <1>9. ListInv'
    <2>1. \A i \in Space \cup Node : next'[i] \in (1..used') \cup {Nil}
      BY <1>1, <1>3
    <2>2. ASSUME NEW h \in Space, NEW n \in Nodes(h)'
          PROVE  va'[n] \in Va /\ pa'[n] \in Pa
      BY <1>2, <1>4, <1>8, <2>2 DEF VmeInv, ListInv
    <2>3. ASSUME NEW h \in Space, NEW m \in Nodes(h)', NEW n \in Nodes(h)', va'[m] = va'[n]
          PROVE  m = n
      <3>1. CASE m = p \/ n = p
        BY <1>2, <1>3, <1>4, <1>8, <2>3, <3>1
      <3>2. CASE m # p /\ n # p
        BY <1>4, <1>8, <2>3, <3>2 DEF VmeInv, ListInv
      <3> QED
        BY <3>1, <3>2
    <2> QED
      BY <2>1, <2>2, <2>3 DEF ListInv
  <1>10. MapInv(c)'
    BY <1>6 DEF MapInv, Insertion
  <1>11. vmHead[c] \in Space \cup {Nil} /\ vmHead' = vmHead
    BY <1>1 DEF VmeInv, TypeOK
  <1>12. NoOther(c, vmHead[c])'
    <2> SUFFICES ASSUME NEW u \in Va, mm'[c][u] # Nil
                 PROVE  \E n \in Nodes(vmHead[c])' : mapped'[n] /\ va'[n] = u /\ pa'[n] = mm'[c][u]
      BY <1>11 DEF NoOther
    <2>1. CASE now /\ u = v
      BY <1>1, <1>3, <1>4, <1>5, <1>11, <2>1, ZenonT(40)
    <2>2. CASE ~(now /\ u = v)
      <3>1. mm'[c][u] = mm[c][u]
        BY <1>5, <2>2
      <3>2. NoOther(c, vmHead[c])
        BY <1>1 DEF VmeInv, SwitchInv, Insertion
      <3>3. PICK n \in Nodes(vmHead[c]) : mapped[n] /\ va[n] = u /\ pa[n] = mm[c][u]
        BY <3>1, <3>2 DEF NoOther
      <3>4. n \in Node /\ n # p
        BY <1>3, <1>11, TypesLink DEF VmeInv
      <3>5. n \in Nodes(vmHead[c])'
        BY <1>1, <1>3, <1>11, <3>3
      <3> QED
        BY <1>4, <3>1, <3>3, <3>4, <3>5
    <2> QED
      BY <2>1, <2>2
  <1>13. InForce(c, Nodes(vmHead[c]))'
    <2> SUFFICES ASSUME NEW n \in Nodes(vmHead[c])'
                 PROVE  mapped'[n] /\ mm'[c][va'[n]] = pa'[n]
      BY DEF InForce
    <2>1. CASE vmHead[c] = s /\ n = p
      BY <1>4, <1>5, <2>1
    <2>2. CASE n \in Nodes(vmHead[c]) /\ n # p /\ n \in Node
      <3>1. mapped[n] /\ mm[c][va[n]] = pa[n]
        BY <1>1, <2>2 DEF VmeInv, SwitchInv, InForce, Insertion
      <3>2. va[n] \in Va /\ (now => va[n] # v)
        BY <1>2, <1>11, <2>2, NodesOfNil DEF VmeInv, ListInv
      <3> QED
        BY <1>4, <1>5, <2>2, <3>1, <3>2
    <2> QED
      BY <1>8, <1>11, <2>1, <2>2
  <1>14. SwitchInv(c)'
    BY <1>6, <1>12, <1>13 DEF SwitchInv, Insertion
  <1> QED
    BY <1>7, <1>9, <1>10, <1>14, OneProcessor DEF VmeInv, OneProcessor

\* A step that touches neither lists, mappings nor the processor.
LEMMA ElsewhereStep ==
  ASSUME VmeInv, UNCHANGED <<list, mapped, vmHead, mm, pc, pp, head, page>>,
         heads \subseteq heads', heads' \subseteq Space, enabled' \in BOOLEAN
  PROVE  VmeInv'
  <1>1. TypeOK'
    BY DEF VmeInv, TypeOK, list
  <1>2. ListInv'
    BY SameLists DEF VmeInv
  <1>3. ASSUME NEW c \in Cpu
        PROVE  MapInv(c)' /\ SwitchInv(c)'
    <2>1. MapInv(c) /\ SwitchInv(c)
      BY DEF VmeInv
    <2>2. MapInv(c)'
      BY <2>1, SameLists DEF MapInv
    <2>3. \A h : (NoOther(c, h) => NoOther(c, h)')
      BY SameLists DEF NoOther
    <2>4. SwitchInv(c)'
      BY <2>1, <2>3, SameLists DEF SwitchInv, NoOther, InForce
    <2> QED
      BY <2>2, <2>4
  <1> QED
    BY <1>1, <1>2, <1>3 DEF VmeInv

LEMMA VmeStepInv ==
  ASSUME OneProcessor, ~Remap, VmeInv, [Next]_vars
  PROVE  VmeInv'
  <1>1. CASE VmeInit
    BY <1>1, ElsewhereStep DEF VmeInit, VmeInv, TypeOK
  <1>2. ASSUME NEW s \in Space, Protect(s)
        PROVE  VmeInv'
    BY <1>2, ElsewhereStep DEF Protect, VmeInv, TypeOK
  <1>3. ASSUME NEW c \in Cpu, Working(c)
        PROVE  VmeInv'
    BY <1>3, UnmapStep, UnmapDoneStep, EnforceStep, EnforceDoneStep, FindStep, NotFoundStep, LinkStep
       DEF Working
  <1>4. CASE UNCHANGED vars
    BY <1>4, ElsewhereStep DEF vars, VmeInv, TypeOK
  <1> QED
    BY <1>1, <1>2, <1>3, <1>4, SwitchStep, MapStep DEF Next

THEOREM VmeInvariance ==
  ASSUME OneProcessor, ~Remap
  PROVE  Spec => []VmeInv
  BY VmeInitInv, VmeStepInv, PTL DEF Spec

LEMMA InvIsSafe == VmeInv => NoStale /\ Enforced
  <1> SUFFICES ASSUME VmeInv
               PROVE  NoStale /\ Enforced
    OBVIOUS
  <1>1. ASSUME NEW c \in Cpu, NEW v \in Va, pc[c] = "idle", mm[c][v] # Nil
        PROVE  vmHead[c] # Nil /\ mm[c][v] \in Target(vmHead[c], v)
    <2>1. PICK n \in Nodes(vmHead[c]) : va[n] = v /\ pa[n] = mm[c][v]
      <3>1. NoOther(c, vmHead[c])
        BY <1>1 DEF VmeInv, SwitchInv
      <3> QED
        BY <1>1, <3>1 DEF NoOther
    <2> QED
      BY <2>1, NodesOfNil DEF Target
  <1>2. ASSUME NEW c \in Cpu, pc[c] = "idle", NEW n \in Nodes(vmHead[c])
        PROVE  mapped[n] /\ mm[c][va[n]] = pa[n]
    BY <1>2 DEF VmeInv, SwitchInv, InForce
  <1> QED
    BY <1>1, <1>2 DEF NoStale, Enforced

\* Outside the switch the process maps nothing that the current space does not.
THEOREM NothingIsStale ==
  ASSUME OneProcessor, ~Remap
  PROVE  Spec => []NoStale
  <1>1. VmeInv => NoStale
    BY InvIsSafe
  <1> QED
    BY <1>1, VmeInvariance, PTL

\* ... and it maps everything the current space does.
THEOREM SpaceIsInForce ==
  ASSUME OneProcessor, ~Remap
  PROVE  Spec => []Enforced
  <1>1. VmeInv => Enforced
    BY InvIsSafe
  <1> QED
    BY <1>1, VmeInvariance, PTL

-----------------------------------------------------------------------------
(* Types, with any number of processors and also where pages are mapped    *)
(* again.  One processor at a time is inside _map, and finds a node for    *)
(* its page or a free one.                                                 *)

OperandsInv(c) ==
  /\ pc[c] \in {"unmap", "enforce"} => head[c] \in heads \cup {Nil}
  /\ pc[c] \in Insertion => head[c] \in heads /\ page[c] \in Va \X Pa
  /\ pc[c] = "find" => used < MaxNodes
  /\ pc[c] = "link" => pp[c] \in Node

MapsAlone == \A c, d \in Cpu : pc[c] \in Insertion /\ pc[d] \in Insertion => c = d

VmeTypes == TypeOK /\ MapsAlone /\ \A c \in Cpu : OperandsInv(c)

LEMMA InitVmeTypes == Init => VmeTypes
  <1> SUFFICES ASSUME Init
               PROVE  VmeTypes
    OBVIOUS
  <1>1. TypeOK
    <2>1. used \in 0..MaxNodes
      BY NativeAssumption DEF Init
    <2> QED
      BY <2>1 DEF Init, TypeOK
  <1>2. \A c \in Cpu : pc[c] = "idle"
    BY DEF Init
  <1> QED
    BY <1>1, <1>2 DEF VmeTypes, MapsAlone, OperandsInv, Insertion

\* Whatever page a process maps to whatever.
LEMMA OneMapping ==
  ASSUME TypeOK, NEW c \in Cpu, NEW v, NEW p \in Pa \cup {Nil},
         mm' = [mm EXCEPT ![c][v] = p]
  PROVE  mm' \in [Cpu -> [Va -> Pa \cup {Nil}]]
  <1>1. mm \in [Cpu -> [Va -> Pa \cup {Nil}]] /\ mm[c] \in [Va -> Pa \cup {Nil}]
    BY DEF TypeOK
  <1>2. [mm[c] EXCEPT ![v] = p] \in [Va -> Pa \cup {Nil}]
    BY <1>1
  <1> QED
    BY <1>1, <1>2

\* A processor that goes on inside _map or __am_switch, without a new operand.
LEMMA GoesOn ==
  ASSUME VmeTypes, NEW c \in Cpu, UNCHANGED <<heads, head, page, used>>, TypeOK',
         NEW to, pc' = [pc EXCEPT ![c] = to],
         to = "idle" \/ to = pc[c] \/ (pc[c] = "unmap" /\ to = "enforce")
                     \/ (pc[c] = "find" /\ to = "link" /\ pp'[c] \in Node),
         pc[c] # "link", \A d \in Cpu \ {c} : pp'[d] = pp[d]
  PROVE  VmeTypes'
  <1>1. \A d \in Cpu : /\ pc'[d] \in Insertion => pc[d] \in Insertion
                       /\ d # c => pc'[d] = pc[d]
                       /\ d = c => pc'[d] = to
    BY DEF VmeTypes, TypeOK, Insertion
  <1>2. MapsAlone'
    BY <1>1 DEF VmeTypes, MapsAlone
  <1>3. ASSUME NEW d \in Cpu
        PROVE  OperandsInv(d)'
    <2>1. CASE d = c
      BY <1>1, <2>1 DEF VmeTypes, OperandsInv, Insertion
    <2>2. CASE d # c
      BY <1>1, <2>2 DEF VmeTypes, OperandsInv, Insertion
    <2> QED
      BY <2>1, <2>2
  <1> QED
    BY <1>2, <1>3 DEF VmeTypes

LEMMA WorkingVmeTypes ==
  ASSUME VmeTypes, NEW c \in Cpu, Working(c)
  PROVE  VmeTypes'
  <1> DEFINE p == pp[c]
  <1>0. /\ p \in Node \cup {Nil} /\ head[c] \in Space \cup {Nil}
        /\ TypeOK /\ OperandsInv(c) /\ MapsAlone
    BY DEF VmeTypes, TypeOK
  <1>1. CASE Unmap(c)
    <2>1. /\ p \in Node /\ next[p] \in Node \cup {Nil} /\ pc[c] = "unmap"
          /\ pc' = [pc EXCEPT ![c] = "unmap"] /\ pp' = [pp EXCEPT ![c] = next[p]]
          /\ UNCHANGED <<enabled, heads, list, vmHead, head, page>>
      BY <1>0, <1>1 DEF Unmap, At, TypeOK
    <2>2. /\ mm' \in [Cpu -> [Va -> Pa \cup {Nil}]]
          /\ mapped' \in [Node -> BOOLEAN]
      BY <1>0, <1>1, OneMapping DEF Unmap, TypeOK
    <2>3. TypeOK'
      BY <1>0, <2>1, <2>2 DEF TypeOK, list
    <2> QED
      BY <1>0, <2>1, <2>3, GoesOn DEF TypeOK, list
  <1>2. CASE UnmapDone(c)
    <2>1. /\ First(head[c]) \in Node \cup {Nil} /\ pc[c] = "unmap"
          /\ pc' = [pc EXCEPT ![c] = "enforce"] /\ pp' = [pp EXCEPT ![c] = First(head[c])]
          /\ UNCHANGED <<enabled, heads, list, mapped, vmHead, mm, head, page>>
      BY <1>0, <1>2, TypesLink DEF UnmapDone, At
    <2>2. TypeOK'
      BY <1>0, <2>1 DEF TypeOK, list
    <2> QED
      BY <1>0, <2>1, <2>2, GoesOn DEF TypeOK, list
  <1>3. CASE Enforce(c)
    <2>1. /\ p \in Node /\ next[p] \in Node \cup {Nil} /\ pc[c] = "enforce"
          /\ pa[p] \in Pa \cup {Nil}
          /\ pc' = [pc EXCEPT ![c] = "enforce"] /\ pp' = [pp EXCEPT ![c] = next[p]]
          /\ UNCHANGED <<enabled, heads, list, vmHead, head, page>>
      BY <1>0, <1>3 DEF Enforce, At, TypeOK
    <2>2. /\ mm' \in [Cpu -> [Va -> Pa \cup {Nil}]]
          /\ mapped' \in [Node -> BOOLEAN]
      BY <1>0, <1>3, <2>1, OneMapping DEF Enforce, TypeOK
    <2>3. TypeOK'
      BY <1>0, <2>1, <2>2 DEF TypeOK, list
    <2> QED
      BY <1>0, <2>1, <2>3, GoesOn DEF TypeOK, list
  <1>4. CASE EnforceDone(c)
    <2>1. /\ pc[c] = "enforce" /\ vmHead' = [vmHead EXCEPT ![c] = head[c]]
          /\ pc' = [pc EXCEPT ![c] = "idle"] /\ pp' = [pp EXCEPT ![c] = Nil]
          /\ UNCHANGED <<enabled, heads, list, mapped, mm, head, page>>
      BY <1>4 DEF EnforceDone, At
    <2>2. vmHead' \in [Cpu -> heads' \cup {Nil}]
      BY <1>0, <2>1 DEF TypeOK, OperandsInv
    <2>3. TypeOK'
      BY <1>0, <2>1, <2>2 DEF TypeOK, list
    <2> QED
      BY <1>0, <2>1, <2>3, GoesOn DEF TypeOK, list
  <1>5. CASE Find(c)
    <2>1. PICK to \in {"find", "link"}, q \in Node \cup {Nil} :
            /\ to = "link" => q \in Node
            /\ pc' = [pc EXCEPT ![c] = to] /\ pp' = [pp EXCEPT ![c] = q]
      BY <1>0, <1>5 DEF Find, At, TypeOK
    <2>2. /\ pc[c] = "find"
          /\ UNCHANGED <<enabled, heads, list, mapped, vmHead, mm, head, page>>
      BY <1>5 DEF Find
    <2>3. TypeOK'
      BY <1>0, <2>1, <2>2 DEF TypeOK, list
    <2> QED
      BY <1>0, <2>1, <2>2, <2>3, GoesOn DEF TypeOK, list
  <1>6. CASE NotFound(c)
    BY <1>6, NativeAssumption DEF NotFound, At, VmeTypes, TypeOK, MapsAlone, OperandsInv, Insertion, Node
  <1>7. CASE Link(c)
    BY <1>7 DEF Link, Insert, At, VmeTypes, TypeOK, MapsAlone, OperandsInv, Insertion
  <1> QED
    BY <1>1, <1>2, <1>3, <1>4, <1>5, <1>6, <1>7 DEF Working

LEMMA StepVmeTypes ==
  ASSUME VmeTypes, [Next]_vars
  PROVE  VmeTypes'
  <1>1. CASE VmeInit
    BY <1>1 DEF VmeInit, list, VmeTypes, TypeOK, MapsAlone, OperandsInv
  <1>2. ASSUME NEW s \in Space, Protect(s)
        PROVE  VmeTypes'
    BY <1>2 DEF Protect, list, VmeTypes, TypeOK, MapsAlone, OperandsInv
  <1>3. ASSUME NEW c \in Cpu, NEW h \in heads \cup {Nil}, Switch(c, h)
        PROVE  VmeTypes'
    BY <1>3 DEF Switch, First, At, list, VmeTypes, TypeOK, MapsAlone, OperandsInv, Insertion
  <1>4. ASSUME NEW c \in Cpu, NEW s \in heads, NEW v \in Va, NEW p \in Pa, Map(c, s, v, p)
        PROVE  VmeTypes'
    BY <1>4 DEF Map, Mapping, At, list, VmeTypes, TypeOK, MapsAlone, OperandsInv, Insertion
  <1>5. CASE UNCHANGED vars
    BY <1>5 DEF vars, list, VmeTypes, TypeOK, MapsAlone, OperandsInv
  <1> QED
    BY <1>1, <1>2, <1>3, <1>4, <1>5, WorkingVmeTypes DEF Next

\* Heads, nodes and cursors stay what they are, on any number of processors.
THEOREM VmeTypeCorrect == Spec => []TypeOK
  <1>1. VmeTypes => TypeOK
    BY DEF VmeTypes
  <1> QED
    BY <1>1, InitVmeTypes, StepVmeTypes, PTL DEF Spec

-----------------------------------------------------------------------------
(* The lists, with any number of processors: what one of them enforces and *)
(* another one then believes enforced (NativeSmp) does not reach them.     *)

\* A space that is not protected yet has an empty list, and a list leads from each node to
\* an older one.
Fresh    == /\ \A s \in Space \ heads : next[s] = Nil
            /\ ~enabled => heads = {}
Descends == \A i \in Node : next[i] # Nil => next[i] < i

ListsInv == VmeTypes /\ ListInv /\ Fresh /\ Descends /\ \A c \in Cpu : MapInv(c)

LEMMA InitLists == Init => ListsInv
  <1> SUFFICES ASSUME Init
               PROVE  ListsInv
    OBVIOUS
  <1>1. \A h \in Space \cup {Nil} : Nodes(h) = {}
    BY ReachNil DEF Init, Nodes, First
  <1>2. ListInv /\ Fresh /\ Descends /\ \A c \in Cpu : MapInv(c)
    BY <1>1 DEF Init, ListInv, Fresh, Descends, MapInv, Insertion, Node
  <1> QED
    BY <1>2, InitVmeTypes DEF ListsInv

\* A step that leaves the lists and every _map alone.
LEMMA ListsRest ==
  ASSUME ListsInv, VmeTypes', UNCHANGED list, heads \subseteq heads',
         ~enabled' => heads' = {},
         \A d \in Cpu : pc'[d] \in Insertion => pc'[d] = pc[d] /\ pp'[d] = pp[d]
                                                /\ head'[d] = head[d] /\ page'[d] = page[d]
  PROVE  ListsInv'
  <1>1. ListInv' /\ Fresh' /\ Descends'
    BY SameLists DEF ListsInv, Fresh, Descends, list
  <1>2. ASSUME NEW d \in Cpu
        PROVE  MapInv(d)'
    BY <1>2, SameLists DEF ListsInv, MapInv, Insertion
  <1> QED
    BY <1>1, <1>2 DEF ListsInv

\* A step of _map on processor c, which is the only one inside.
LEMMA ListsMap ==
  ASSUME ListsInv, VmeTypes', NEW c \in Cpu, pc[c] \in Insertion \/ \A d \in Cpu : pc[d] \notin Insertion,
         NEW to, pc' = [pc EXCEPT ![c] = to],
         ListInv', Fresh', Descends', MapInv(c)'
  PROVE  ListsInv'
  <1>1. ASSUME NEW d \in Cpu, d # c
        PROVE  pc'[d] \notin Insertion
    BY <1>1 DEF ListsInv, VmeTypes, TypeOK, MapsAlone
  <1>2. \A d \in Cpu : MapInv(d)'
    BY <1>1 DEF MapInv
  <1> QED
    BY <1>2 DEF ListsInv

LEMMA LinkKeepsLists ==
  ASSUME ListsInv, NEW c \in Cpu, Link(c)
  PROVE  ListInv' /\ Fresh' /\ Descends'
  <1> DEFINE p == pp[c]
             s == head[c]
             v == page[c][1]
             q == page[c][2]
  <1>0. TypeOK /\ ListInv /\ MapInv(c)
    BY DEF ListsInv, VmeTypes
  <1>1. /\ pc[c] = "link" /\ UNCHANGED <<enabled, heads, used>>
        /\ va' = [va EXCEPT ![p] = v] /\ pa' = [pa EXCEPT ![p] = q]
        /\ next' = [next EXCEPT ![p] = next[s], ![s] = p]
    BY DEF Link, Insert
  <1>2. s \in heads /\ v \in Va /\ q \in Pa /\ \A n \in Nodes(s) : va[n] # v
    BY <1>0, <1>1 DEF MapInv, Insertion
  <1>3. /\ s \in Space /\ p \in Node /\ p = used
        /\ \A i \in Space \cup Node : next'[i] \in (1..used) \cup {Nil}
        /\ Nodes(s)' = {p} \cup Nodes(s)
        /\ \A h \in Space \cup {Nil} : h # s => Nodes(h)' = Nodes(h)
        /\ \A h \in Space \cup {Nil} : p \notin Nodes(h)
    BY <1>0, LinkLists
  <1>4. /\ va'[p] = v /\ pa'[p] = q
        /\ \A n \in Node : n # p => va'[n] = va[n] /\ pa'[n] = pa[n]
    BY <1>0, <1>1, <1>3 DEF TypeOK
  <1>5. ASSUME NEW h \in Space, NEW n \in Nodes(h)'
        PROVE  n \in Nodes(h) \/ (h = s /\ n = p)
    <2>1. s' = s
      BY DEF Link
    <2>2. CASE h = s
      BY <1>3, <2>1, <2>2 DEF Nodes, First
    <2> QED
      BY <1>3, <2>2
  <1>6. \A h \in Space : Nodes(h) \subseteq Node
    BY <1>0, TypesLink
  <1>7. ListInv'
    <2>1. \A h \in Space : \A n \in Nodes(h)' : va'[n] \in Va /\ pa'[n] \in Pa
      BY <1>0, <1>2, <1>3, <1>4, <1>5, <1>6 DEF ListInv
    <2>2. ASSUME NEW h \in Space, NEW m \in Nodes(h)', NEW n \in Nodes(h)', va'[m] = va'[n]
          PROVE  m = n
      <3>1. CASE m \in Nodes(h) /\ n \in Nodes(h)
        BY <1>0, <1>3, <1>4, <1>6, <2>2, <3>1 DEF ListInv
      <3>2. CASE m \notin Nodes(h) \/ n \notin Nodes(h)
        BY <1>2, <1>3, <1>4, <1>5, <1>6, <2>2, <3>2
      <3> QED
        BY <3>1, <3>2
    <2> QED
      BY <1>1, <1>3, <2>1, <2>2 DEF ListInv
  <1>8. p \notin Space /\ s \notin Node
    BY <1>3, SpacesAreNoNodes
  <1>9. /\ next'[p] = next[s] /\ next'[s] = p
        /\ \A i \in Space \cup Node : i # p /\ i # s => next'[i] = next[i]
    BY <1>0, <1>1, <1>3, <1>8 DEF TypeOK
  <1>10. Fresh'
    BY <1>1, <1>2, <1>3, <1>8, <1>9 DEF ListsInv, Fresh
  <1>11. Descends'
    <2>1. next[s] # p
      BY <1>0, <1>1, <1>3 DEF MapInv, Insertion
    <2>2. next[s] # Nil => next[s] < p
      <3>1. next[s] \in (1..used) \cup {Nil} /\ used \in Nat
        BY <1>0, <1>3 DEF ListInv, TypeOK
      <3> QED
        BY <1>3, <2>1, <3>1
    <2> QED
      BY <1>8, <1>9, <2>2 DEF ListsInv, Descends
  <1> QED
    BY <1>7, <1>10, <1>11

LEMMA StepLists ==
  ASSUME ~Remap, ListsInv, [Next]_vars
  PROVE  ListsInv'
  <1>0. VmeTypes /\ VmeTypes' /\ TypeOK /\ TypeOK'
    BY StepVmeTypes DEF ListsInv, VmeTypes
  <1>1. CASE VmeInit \/ UNCHANGED vars \/ \E s \in Space : Protect(s)
    BY <1>0, <1>1, ListsRest DEF VmeInit, Protect, vars, ListsInv, Fresh
  <1>2. ASSUME NEW c \in Cpu,
               Unmap(c) \/ UnmapDone(c) \/ Enforce(c) \/ EnforceDone(c)
                 \/ \E h \in heads \cup {Nil} : Switch(c, h)
        PROVE  ListsInv'
    <2>1. /\ UNCHANGED list /\ UNCHANGED <<heads, enabled, page>>
          /\ \E p \in {"idle", "unmap", "enforce"} : \E x : /\ pc' = [pc EXCEPT ![c] = p]
                                                            /\ pp' = [pp EXCEPT ![c] = x]
          /\ \E h : head' = [head EXCEPT ![c] = h]
      BY <1>0, <1>2 DEF Unmap, UnmapDone, Enforce, EnforceDone, Switch, At, TypeOK
    <2>2. \A d \in Cpu : pc'[d] \in Insertion => pc'[d] = pc[d] /\ pp'[d] = pp[d] /\ head'[d] = head[d]
      BY <1>0, <2>1 DEF TypeOK, Insertion
    <2> QED
      BY <1>0, <2>1, <2>2, ListsRest DEF ListsInv, Fresh
  <1>3. ASSUME NEW c \in Cpu, NEW s \in heads, NEW v \in Va, NEW p \in Pa, Map(c, s, v, p)
        PROVE  ListsInv'
    <2>1. /\ pc' = [pc EXCEPT ![c] = "find"] /\ pp' = [pp EXCEPT ![c] = next[s]]
          /\ head' = [head EXCEPT ![c] = s] /\ page' = [page EXCEPT ![c] = <<v, p>>]
          /\ UNCHANGED <<enabled, heads, list>> /\ used < MaxNodes
          /\ \A n \in Nodes(s) : va[n] # v
          /\ \A d \in Cpu : pc[d] \notin Insertion
      BY <1>3 DEF Map, Mapping, At, Insertion
    <2>2. ListInv' /\ Fresh' /\ Descends'
      BY <2>1, SameLists DEF ListsInv, Fresh, Descends
    <2>3. next[s] \in Nodes(s) \cup {Nil}
      <3>1. s \in Space /\ First(s) = next[s] /\ next[s] \in Node \cup {Nil}
        BY <1>0, NilIsNoNode DEF TypeOK, First
      <3> QED
        BY <3>1, ReachIsClosed DEF Nodes
    <2>4. pc'[c] = "find" /\ pp'[c] = next[s] /\ head'[c] = s /\ page'[c] = <<v, p>>
      BY <1>0, <2>1 DEF TypeOK
    <2>5. MapInv(c)'
      BY <2>1, <2>3, <2>4, SameLists DEF MapInv, Insertion
    <2> QED
      BY <1>0, <2>1, <2>2, <2>5, ListsMap
  <1>4. ASSUME NEW c \in Cpu, Find(c)
        PROVE  ListsInv'
    <2>1. MapInv(c) /\ pc[c] = "find" /\ pp[c] # Nil
      BY <1>4 DEF ListsInv, Find
    <2>2. head[c] \in Space /\ pp[c] \in Nodes(head[c]) /\ pp[c] \in Node /\ va[pp[c]] # page[c][1]
      BY <1>0, <2>1, TypesLink DEF MapInv, Insertion, TypeOK
    <2>3. /\ pc' = [pc EXCEPT ![c] = "find"] /\ pp' = [pp EXCEPT ![c] = next[pp[c]]]
          /\ UNCHANGED <<enabled, heads, list, head, page>>
      BY <1>4, <2>2 DEF Find, At
    <2>4. next[pp[c]] \in Nodes(head[c]) \cup {Nil}
      BY <1>0, <2>2, TypesLink, ReachIsClosed DEF Nodes
    <2>5. pc'[c] = "find" /\ pp'[c] = next[pp[c]]
      BY <1>0, <2>3 DEF TypeOK
    <2>6. MapInv(c)'
      BY <2>1, <2>3, <2>4, <2>5, SameLists DEF MapInv, Insertion, list
    <2>7. ListInv' /\ Fresh' /\ Descends'
      BY <2>3, SameLists DEF ListsInv, Fresh, Descends
    <2> QED
      BY <1>0, <2>1, <2>3, <2>6, <2>7, ListsMap DEF Insertion
  <1>5. ASSUME NEW c \in Cpu, NotFound(c)
        PROVE  ListsInv'
    <2>1. /\ pc[c] = "find" /\ used' = used + 1 /\ MapInv(c)
          /\ pc' = [pc EXCEPT ![c] = "link"] /\ pp' = [pp EXCEPT ![c] = used + 1]
          /\ UNCHANGED <<enabled, heads, next, va, pa, head, page>>
      BY <1>5 DEF NotFound, At, ListsInv
    <2>2. \A h : Nodes(h)' = Nodes(h)
      BY <2>1 DEF Nodes, First
    <2>3. used \in Nat /\ ListInv
      BY <1>0 DEF TypeOK, ListsInv
    <2>4. ListInv'
      <3>1. 1..used \subseteq 1..(used + 1)
        BY <2>3
      <3> QED
        BY <2>1, <2>2, <2>3, <3>1 DEF ListInv
    <2>5. pc'[c] = "link" /\ pp'[c] = used'
      BY <1>0, <2>1 DEF TypeOK
    <2>6. used' > 0 /\ \A i \in Space \cup Node : next[i] # used'
      BY <2>1, <2>3, NilIsNoNode, <1>0, <2>5 DEF ListInv, VmeTypes, OperandsInv
    <2>7. MapInv(c)'
      BY <2>1, <2>2, <2>5, <2>6 DEF MapInv, Insertion
    <2>8. Fresh' /\ Descends'
      BY <2>1 DEF ListsInv, Fresh, Descends
    <2> QED
      BY <1>0, <2>1, <2>4, <2>7, <2>8, ListsMap DEF Insertion
  <1>6. ASSUME NEW c \in Cpu, Link(c)
        PROVE  ListsInv'
    <2>1. pc[c] = "link" /\ pc' = [pc EXCEPT ![c] = "idle"]
      BY <1>6 DEF Link, At
    <2>2. MapInv(c)'
      BY <1>0, <2>1 DEF TypeOK, MapInv, Insertion
    <2> QED
      BY <1>0, <1>6, <2>1, <2>2, LinkKeepsLists, ListsMap DEF Insertion
  <1> QED
    BY <1>1, <1>2, <1>3, <1>4, <1>5, <1>6 DEF Next, Working

THEOREM ListsInvariance ==
  ASSUME ~Remap
  PROVE  Spec => []ListsInv
  BY InitLists, StepLists, PTL DEF Spec

\* A walk comes at each turn to an older node or to the end: it takes no more turns than
\* there are nodes, even while another processor adds to the list.
THEOREM WalksEnd ==
  ASSUME ~Remap
  PROVE  Spec => [][\A c \in Cpu :
                      Unmap(c) \/ Enforce(c) \/ Find(c) =>
                        pc'[c] = pc[c] /\ (pp'[c] = Nil \/ pp'[c] < pp[c])]_vars
  <1>1. ASSUME ListsInv, NEW c \in Cpu, Unmap(c) \/ Enforce(c) \/ Find(c)
        PROVE  pc'[c] = pc[c] /\ (pp'[c] = Nil \/ pp'[c] < pp[c])
    <2>0. TypeOK /\ Descends /\ MapInv(c)
      BY <1>1 DEF ListsInv, VmeTypes
    <2>1. CASE Unmap(c) \/ Enforce(c)
      BY <2>0, <2>1 DEF Unmap, Enforce, At, TypeOK, Descends
    <2>2. CASE Find(c)
      <3>1. pp[c] \in Node /\ va[pp[c]] # page[c][1]
        BY <2>0, <2>2, TypesLink DEF Find, MapInv, Insertion, TypeOK
      <3> QED
        BY <2>0, <2>2, <3>1 DEF Find, At, TypeOK, Descends
    <2> QED
      BY <1>1, <2>1, <2>2
  <1>2. ListsInv /\ [Next]_vars =>
          [\A c \in Cpu : Unmap(c) \/ Enforce(c) \/ Find(c) =>
                          pc'[c] = pc[c] /\ (pp'[c] = Nil \/ pp'[c] < pp[c])]_vars
    BY <1>1
  <1> QED
    BY <1>2, ListsInvariance, PTL DEF Spec

-----------------------------------------------------------------------------
(* The lists implement independent spaces.                                 *)

Made == IF enabled THEN heads \cup {Nil} ELSE {}
Tr   == [s \in Space \cup {Nil} |-> [v \in Va |-> Entry(s, v)]]

LEMMA EntryIs ==
  ASSUME ListInv, NEW s \in Space \cup {Nil}, NEW v \in Va
  PROVE  /\ \A n \in Nodes(s) : va[n] = v => Entry(s, v) = pa[n]
         /\ (\A n \in Nodes(s) : va[n] # v) => Entry(s, v) = Nil
  <1>1. ASSUME NEW n \in Nodes(s), va[n] = v
        PROVE  Entry(s, v) = pa[n]
    <2>1. s \in Space
      BY NodesOfNil
    <2>2. Target(s, v) = {pa[n]}
      BY <1>1, <2>1 DEF ListInv, Target
    <2> QED
      BY <2>2 DEF Entry
  <1>2. ASSUME \A n \in Nodes(s) : va[n] # v
        PROVE  Entry(s, v) = Nil
    BY <1>2 DEF Entry, Target
  <1> QED
    BY <1>1, <1>2

\* A list whose nodes stay the same, with the same pages, maps the same.
LEMMA SameEntry ==
  ASSUME ListInv, ListInv', NEW s \in Space \cup {Nil}, NEW v \in Va, Nodes(s)' = Nodes(s),
         \A n \in Nodes(s) : va'[n] = va[n] /\ pa'[n] = pa[n]
  PROVE  Entry(s, v)' = Entry(s, v)
  <1>1. Target(s, v)' = Target(s, v)
    BY DEF Target
  <1> QED
    BY <1>1 DEF Entry

LEMMA SameTr ==
  ASSUME ListInv, ListInv', UNCHANGED <<va, pa>>, \A h : Nodes(h)' = Nodes(h)
  PROVE  Tr' = Tr
  BY SameEntry DEF Tr

LEMMA InitSpaces == Init => Spaces!Init
  <1> SUFFICES ASSUME Init
               PROVE  Spaces!Init
    OBVIOUS
  <1>1. \A s \in Space \cup {Nil}, v \in Va : Entry(s, v) = Nil
    BY InitLists, EntryIs, ReachNil DEF Init, ListsInv, Nodes, First
  <1> QED
    BY <1>1 DEF Init, Spaces!Init

\* Linking a node is mapping its page, and no other space sees it.
LEMMA LinkIsMap ==
  ASSUME ListsInv, ListsInv', NEW c \in Cpu, Link(c)
  PROVE  \E s \in Space, v \in Va, p \in Pa : Spaces!Map(s, v, p)
  <1> DEFINE n == pp[c]
             s == head[c]
             v == page[c][1]
             q == page[c][2]
  <1>0. TypeOK /\ ListInv /\ ListInv' /\ MapInv(c)
    BY DEF ListsInv, VmeTypes
  <1>1. /\ pc[c] = "link" /\ UNCHANGED <<enabled, heads, head>>
        /\ va' = [va EXCEPT ![n] = v] /\ pa' = [pa EXCEPT ![n] = q]
    BY DEF Link
  <1>2. s \in heads /\ v \in Va /\ q \in Pa /\ \A m \in Nodes(s) : va[m] # v
    BY <1>0, <1>1 DEF MapInv, Insertion
  <1>3. /\ s \in Space /\ n \in Node /\ Nodes(s)' = {n} \cup Nodes(s)
        /\ \A h \in Space \cup {Nil} : h # s => Nodes(h)' = Nodes(h)
        /\ \A h \in Space \cup {Nil} : n \notin Nodes(h)
        /\ \A h \in Space \cup {Nil} : Nodes(h) \subseteq Node
    BY <1>0, LinkLists, TypesLink
  <1>4. /\ va'[n] = v /\ pa'[n] = q
        /\ \A m \in Node : m # n => va'[m] = va[m] /\ pa'[m] = pa[m]
    BY <1>0, <1>1, <1>3 DEF TypeOK
  <1>5. Entry(s, v) = Nil
    BY <1>0, <1>2, <1>3, EntryIs
  <1>6. ASSUME NEW h \in Space \cup {Nil}, NEW w \in Va
        PROVE  Entry(h, w)' = IF h = s /\ w = v THEN q ELSE Entry(h, w)
    <2>1. CASE h # s
      BY <1>0, <1>3, <1>4, <2>1, SameEntry
    <2> HIDE DEF n, s, v, q
    <2>2. CASE h = s
      <3>1. Nodes(h)' = {n} \cup Nodes(h)
        BY <1>1, <1>3, <2>2 DEF Nodes, First, s
      <3>2. CASE w = v
        <4>1. \A m \in Nodes(h) : va'[m] # w
          BY <1>2, <1>3, <1>4, <2>2, <3>2
        <4>2. Target(h, w)' = {q}
          BY <1>4, <3>1, <3>2, <4>1 DEF Target
        <4> QED
          BY <2>2, <3>2, <4>2 DEF Entry
      <3>3. CASE w # v
        <4>1. {m \in Nodes(h)' : va'[m] = w} = {m \in Nodes(h) : va[m] = w}
          BY <1>3, <1>4, <3>1, <3>3
        <4>2. Target(h, w)' = Target(h, w)
          BY <1>3, <1>4, <4>1 DEF Target
        <4> QED
          BY <3>3, <4>2 DEF Entry
      <3> QED
        BY <3>2, <3>3
    <2> QED
      BY <2>1, <2>2
  <1>7. /\ Tr[s][v] = Nil /\ Tr'[s][v] = q /\ s \in Made /\ Made' = Made
        /\ Tr' = [Tr EXCEPT ![s][v] = q]
    <2> HIDE DEF n, s, v, q
    <2>1. Tr[s][v] = Nil /\ Tr'[s][v] = q
      BY <1>2, <1>3, <1>5, <1>6 DEF Tr
    <2>2. Tr' = [h \in Space \cup {Nil} |-> [w \in Va |-> IF h = s /\ w = v THEN q ELSE Entry(h, w)]]
      BY <1>6 DEF Tr
    <2>3. [Tr EXCEPT ![s][v] = q] =
            [h \in Space \cup {Nil} |-> [w \in Va |-> IF h = s /\ w = v THEN q ELSE Entry(h, w)]]
      BY <1>2, <1>3 DEF Tr
    <2>4. s \in Made /\ Made' = Made
      BY <1>0, <1>1, <1>2 DEF Made, ListsInv, Fresh
    <2> QED
      BY <2>1, <2>2, <2>3, <2>4
  <1>8. Spaces!Map(s, v, q)
    BY <1>7 DEF Spaces!Map, Made, Tr
  <1> QED
    BY <1>2, <1>3, <1>8

LEMMA StepSpaces ==
  ASSUME ListsInv, ListsInv', [Next]_vars
  PROVE  Spaces!Next \/ UNCHANGED <<Made, Tr>>
  <1>0. ListInv /\ ListInv' /\ Fresh
    BY DEF ListsInv
  <1>1. CASE UNCHANGED vars
    BY <1>0, <1>1, SameLists, SameTr DEF vars, list, Made
  <1>2. ASSUME NEW c \in Cpu,
               \/ Unmap(c) \/ UnmapDone(c) \/ Enforce(c) \/ EnforceDone(c) \/ Find(c)
               \/ \E h \in heads \cup {Nil} : Switch(c, h)
               \/ \E s \in heads, v \in Va, p \in Pa : Map(c, s, v, p)
        PROVE  UNCHANGED <<Made, Tr>>
    <2>1. UNCHANGED <<enabled, heads>> /\ UNCHANGED list
      BY <1>2 DEF Unmap, UnmapDone, Enforce, EnforceDone, Find, Switch, Map
    <2> QED
      BY <1>0, <2>1, SameLists, SameTr DEF Made
  <1>3. ASSUME NEW c \in Cpu, NotFound(c)
        PROVE  UNCHANGED <<Made, Tr>>
    <2>1. UNCHANGED <<enabled, heads, next, va, pa>>
      BY <1>3 DEF NotFound
    <2>2. \A h : Nodes(h)' = Nodes(h)
      BY <2>1 DEF Nodes, First
    <2> QED
      BY <1>0, <2>1, <2>2, SameTr DEF Made
  <1>4. CASE VmeInit
    <2>1. heads = {} /\ heads' = {} /\ ~enabled /\ enabled' /\ Tr' = Tr
      BY <1>0, <1>4, SameLists, SameTr DEF VmeInit, Fresh
    <2>2. \A v \in Va : Entry(Nil, v) = Nil
      BY <1>0, EntryIs, NodesOfNil
    <2>3. Tr[Nil] = [v \in Va |-> Nil]
      BY <2>2 DEF Tr
    <2>4. [Tr EXCEPT ![Nil] = [v \in Va |-> Nil]] = Tr
      BY <2>3 DEF Tr
    <2>5. Spaces!Identity = [v \in Va |-> Nil]
      BY DEF Spaces!Identity
    <2>6. Made = {} /\ Made' = {Nil}
      BY <2>1 DEF Made
    <2>7. Spaces!VmeInit
      BY <2>1, <2>4, <2>5, <2>6 DEF Spaces!VmeInit, Made, Tr
    <2> QED
      BY <2>7 DEF Spaces!Next
  <1>5. ASSUME NEW s \in Space, Protect(s)
        PROVE  Spaces!Next
    <2>1. enabled /\ enabled' /\ s \notin heads /\ heads' = heads \cup {s} /\ Tr' = Tr
      BY <1>0, <1>5, SameLists, SameTr DEF Protect
    <2>2. Nodes(s) = {}
      BY <1>0, <2>1, ReachNil DEF Fresh, Nodes, First
    <2>3. Tr[s] = [v \in Va |-> Nil]
      BY <1>0, <2>2, EntryIs DEF Tr
    <2>4. [Tr EXCEPT ![s] = [v \in Va |-> Nil]] = Tr
      BY <2>3 DEF Tr
    <2>5. Spaces!Identity = [v \in Va |-> Nil]
      BY DEF Spaces!Identity
    <2>6. Nil \in Made /\ s \notin Made /\ Made' = Made \cup {s}
      BY <2>1, NilIsNoNode DEF Made
    <2>7. Spaces!Protect(s)
      BY <2>4, <2>1, <2>5, <2>6 DEF Spaces!Protect, Made, Tr
    <2> QED
      BY <2>7 DEF Spaces!Next
  <1>6. ASSUME NEW c \in Cpu, Link(c)
        PROVE  Spaces!Next
    BY <1>6, LinkIsMap DEF Spaces!Next
  <1> QED
    BY <1>1, <1>2, <1>3, <1>4, <1>5, <1>6 DEF Next, Working

\* On any number of processors, the lists of the native port are the independent spaces that
\* the tables of the RISC-V port are.
THEOREM ListsImplement ==
  ASSUME ~Remap
  PROVE  Spec => SpacesSpec
  <1>1. ListsInv /\ ListsInv' /\ [Next]_vars => [Spaces!Next]_(Spaces!vars)
    BY StepSpaces DEF Spaces!vars, Made, Tr
  <1>2. Spec => Spaces!Init /\ [][Spaces!Next]_(Spaces!vars)
    BY <1>1, InitSpaces, ListsInvariance, PTL DEF Spec
  <1> QED
    BY <1>2 DEF SpacesSpec, Spaces!Spec
=============================================================================
