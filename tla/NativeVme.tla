------------------------------ MODULE NativeVme ------------------------------
(***************************************************************************)
(* Virtual memory of the native port (vme.c): an address space is a linked *)
(* list of PageMap nodes behind a head node, and a processor, which is a   *)
(* Linux process of its own, enforces the list of the space it runs with   *)
(* mmap and munmap.  The nodes, is_mapped among them, lie in memory that   *)
(* all processors share; the mappings of a process are its own.            *)
(*                                                                         *)
(* A walk along a list takes one step per node.  The pages pgalloc returns *)
(* hold zeros: the head's next is never written before it is read.  A      *)
(* target page stands for the physical page together with its protection.  *)
(***************************************************************************)
EXTENDS Integers

CONSTANTS
  Cpu,          \* processors, forked before the first switch
  Space,        \* address spaces
  Va, Pa,       \* user pages and what they are mapped to
  MaxNodes,     \* bound: PageMap nodes
  Remap,        \* may a caller map a page that the space maps already?
  Nil           \* NULL

ASSUME NativeAssumption == /\ MaxNodes \in Nat
                           /\ Remap \in BOOLEAN
                           /\ Nil \notin Space \cup Va \cup Pa \cup 1..MaxNodes
                           /\ Space \cap 1..MaxNodes = {}

Node == 1..MaxNodes

VARIABLES
  enabled,      \* vme_enable
  heads,        \* spaces _protect has made
  used,         \* nodes allocated so far
  next,         \* next of every head and node
  va, pa, mapped,   \* the other fields of a node; mapped is is_mapped
  vmHead,       \* per processor: thiscpu->vm_head
  mm,           \* per processor: the user mappings of its process
  pc, pp,       \* per processor: where it is, and its list cursor
  head, page    \* per processor: the argument space, and <<va, pa>> of _map

list == <<used, next, va, pa>>
vars == <<enabled, heads, list, mapped, vmHead, mm, pc, pp, head, page>>

Init == /\ enabled = FALSE /\ heads = {} /\ used = 0
        /\ next = [n \in Space \cup Node |-> Nil]
        /\ va = [n \in Node |-> Nil] /\ pa = [n \in Node |-> Nil]
        /\ mapped = [n \in Node |-> FALSE]
        /\ vmHead = [c \in Cpu |-> Nil]
        /\ mm = [c \in Cpu |-> [v \in Va |-> Nil]]
        /\ pc = [c \in Cpu |-> "idle"]
        /\ pp = [c \in Cpu |-> Nil]
        /\ head = [c \in Cpu |-> Nil]
        /\ page = [c \in Cpu |-> <<Nil, Nil>>]

\* Processor c goes to p with its cursor at n.
At(c, p, n) == /\ pc' = [pc EXCEPT ![c] = p]
               /\ pp' = [pp EXCEPT ![c] = n]

First(h) == IF h = Nil THEN Nil ELSE next[h]

\* The nodes on the way from n along f, n among them: those that every set holds which
\* holds n and does not end before the way does.
Reach(f, n) == {m \in Node : \A S \in SUBSET Node :
                  n \in S \cup {Nil} /\ (\A i \in S : f[i] \in S \cup {Nil}) => m \in S}

\* The nodes on the list of h.
Nodes(h) == Reach(next, First(h))

-----------------------------------------------------------------------------

\* _vme_init
VmeInit == /\ ~enabled
           /\ enabled' = TRUE
           /\ UNCHANGED <<heads, list, mapped, vmHead, mm, pc, pp, head, page>>

\* _protect
Protect(s) == /\ enabled /\ s \notin heads
              /\ heads' = heads \cup {s}
              /\ UNCHANGED <<enabled, list, mapped, vmHead, mm, pc, pp, head, page>>

-----------------------------------------------------------------------------
(* __am_switch, called on the way out of every trap with the context's     *)
(* vm_head; kernel contexts have none.                                     *)

\* Mutation of Switch: the walk starts at the head instead of behind it.
SwitchFromHead(c, h) ==
  /\ enabled /\ pc[c] = "idle"
  /\ h # vmHead[c]
  /\ head' = [head EXCEPT ![c] = h]
  /\ At(c, "unmap", vmHead[c])
  /\ UNCHANGED <<enabled, heads, list, mapped, vmHead, mm, page>>

Switch(c, h) == /\ enabled /\ pc[c] = "idle"
                /\ h # vmHead[c]
                /\ head' = [head EXCEPT ![c] = h]
                /\ At(c, "unmap", First(vmHead[c]))
                /\ UNCHANGED <<enabled, heads, list, mapped, vmHead, mm, page>>

\* Mutation of Unmap: the test of is_mapped is inverted.
UnmapInverted(c) == LET p == pp[c] IN
  /\ pc[c] = "unmap" /\ p # Nil
  /\ IF ~mapped[p] THEN /\ mm' = [mm EXCEPT ![c][va[p]] = Nil]
                        /\ mapped' = [mapped EXCEPT ![p] = FALSE]
                   ELSE UNCHANGED <<mm, mapped>>
  /\ At(c, "unmap", next[p])
  /\ UNCHANGED <<enabled, heads, list, vmHead, head, page>>

\* One turn of the loop that removes the mappings of the current space.
Unmap(c) == LET p == pp[c] IN
  /\ pc[c] = "unmap" /\ p # Nil
  /\ IF mapped[p] THEN /\ mm' = [mm EXCEPT ![c][va[p]] = Nil]
                       /\ mapped' = [mapped EXCEPT ![p] = FALSE]
                  ELSE UNCHANGED <<mm, mapped>>
  /\ At(c, "unmap", next[p])
  /\ UNCHANGED <<enabled, heads, list, vmHead, head, page>>

UnmapDone(c) == /\ pc[c] = "unmap" /\ pp[c] = Nil
                /\ At(c, "enforce", First(head[c]))
                /\ UNCHANGED <<enabled, heads, list, mapped, vmHead, mm, head, page>>

Enforce(c) == LET p == pp[c] IN
  /\ pc[c] = "enforce" /\ p # Nil
  /\ mm' = [mm EXCEPT ![c][va[p]] = pa[p]]
  /\ mapped' = [mapped EXCEPT ![p] = TRUE]
  /\ At(c, "enforce", next[p])
  /\ UNCHANGED <<enabled, heads, list, vmHead, head, page>>

EnforceDone(c) == /\ pc[c] = "enforce" /\ pp[c] = Nil
                  /\ vmHead' = [vmHead EXCEPT ![c] = head[c]]
                  /\ At(c, "idle", Nil)
                  /\ UNCHANGED <<enabled, heads, list, mapped, mm, head, page>>

-----------------------------------------------------------------------------
(* _map.  It has no lock: its callers let one processor at a time call it. *)

Mapping(c) == pc[c] \in {"find", "link"}

Map(c, s, v, p) == /\ pc[c] = "idle" /\ s \in heads
                   /\ \A d \in Cpu : ~Mapping(d)
                   /\ used < MaxNodes
                   /\ Remap \/ \A n \in Nodes(s) : va[n] # v
                   /\ head' = [head EXCEPT ![c] = s]
                   /\ page' = [page EXCEPT ![c] = <<v, p>>]
                   /\ At(c, "find", next[s])
                   /\ UNCHANGED <<enabled, heads, list, mapped, vmHead, mm>>

\* One turn of the search: a node for this page ends it.
Find(c) == /\ pc[c] = "find" /\ pp[c] # Nil
           /\ IF va[pp[c]] = page[c][1] THEN At(c, "link", pp[c])
                                       ELSE At(c, "find", next[pp[c]])
           /\ UNCHANGED <<enabled, heads, list, mapped, vmHead, mm, head, page>>

NotFound(c) == /\ pc[c] = "find" /\ pp[c] = Nil
               /\ used' = used + 1
               /\ At(c, "link", used + 1)
               /\ UNCHANGED <<enabled, heads, next, va, pa, mapped, vmHead, mm, head, page>>

\* Mutation of Insert: the two stores are swapped.
InsertSwapped(p, h) == next' = [next EXCEPT ![p] = p, ![h] = p]

\* Mutation of Insert: what came behind the head is forgotten.
InsertForgetful(p, h) == next' = [next EXCEPT ![p] = Nil, ![h] = p]

\* The node goes behind the head, also when it is on the list already.
Insert(p, h) == next' = [next EXCEPT ![p] = next[h], ![h] = p]

\* Mutation of Link: a new mapping waits for the next switch.
LinkLazily(c) == LET p == pp[c] IN
  /\ pc[c] = "link"
  /\ va' = [va EXCEPT ![p] = page[c][1]]
  /\ pa' = [pa EXCEPT ![p] = page[c][2]]
  /\ Insert(p, head[c])
  /\ mapped' = [mapped EXCEPT ![p] = FALSE]
  /\ At(c, "idle", Nil)
  /\ UNCHANGED <<enabled, heads, used, vmHead, mm, head, page>>

\* A mapping of the current space is enforced at once.
Link(c) == LET p == pp[c]
               now == head[c] = vmHead[c] IN
  /\ pc[c] = "link"
  /\ va' = [va EXCEPT ![p] = page[c][1]]
  /\ pa' = [pa EXCEPT ![p] = page[c][2]]
  /\ Insert(p, head[c])
  /\ mapped' = [mapped EXCEPT ![p] = now]
  /\ mm' = IF now THEN [mm EXCEPT ![c][page[c][1]] = page[c][2]] ELSE mm
  /\ At(c, "idle", Nil)
  /\ UNCHANGED <<enabled, heads, used, vmHead, head, page>>

-----------------------------------------------------------------------------

Working(c) == \/ Unmap(c) \/ UnmapDone(c) \/ Enforce(c) \/ EnforceDone(c)
              \/ Find(c) \/ NotFound(c) \/ Link(c)

Next == \/ VmeInit
        \/ \E s \in Space : Protect(s)
        \/ \E c \in Cpu : \/ \E h \in heads \cup {Nil} : Switch(c, h)
                          \/ \E s \in heads, v \in Va, p \in Pa : Map(c, s, v, p)
                          \/ Working(c)

Spec == Init /\ [][Next]_vars

\* A processor that is inside _map or __am_switch goes on.
FairSpec == Spec /\ \A c \in Cpu : WF_vars(Working(c))

-----------------------------------------------------------------------------
(* Properties.                                                             *)

TypeOK == /\ enabled \in BOOLEAN
          /\ heads \subseteq Space
          /\ used \in 0..MaxNodes
          /\ next \in [Space \cup Node -> Node \cup {Nil}]
          /\ va \in [Node -> Va \cup {Nil}] /\ pa \in [Node -> Pa \cup {Nil}]
          /\ mapped \in [Node -> BOOLEAN]
          /\ vmHead \in [Cpu -> heads \cup {Nil}]
          /\ mm \in [Cpu -> [Va -> Pa \cup {Nil}]]
          /\ pc \in [Cpu -> {"idle", "unmap", "enforce", "find", "link"}]
          /\ pp \in [Cpu -> Node \cup {Nil}]
          /\ head \in [Cpu -> Space \cup {Nil}]
          /\ page \in [Cpu -> (Va \cup {Nil}) \X (Pa \cup {Nil})]

\* What the list of h says about v.
Target(h, v) == {pa[n] : n \in {m \in Nodes(h) : va[m] = v}}

\* Outside the switch, a processor has no mapping left that its current space
\* does not have: the switch has removed those of every earlier space.
NoStale == \A c \in Cpu, v \in Va :
  pc[c] = "idle" /\ mm[c][v] # Nil =>
    vmHead[c] # Nil /\ mm[c][v] \in Target(vmHead[c], v)

\* ... and it has every mapping of that space, also one made since the switch.
Enforced == \A c \in Cpu : pc[c] = "idle" /\ vmHead[c] # Nil =>
  \A n \in Nodes(vmHead[c]) : mapped[n] /\ mm[c][va[n]] = pa[n]

\* Every _map and every switch ends: no walk along a list goes round for ever.
OpReturns == \A c \in Cpu : pc[c] # "idle" ~> pc[c] = "idle"

\* What s maps v to.
Entry(s, v) == LET found == Target(s, v)
               IN  IF found = {} THEN Nil ELSE CHOOSE p \in found : TRUE

\* Where no page is mapped twice, the lists implement independent spaces: _map adds a page
\* to one and replaces none, whatever the processors enforce meanwhile.  The kernel's pages
\* are the host's; its space, Nil, is no list.
Spaces == INSTANCE AddrSpaces
  WITH Kas <- Nil, User <- Space, KernelVa <- {}, UserVa <- Va, Fault <- Nil,
       made <- IF enabled THEN heads \cup {Nil} ELSE {},
       tr <- [s \in Space \cup {Nil} |-> [v \in Va |-> Entry(s, v)]]
SpacesSpec == Spaces!Spec
=============================================================================
