----------------------- MODULE AuthConnectionsProofs -----------------------
(***************************************************************************)
(* Proofs about AuthConnections, for any number of nodes, requests, users, *)
(* account slots and addresses: the pointers of the two lists stay those   *)
(* of two lists, every reference is counted, no request changes its        *)
(* account and no account has two connections from one address.            *)
(***************************************************************************)
EXTENDS AuthConnections, FiniteSetTheorems, WellFoundedInduction, TLAPS

-----------------------------------------------------------------------------
(* Induction, with sets for predicates                                     *)

(* A set of natural numbers that is not empty has a least element.         *)
LEMMA LeastNumber ==
  ASSUME NEW T, T \subseteq Nat, T # {}
  PROVE  \E x \in T : \A y \in T : x <= y
<1> DEFINE R == OpToRel(<, Nat)
<1>1. IsWellFoundedOn(R, Nat)
  BY NatLessThanWellFounded
<1>2. \A x, y \in Nat : y < x => <<y, x>> \in R
  BY DEF OpToRel
<1> HIDE DEF R
<1>3. PICK x \in T : \A y \in T : ~(<<y, x>> \in R)
  BY <1>1, WFMin
<1>4. \A y \in T : ~(y < x)
  BY <1>2, <1>3
<1>5. \A y \in T : x <= y
  BY <1>4
<1>6. QED
  BY <1>5

(* A set that holds 0 and with every number the next holds all of them.    *)
LEMMA Induction ==
  ASSUME NEW S, 0 \in S, \A n \in Nat : n \in S => n + 1 \in S
  PROVE  \A n \in Nat : n \in S
<1> DEFINE T == Nat \ S
<1> SUFFICES ASSUME T # {} PROVE FALSE
  OBVIOUS
<1>1. PICK x \in T : \A y \in T : x <= y
  BY LeastNumber
<1>2. x - 1 \in Nat /\ x - 1 \notin T
  BY <1>1
<1>3. QED
  BY <1>2

-----------------------------------------------------------------------------
(* Linked lists                                                            *)

(* The walk along link from h meets s[1], ..., s[n], each once, then NULL. *)
Chain(link, h, n, s) ==
  /\ n \in Nat /\ s \in [1 .. n -> Nodes]
  /\ \A i, j \in 1 .. n : s[i] = s[j] => i = j
  /\ h = IF n = 0 THEN NULL ELSE s[1]
  /\ \A i \in 1 .. n : link[s[i]] = IF i = n THEN NULL ELSE s[i + 1]

(* back holds the walk in the other direction                              *)
Mirror(back, n, s) == \A i \in 1 .. n : back[s[i]] = IF i = 1 THEN NULL ELSE s[i - 1]

Members(n, s) == {s[i] : i \in 1 .. n}
Push(c, n, s) == [i \in 1 .. n + 1 |-> IF i = 1 THEN c ELSE s[i - 1]]
Cut(j, n, s) == [i \in 1 .. n - 1 |-> IF i < j THEN s[i] ELSE s[i + 1]]

(* The nodes of a list are nodes, its head is one of them and so is what   *)
(* follows one of them.                                                    *)
LEMMA ChainMembers ==
  ASSUME NEW link, NEW h, NEW n, NEW s, Chain(link, h, n, s)
  PROVE  /\ Members(n, s) \subseteq Nodes
         /\ h = NULL \/ h \in Members(n, s)
         /\ h = NULL => Members(n, s) = {}
         /\ \A c \in Members(n, s) : link[c] = NULL \/ link[c] \in Members(n, s)
BY NodesAssumption DEF Chain, Members

(* A node that is not in it can be put at the head of a list.              *)
LEMMA PushChain ==
  ASSUME NEW link, NEW h, NEW n, NEW s, Chain(link, h, n, s),
         NEW c \in Nodes \ Members(n, s),
         NEW link2, link2[c] = h, \A d \in Members(n, s) : link2[d] = link[d]
  PROVE  /\ Chain(link2, c, n + 1, Push(c, n, s))
         /\ Members(n + 1, Push(c, n, s)) = Members(n, s) \cup {c}
<1> DEFINE u == Push(c, n, s)
<1>1. /\ n \in Nat /\ n + 1 \in Nat /\ n + 1 # 0
      /\ \A i \in 1 .. n : s[i] \in Members(n, s) /\ s[i] \in Nodes
  BY DEF Chain, Members
<1>2. /\ u \in [1 .. n + 1 -> Nodes] /\ u[1] = c
      /\ \A i \in 1 .. n + 1 : i # 1 => u[i] = s[i - 1] /\ i - 1 \in 1 .. n
  BY <1>1 DEF Push
<1> HIDE DEF u
<1>3. \A i, j \in 1 .. n + 1 : u[i] = u[j] => i = j
  BY <1>1, <1>2 DEF Chain
<1>4. \A i \in 1 .. n + 1 : link2[u[i]] = IF i = n + 1 THEN NULL ELSE u[i + 1]
  <2> SUFFICES ASSUME NEW i \in 1 .. n + 1
               PROVE  link2[u[i]] = IF i = n + 1 THEN NULL ELSE u[i + 1]
    OBVIOUS
  <2>1. CASE i = 1
    BY <1>1, <1>2, <2>1 DEF Chain
  <2>2. CASE i # 1
    <3>1. link2[u[i]] = link[s[i - 1]] /\ i - 1 \in 1 .. n
      BY <1>1, <1>2, <2>2
    <3>2. link[s[i - 1]] = IF i - 1 = n THEN NULL ELSE s[i]
      BY <3>1 DEF Chain
    <3>3. i # n + 1 => u[i + 1] = s[i]
      BY <1>1, <1>2, <2>2
    <3>4. QED
      BY <1>1, <3>1, <3>2, <3>3
  <2>3. QED
    BY <2>1, <2>2
<1>5. Members(n + 1, u) = Members(n, s) \cup {c}
  <2>1. \A x \in Members(n + 1, u) : x \in Members(n, s) \cup {c}
    BY <1>1, <1>2 DEF Members
  <2>2. \A i \in 1 .. n : i + 1 \in 1 .. n + 1 /\ u[i + 1] = s[i]
    BY <1>1, <1>2
  <2>3. c \in Members(n + 1, u) /\ \A x \in Members(n, s) : x \in Members(n + 1, u)
    BY <1>1, <1>2, <2>2 DEF Members
  <2>4. QED
    BY <2>1, <2>3
<1>6. QED
  BY <1>1, <1>2, <1>3, <1>4, <1>5 DEF Chain, u

(* Any node can be taken out of a list: its predecessor, or the head, goes *)
(* on with what followed it.                                               *)
LEMMA CutChain ==
  ASSUME NEW link, NEW h, NEW n, NEW s, Chain(link, h, n, s), NEW j \in 1 .. n,
         NEW link2, j > 1 => link2[s[j - 1]] = link[s[j]],
         \A i \in 1 .. n : i # j /\ i # j - 1 => link2[s[i]] = link[s[i]],
         NEW h2, h2 = IF j = 1 THEN link[h] ELSE h
  PROVE  /\ Chain(link2, h2, n - 1, Cut(j, n, s))
         /\ Members(n - 1, Cut(j, n, s)) = Members(n, s) \ {s[j]}
<1> DEFINE u == Cut(j, n, s)
<1>1. n \in Nat /\ n - 1 \in Nat /\ \A i \in 1 .. n : s[i] \in Nodes
  BY DEF Chain
<1>2. /\ u \in [1 .. n - 1 -> Nodes]
      /\ \A i \in 1 .. n - 1 : i \in 1 .. n /\ i + 1 \in 1 .. n
      /\ \A i \in 1 .. n - 1 : i < j => u[i] = s[i]
      /\ \A i \in 1 .. n - 1 : i >= j => u[i] = s[i + 1]
  BY <1>1 DEF Cut
<1> HIDE DEF u
<1>3. \A i, k \in 1 .. n - 1 : u[i] = u[k] => i = k
  BY <1>1, <1>2 DEF Chain
<1>4. h2 = IF n - 1 = 0 THEN NULL ELSE u[1]
  BY <1>1, <1>2 DEF Chain
<1>5. \A i \in 1 .. n - 1 : link2[u[i]] = IF i = n - 1 THEN NULL ELSE u[i + 1]
  <2> SUFFICES ASSUME NEW i \in 1 .. n - 1
               PROVE  link2[u[i]] = IF i = n - 1 THEN NULL ELSE u[i + 1]
    OBVIOUS
  <2>1. i \in 1 .. n /\ i + 1 \in 1 .. n /\ (i # n - 1 => i + 1 \in 1 .. n - 1)
    BY <1>1
  <2>2. CASE i < j - 1
    BY <1>1, <1>2, <2>1, <2>2 DEF Chain
  <2>3. CASE i = j - 1
    BY <1>1, <1>2, <2>1, <2>3 DEF Chain
  <2>4. CASE i >= j
    <3>1. link2[u[i]] = link[s[i + 1]]
      BY <1>1, <1>2, <2>1, <2>4
    <3>2. link[s[i + 1]] = IF i + 1 = n THEN NULL ELSE s[i + 2]
      BY <2>1 DEF Chain
    <3>3. i # n - 1 => u[i + 1] = s[i + 2]
      BY <1>1, <1>2, <2>1, <2>4
    <3>4. QED
      BY <1>1, <3>1, <3>2, <3>3
  <2>5. QED
    BY <2>2, <2>3, <2>4
<1>6. Members(n - 1, u) = Members(n, s) \ {s[j]}
  <2>1. ASSUME NEW i \in 1 .. n - 1 PROVE u[i] \in Members(n, s) \ {s[j]}
    <3>1. PICK k \in 1 .. n : k # j /\ u[i] = s[k]
      BY <1>1, <1>2
    <3>2. s[k] # s[j]
      BY <3>1 DEF Chain
    <3>3. QED
      BY <3>1, <3>2 DEF Members
  <2>2. ASSUME NEW i \in 1 .. n, i # j PROVE s[i] \in Members(n - 1, u)
    <3>1. CASE i < j
      BY <1>1, <1>2, <3>1 DEF Members
    <3>2. CASE i > j
      <4>1. i - 1 \in 1 .. n - 1 /\ u[i - 1] = s[i]
        BY <1>1, <1>2, <3>2
      <4>2. QED
        BY <4>1 DEF Members
    <3>3. QED
      BY <2>2, <3>1, <3>2
  <2>3. QED
    BY <2>1, <2>2 DEF Members
<1>7. QED
  BY <1>1, <1>2, <1>3, <1>4, <1>5, <1>6 DEF Chain, u

(* Walk follows such a list and then stays at NULL.                        *)
LEMMA WalkChain ==
  ASSUME NEW h, NEW n, NEW s, Chain(next, h, n, s)
  PROVE  /\ DOMAIN Walk(h) = 0 .. Cardinality(Nodes)
         /\ \A k \in 0 .. Cardinality(Nodes) : Walk(h)[k] = IF k < n THEN s[k + 1] ELSE NULL
<1> DEFINE D == 0 .. Cardinality(Nodes)
           Step(f) == [k \in D |-> IF k = 0 THEN h
                                   ELSE IF f[k - 1] = NULL THEN NULL ELSE next[f[k - 1]]]
           g == [k \in D |-> IF k < n THEN s[k + 1] ELSE NULL]
<1>1. Cardinality(Nodes) \in Nat
  BY NodesAssumption, FS_CardinalityType
<1>2. \A k \in D : g[k] = Step(g)[k]
  BY <1>1, NodesAssumption DEF Chain
<1>3. g = Step(g)
  BY <1>2
<1>4. Walk(h) = CHOOSE f : f = Step(f)
  BY DEF Walk
<1> HIDE DEF Step, g
<1>5. Walk(h) = Step(Walk(h))
  BY <1>3, <1>4, Zenon
<1> USE DEF Step, g
<1> DEFINE S == {k \in Nat : k \in D => Walk(h)[k] = g[k]}
<1>6. 0 \in S
  BY <1>1, <1>3, <1>5
<1> HIDE DEF D, Step, g
<1>7. \A k \in Nat : k \in S => k + 1 \in S
  <2> SUFFICES ASSUME NEW k \in Nat, k \in D => Walk(h)[k] = g[k], k + 1 \in D
               PROVE  Walk(h)[k + 1] = g[k + 1]
    OBVIOUS
  <2>1. k \in D
    BY <1>1 DEF D
  <2>2. Walk(h)[k] = g[k]
    BY <2>1
  <2>3. Step(Walk(h))[k + 1] = Step(g)[k + 1]
    BY <2>2 DEF Step
  <2>4. QED
    BY <1>3, <1>5, <2>3
<1> HIDE DEF S
<1>8. \A k \in Nat : k \in S
  BY <1>6, <1>7, Induction
<1>9. \A k \in D : k \in S
  BY <1>1, <1>8 DEF D
<1>10. \A k \in D : Walk(h)[k] = g[k]
  BY <1>9 DEF S
<1>11. DOMAIN Step(Walk(h)) = D
  BY DEF Step
<1>12. QED
  BY <1>5, <1>10, <1>11 DEF D, g

(* The list that ListsIntact speaks of is the chain, and it comes to an    *)
(* end within as many steps as there are nodes.                            *)
LEMMA ListSeen ==
  ASSUME NEW h, NEW n, NEW s, Chain(next, h, n, s)
  PROVE  OnList(h) = Members(n, s) /\ Ends(h)
<1> DEFINE N == Cardinality(Nodes)
<1>1. N \in Nat /\ n \in Nat
  BY NodesAssumption, FS_CardinalityType DEF Chain
<1>2. n <= N
  <2>1. s \in Injection(1 .. n, Nodes)
    BY DEF Chain, Injection, IsInjective
  <2>2. Cardinality(1 .. n) = n
    BY <1>1, FS_Interval
  <2>3. QED
    BY <2>1, <2>2, NodesAssumption, FS_Injection
<1>3. \A k \in 0 .. N : Walk(h)[k] = IF k < n THEN s[k + 1] ELSE NULL
  BY WalkChain
<1>4. Ends(h)
  BY <1>1, <1>2, <1>3 DEF Ends
<1>5. \A k \in 0 .. N : Walk(h)[k] # NULL => Walk(h)[k] \in Members(n, s)
  BY <1>1, <1>3 DEF Members
<1>6. ASSUME NEW i \in 1 .. n PROVE s[i] \in OnList(h)
  <2>1. i - 1 \in 0 .. N /\ i - 1 < n
    BY <1>1, <1>2
  <2>2. Walk(h)[i - 1] = s[i]
    BY <1>1, <1>3, <2>1
  <2>3. s[i] # NULL
    BY NodesAssumption DEF Chain
  <2>4. QED
    BY <2>1, <2>2, <2>3 DEF OnList
<1>7. QED
  BY <1>4, <1>5, <1>6 DEF OnList, Members

(* What FirstReady finds is on the ready list.                             *)
LEMMA FoundReady ==
  ASSUME NEW n, NEW s, Chain(next, connect_ready, n, s),
         NEW hits, hits \subseteq {k \in DOMAIN Walk(connect_ready) : Walk(connect_ready)[k] # NULL},
         hits # {}
  PROVE  Walk(connect_ready)[Min(hits)] \in Members(n, s)
<1>1. DOMAIN Walk(connect_ready) = 0 .. Cardinality(Nodes) /\ Cardinality(Nodes) \in Nat
  BY WalkChain, NodesAssumption, FS_CardinalityType
<1>2. \E x \in hits : \A y \in hits : x <= y
  BY <1>1, LeastNumber
<1>3. Min(hits) \in hits
  BY <1>2 DEF Min
<1>4. Walk(connect_ready)[Min(hits)] \in OnList(connect_ready)
  BY <1>1, <1>3 DEF OnList
<1>5. QED
  BY <1>4, ListSeen

(* Every node of the ready list is met by the walk that FirstReady makes.  *)
LEMMA WalkMeets ==
  ASSUME NEW n, NEW s, Chain(next, connect_ready, n, s), NEW d \in Members(n, s)
  PROVE  \E k \in DOMAIN Walk(connect_ready) : Walk(connect_ready)[k] = d /\ d # NULL
<1>1. DOMAIN Walk(connect_ready) = 0 .. Cardinality(Nodes)
  BY WalkChain
<1>2. d \in OnList(connect_ready)
  BY ListSeen
<1>3. QED
  BY <1>1, <1>2 DEF OnList

(* The first of some account slots is one of them.                         *)
LEMMA FirstSlot ==
  ASSUME NEW S, S \subseteq Slots, S # {}
  PROVE  Min(S) \in S
<1>1. S \subseteq Nat
  BY SlotsAssumption DEF Slots
<1>2. \E x \in S : \A y \in S : x <= y
  BY <1>1, LeastNumber
<1>3. QED
  BY <1>2 DEF Min

-----------------------------------------------------------------------------
(* The operations on the lists                                             *)

(* The links of a list matter only at its nodes.                           *)
LEMMA SameChain ==
  ASSUME NEW link, NEW h, NEW n, NEW s, Chain(link, h, n, s),
         NEW link2, \A d \in Members(n, s) : link2[d] = link[d]
  PROVE  Chain(link2, h, n, s)
BY DEF Chain, Members

(* alloc_connection keeps the mirror.                                      *)
LEMMA PushMirror ==
  ASSUME NEW link, NEW h, NEW n, NEW s, Chain(link, h, n, s),
         NEW back, Mirror(back, n, s), NEW c \in Nodes \ Members(n, s)
  PROVE  Mirror([d \in Nodes |-> IF d = c THEN NULL ELSE IF d = h THEN c ELSE back[d]],
                n + 1, Push(c, n, s))
<1> DEFINE u == Push(c, n, s)
           back2 == [d \in Nodes |-> IF d = c THEN NULL ELSE IF d = h THEN c ELSE back[d]]
<1>1. n \in Nat /\ \A i \in 1 .. n : s[i] \in Nodes /\ s[i] # c
  BY DEF Chain, Members
<1>2. u[1] = c /\ \A i \in 1 .. n : u[i + 1] = s[i] /\ i + 1 \in 1 .. n + 1
  BY <1>1 DEF Push
<1>3. \A i \in 1 .. n : back2[s[i]] = IF i = 1 THEN c ELSE s[i - 1]
  BY <1>1 DEF Chain, Mirror
<1>4. back2[c] = NULL
  OBVIOUS
<1> HIDE DEF u, back2
<1>5. ASSUME NEW i \in 1 .. n + 1 PROVE back2[u[i]] = IF i = 1 THEN NULL ELSE u[i - 1]
  <2>1. CASE i = 1
    BY <1>2, <1>4, <2>1
  <2>2. CASE i # 1
    <3>1. i - 1 \in 1 .. n /\ u[i] = s[i - 1]
      BY <1>1, <1>2, <2>2
    <3>2. back2[s[i - 1]] = IF i - 1 = 1 THEN c ELSE s[i - 2]
      BY <1>3, <3>1
    <3>3. u[i - 1] = IF i - 1 = 1 THEN c ELSE s[i - 2]
      BY <1>1, <1>2, <3>1
    <3>4. QED
      BY <2>2, <3>1, <3>2, <3>3
  <2>3. QED
    BY <2>1, <2>2
<1>6. QED
  BY <1>5 DEF Mirror, u, back2

(* free_connection keeps the mirror.                                       *)
LEMMA CutMirror ==
  ASSUME NEW link, NEW h, NEW n, NEW s, Chain(link, h, n, s), NEW j \in 1 .. n,
         NEW back, Mirror(back, n, s),
         NEW back2, j < n => back2[s[j + 1]] = back[s[j]],
         \A i \in 1 .. n : i # j /\ i # j + 1 => back2[s[i]] = back[s[i]]
  PROVE  Mirror(back2, n - 1, Cut(j, n, s))
<1> DEFINE u == Cut(j, n, s)
<1>1. n \in Nat
  BY DEF Chain
<1>2. /\ \A i \in 1 .. n - 1 : i \in 1 .. n /\ i + 1 \in 1 .. n
      /\ \A i \in 1 .. n - 1 : i < j => u[i] = s[i]
      /\ \A i \in 1 .. n - 1 : i >= j => u[i] = s[i + 1]
  BY <1>1 DEF Cut
<1> HIDE DEF u
<1>3. ASSUME NEW i \in 1 .. n - 1 PROVE back2[u[i]] = IF i = 1 THEN NULL ELSE u[i - 1]
  <2>1. i \in 1 .. n /\ i + 1 \in 1 .. n /\ (i # 1 => i - 1 \in 1 .. n - 1)
    BY <1>1
  <2>2. CASE i < j
    BY <1>1, <1>2, <2>1, <2>2 DEF Mirror
  <2>3. CASE i = j
    <3>1. back2[u[i]] = back[s[j]] /\ back[s[j]] = IF j = 1 THEN NULL ELSE s[j - 1]
      BY <1>1, <1>2, <2>1, <2>3 DEF Mirror
    <3>2. QED
      BY <1>1, <1>2, <2>1, <2>3, <3>1
  <2>4. CASE i > j
    <3>1. back2[u[i]] = back[s[i + 1]] /\ back[s[i + 1]] = s[i]
      BY <1>1, <1>2, <2>1, <2>4 DEF Mirror
    <3>2. QED
      BY <1>1, <1>2, <2>1, <2>4, <3>1
  <2>5. QED
    BY <2>2, <2>3, <2>4
<1>4. QED
  BY <1>3 DEF Mirror, u

(* The pointers are those of a ready list s and a free list t that share   *)
(* no node and hold every node malloc'ed.                                  *)
Intact(n, s, m, t) ==
  /\ Chain(next, connect_ready, n, s) /\ Mirror(last, n, s)
  /\ Chain(next, connect_free, m, t)
  /\ Members(n, s) \cap Members(m, t) = {} /\ Members(n, s) \cup Members(m, t) = heap

(* alloc_connection: the node it returns was on the free list or is new,   *)
(* and heads the ready list now.                                           *)
LEMMA AllocIntact ==
  ASSUME TypeOK, NEW n, NEW s, NEW m, NEW t, Intact(n, s, m, t),
         NEW c \in Nodes, NEW may, TakeNode(c, may)
  PROVE  /\ c \notin Members(n, s) /\ heap' = heap \cup {c}
         /\ Members(n + 1, Push(c, n, s)) = Members(n, s) \cup {c}
         /\ \E m2, t2 : Intact(n + 1, Push(c, n, s), m2, t2)'
<1>1. /\ next' = [next EXCEPT ![c] = connect_ready] /\ connect_ready' = c
      /\ last' = [d \in Nodes |-> IF d = c THEN NULL ELSE IF d = connect_ready THEN c ELSE last[d]]
      /\ next \in [Nodes -> Null(Nodes)]
  BY DEF TakeNode, TypeOK
<1>2. Members(n, s) \subseteq Nodes /\ Members(m, t) \subseteq Nodes
  BY ChainMembers DEF Intact
<1>3. ASSUME c \notin Members(n, s)
      PROVE  /\ Chain(next', connect_ready', n + 1, Push(c, n, s))
             /\ Members(n + 1, Push(c, n, s)) = Members(n, s) \cup {c}
             /\ Mirror(last', n + 1, Push(c, n, s))
  <2>1. next'[c] = connect_ready /\ \A d \in Members(n, s) : next'[d] = next[d]
    BY <1>1, <1>2, <1>3
  <2>2. /\ Chain(next', c, n + 1, Push(c, n, s))
        /\ Members(n + 1, Push(c, n, s)) = Members(n, s) \cup {c}
    BY <1>3, <2>1, PushChain DEF Intact
  <2>3. Mirror(last', n + 1, Push(c, n, s))
    BY <1>1, <1>3, PushMirror DEF Intact
  <2>4. QED
    BY <1>1, <2>2, <2>3
<1>4. CASE connect_free # NULL /\ c = connect_free /\ connect_free' = next[c] /\ UNCHANGED heap
  <2>1. c \in Members(m, t) /\ c \notin Members(n, s) /\ c \in heap
    BY <1>4, ChainMembers DEF Intact
  <2>2. m \in Nat /\ 1 \in 1 .. m /\ t[1] = c
    BY <1>4 DEF Intact, Chain
  <2>3. \A i \in 1 .. m : i # 1 => next'[t[i]] = next[t[i]]
    BY <1>1, <2>2 DEF Intact, Chain
  <2>4. /\ Chain(next', connect_free', m - 1, Cut(1, m, t))
        /\ Members(m - 1, Cut(1, m, t)) = Members(m, t) \ {c}
    <3>1. connect_free' = IF 1 = 1 THEN next[connect_free] ELSE connect_free
      BY <1>4
    <3>2. ~(1 > 1)
      OBVIOUS
    <3>3. Chain(next, connect_free, m, t)
      BY DEF Intact
    <3>4. \A i \in 1 .. m : i # 1 /\ i # 1 - 1 => next'[t[i]] = next[t[i]]
      BY <2>3
    <3>5. /\ Chain(next', connect_free', m - 1, Cut(1, m, t))
          /\ Members(m - 1, Cut(1, m, t)) = Members(m, t) \ {t[1]}
      BY <2>2, <3>1, <3>2, <3>3, <3>4, CutChain
    <3>6. QED
      BY <2>2, <3>5
  <2>5. Intact(n + 1, Push(c, n, s), m - 1, Cut(1, m, t))'
    BY <1>3, <1>4, <2>1, <2>4 DEF Intact
  <2>6. QED
    BY <1>3, <1>4, <2>1, <2>5
<1>5. CASE c \notin heap /\ heap' = heap \cup {c} /\ UNCHANGED connect_free
  <2>1. c \notin Members(n, s) /\ c \notin Members(m, t)
    BY <1>5 DEF Intact
  <2>2. \A d \in Members(m, t) : next'[d] = next[d]
    BY <1>1, <1>2, <2>1
  <2>3. Chain(next', connect_free', m, t)
    BY <1>5, <2>2, SameChain DEF Intact
  <2>4. Intact(n + 1, Push(c, n, s), m, t)'
    BY <1>3, <1>5, <2>1, <2>3 DEF Intact
  <2>5. QED
    BY <1>3, <1>5, <2>1, <2>4
<1>6. QED
  BY <1>4, <1>5 DEF TakeNode

(* free_connection of a node of the ready list moves it to the free list.  *)
LEMMA FreeIntact ==
  ASSUME TypeOK, NEW n, NEW s, NEW m, NEW t, Intact(n, s, m, t),
         NEW j \in 1 .. n, free_connection(s[j])
  PROVE  /\ Intact(n - 1, Cut(j, n, s), m + 1, Push(s[j], m, t))'
         /\ Members(n - 1, Cut(j, n, s)) = Members(n, s) \ {s[j]}
         /\ Members(m + 1, Push(s[j], m, t)) = Members(m, t) \cup {s[j]}
<1> DEFINE c == s[j]
<1>1. /\ n \in Nat /\ s \in [1 .. n -> Nodes] /\ \A i, k \in 1 .. n : s[i] = s[k] => i = k
      /\ next \in [Nodes -> Null(Nodes)] /\ last \in [Nodes -> Null(Nodes)]
      /\ NULL \notin Nodes
  BY NodesAssumption DEF Intact, Chain, TypeOK
<1>2. /\ last[c] = IF j = 1 THEN NULL ELSE s[j - 1]
      /\ next[c] = IF j = n THEN NULL ELSE s[j + 1]
      /\ connect_ready = s[1]
  BY <1>1 DEF Intact, Chain, Mirror
<1>3. /\ c \in Members(n, s) /\ c \in Nodes /\ c \notin Members(m, t) /\ c \in heap
      /\ Members(n, s) \subseteq Nodes /\ Members(m, t) \subseteq Nodes
  <2>1. c \in Members(n, s)
    BY DEF Members
  <2>2. QED
    BY <2>1, ChainMembers DEF Intact
<1>4. j > 1 => j - 1 \in 1 .. n /\ s[j - 1] # c /\ s[j - 1] \in Nodes
  BY <1>1
<1>5. Unlinked(c) = IF j = 1 THEN next ELSE [next EXCEPT ![s[j - 1]] = next[c]]
  <2>1. CASE j = 1
    BY <1>2, <2>1 DEF Unlinked
  <2>2. CASE j # 1
    <3>1. last[c] = s[j - 1] /\ last[c] # NULL
      BY <1>1, <1>2, <1>4, <2>2
    <3>2. QED
      BY <2>2, <3>1 DEF Unlinked
  <2>3. QED
    BY <2>1, <2>2
<1>6. Unlinked(c)[c] = next[c]
  BY <1>1, <1>3, <1>4, <1>5
<1>7. /\ next' = [Unlinked(c) EXCEPT ![c] = connect_free]
      /\ last' = IF next[c] # NULL THEN [last EXCEPT ![next[c]] = last[c]] ELSE last
      /\ connect_ready' = IF connect_ready = c THEN next[c] ELSE connect_ready
      /\ connect_free' = c /\ heap' = heap
  BY <1>6 DEF free_connection, PutNode
<1>8. /\ Chain(next', connect_ready', n - 1, Cut(j, n, s))
      /\ Members(n - 1, Cut(j, n, s)) = Members(n, s) \ {c}
  <2>1. j > 1 => next'[s[j - 1]] = next[s[j]]
    BY <1>1, <1>3, <1>4, <1>5, <1>7
  <2>2. \A i \in 1 .. n : i # j /\ i # j - 1 => next'[s[i]] = next[s[i]]
    <3> SUFFICES ASSUME NEW i \in 1 .. n, i # j, i # j - 1 PROVE next'[s[i]] = next[s[i]]
      OBVIOUS
    <3>1. s[i] \in Nodes /\ s[i] # c /\ (j > 1 => s[i] # s[j - 1])
      BY <1>1, <1>4
    <3>2. QED
      BY <1>1, <1>3, <1>5, <1>7, <3>1
  <2>3. connect_ready' = IF j = 1 THEN next[connect_ready] ELSE connect_ready
    BY <1>1, <1>2, <1>7
  <2>4. Chain(next, connect_ready, n, s)
    BY DEF Intact
  <2>5. QED
    BY <2>1, <2>2, <2>3, <2>4, CutChain
<1>9. Mirror(last', n - 1, Cut(j, n, s))
  <2>1. j < n => last'[s[j + 1]] = last[s[j]]
    BY <1>1, <1>2, <1>7
  <2>2. \A i \in 1 .. n : i # j /\ i # j + 1 => last'[s[i]] = last[s[i]]
    <3> SUFFICES ASSUME NEW i \in 1 .. n, i # j, i # j + 1 PROVE last'[s[i]] = last[s[i]]
      OBVIOUS
    <3>1. s[i] \in Nodes /\ (j < n => s[i] # s[j + 1])
      BY <1>1
    <3>2. QED
      BY <1>1, <1>2, <1>7, <3>1
  <2>3. Chain(next, connect_ready, n, s) /\ Mirror(last, n, s)
    BY DEF Intact
  <2>4. QED
    BY <2>1, <2>2, <2>3, CutMirror
<1>10. /\ Chain(next', connect_free', m + 1, Push(c, m, t))
       /\ Members(m + 1, Push(c, m, t)) = Members(m, t) \cup {c}
  <2>1. next'[c] = connect_free
    BY <1>1, <1>3, <1>5, <1>7
  <2>2. \A d \in Members(m, t) : next'[d] = next[d]
    <3> SUFFICES ASSUME NEW d \in Members(m, t) PROVE next'[d] = next[d]
      OBVIOUS
    <3>1. d # c /\ d \in Nodes /\ d \notin Members(n, s)
      BY <1>3 DEF Intact
    <3>2. j > 1 => d # s[j - 1]
      BY <1>4, <3>1 DEF Members
    <3>3. QED
      BY <1>1, <1>3, <1>5, <1>7, <3>1, <3>2
  <2>3. Chain(next, connect_free, m, t)
    BY DEF Intact
  <2>4. c \in Nodes \ Members(m, t)
    BY <1>3
  <2> HIDE DEF c
  <2>5. /\ Chain(next', c, m + 1, Push(c, m, t))
        /\ Members(m + 1, Push(c, m, t)) = Members(m, t) \cup {c}
    BY <2>1, <2>2, <2>3, <2>4, PushChain
  <2>6. QED
    BY <1>7, <2>5
<1>11. QED
  BY <1>3, <1>7, <1>8, <1>9, <1>10 DEF Intact

-----------------------------------------------------------------------------
(* The invariant                                                           *)

Referrers(c) == {r \in Requests : connect[r] = c}
Counted == \A c \in heap : conn[c].counter >= Cardinality(Referrers(c))

(* Requests refer to ready nodes, unless a logout has freed theirs.        *)
Held(n, s) ==
  \A r \in Requests : connect[r] # NULL => connect[r] \in Members(n, s) \/ r \in orphans

(* No account has two connections that are not revoked from one address,   *)
(* and only guest's connection points to no account.                       *)
Alike(c, d) ==
  /\ conn[c].slot # NULL /\ ~conn[c].revoke /\ ~conn[d].revoke
  /\ conn[c].slot = conn[d].slot /\ conn[c].ip = conn[d].ip
Unique(n, s) ==
  /\ \A c, d \in Members(n, s) : Alike(c, d) => c = d
  /\ \A c \in Members(n, s) : conn[c].slot = NULL => c = connect_guest

(* The sweep follows the ready list until it frees a node.  From there it  *)
(* follows the free list, behind the node that it has pushed.              *)
OnTrack(n, s, m, t) ==
  \/ at = NULL \/ at \in Members(n, s)
  \/ at \in Members(m, t) /\ Idle(connect_free)
Sound ==
  \E n, s, m, t :
    Intact(n, s, m, t) /\ Held(n, s) /\ Unique(n, s) /\ (pc = "sweep" => OnTrack(n, s, m, t))

(* A sweep that meets an idle node on the free list frees it again, then   *)
(* the node it freed before, and so on: it never gets back to requests.    *)
Spinning ==
  /\ pc = "sweep" /\ at # NULL /\ connect_free # NULL
  /\ Idle(at) /\ Idle(connect_free)

(* The arguments of check_user.                                            *)
CallOK == pc = "lookup" => call \in Requests \X Credentials \X Addrs

(* ListsIntact, CountsRequests, OneSession and AccountStable follow from   *)
(* this, which says what the lists are in the middle of a sweep, too.      *)
AInv == TypeOK /\ CallOK /\ (~confused => Counted /\ (Sound \/ Spinning))

(* alloc_connection leaves pointers and counters in their types.           *)
LEMMA TakeType ==
  ASSUME TypeOK, NEW c \in Nodes, TakeNode(c, connection_counter < MAX_CONNECTION)
  PROVE  /\ connect_ready' \in Null(Nodes) /\ connect_free' \in Null(Nodes)
         /\ next' \in [Nodes -> Null(Nodes)] /\ last' \in [Nodes -> Null(Nodes)]
         /\ heap' \subseteq Nodes /\ confused' \in BOOLEAN
         /\ connection_counter' \in Int /\ connection_counter' <= MAX_CONNECTION
<1>1. connect_ready \in Null(Nodes) /\ connect_free \in Null(Nodes) /\ NULL \in Null(Nodes)
      /\ c \in Null(Nodes) /\ connection_counter \in Int /\ connection_counter <= MAX_CONNECTION
  BY DEF TypeOK, Null
<1>2. connection_counter' \in Int /\ connection_counter' <= MAX_CONNECTION
  BY <1>1, CounterAssumption DEF TakeNode
<1>3. confused' \in BOOLEAN
  BY DEF TakeNode, Orphaned
<1>4. next' \in [Nodes -> Null(Nodes)] /\ last' \in [Nodes -> Null(Nodes)]
  BY <1>1 DEF TakeNode, TypeOK
<1>5. QED
  BY <1>1, <1>2, <1>3, <1>4 DEF TakeNode, TypeOK

(* So does free_connection, of any node.                                   *)
LEMMA PutType ==
  ASSUME TypeOK, NEW c \in Nodes, free_connection(c)
  PROVE  /\ connect_ready' \in Null(Nodes) /\ connect_free' \in Null(Nodes)
         /\ connect_guest' \in Null(Nodes)
         /\ next' \in [Nodes -> Null(Nodes)] /\ last' \in [Nodes -> Null(Nodes)]
         /\ heap' \subseteq Nodes /\ confused' \in BOOLEAN
         /\ connection_counter' \in Int /\ connection_counter' <= MAX_CONNECTION
<1>1. /\ connect_ready \in Null(Nodes) /\ connect_free \in Null(Nodes) /\ NULL \in Null(Nodes)
      /\ connect_guest \in Null(Nodes)
      /\ c \in Null(Nodes) /\ connection_counter \in Int /\ connection_counter <= MAX_CONNECTION
  BY DEF TypeOK, Null
<1>2. connection_counter' \in Int /\ connection_counter' <= MAX_CONNECTION
  BY <1>1, CounterAssumption DEF free_connection, PutNode
<1>3. confused' \in BOOLEAN
  BY DEF free_connection, PutNode, Orphaned
<1>4. Unlinked(c) \in [Nodes -> Null(Nodes)]
  BY <1>1 DEF Unlinked, TypeOK
<1>5. next' \in [Nodes -> Null(Nodes)]
  BY <1>1, <1>4 DEF free_connection, PutNode
<1>6. last' \in [Nodes -> Null(Nodes)]
  BY <1>1, <1>4 DEF free_connection, PutNode, TypeOK
<1>7. QED
  BY <1>1, <1>2, <1>3, <1>5, <1>6 DEF free_connection, PutNode, TypeOK

(* A node on no ready list that no logged-out request refers to is         *)
(* referred to by nobody.                                                  *)
LEMMA Unreferenced ==
  ASSUME NEW n, NEW s, Held(n, s), NEW c \in Nodes, c \notin Members(n, s), ~Orphaned(c)
  PROVE  Referrers(c) = {}
BY NodesAssumption DEF Held, Orphaned, Referrers

(* There are finitely many references to a node.                           *)
LEMMA ReferrersFinite ==
  ASSUME NEW c
  PROVE  IsFiniteSet(Referrers(c)) /\ Cardinality(Referrers(c)) \in Nat
<1>1. Referrers(c) \in SUBSET Requests
  BY DEF Referrers
<1>2. QED
  BY <1>1, RequestsAssumption, FS_Subset, FS_CardinalityType

(* Fewer references make a smaller number.                                 *)
LEMMA FewerReferrers ==
  ASSUME NEW c, NEW S, S \subseteq Referrers(c)
  PROVE  Cardinality(S) \in Nat /\ Cardinality(S) <= Cardinality(Referrers(c))
BY ReferrersFinite, FS_Subset, FS_CardinalityType

(* A node's counter is a number.                                           *)
LEMMA CounterType ==
  ASSUME NEW q \in Connection
  PROVE  q.counter \in Int
BY DEF Connection

(* What a step may do to a node besides its counter: the account and the   *)
(* address stay, and what was revoked remains so.                          *)
Tame(q, x) == x.slot = q.slot /\ x.ip = q.ip /\ (~x.revoke => ~q.revoke)

(* What the operations assign to a node is a node's contents, and only     *)
(* check_user assigns the account.                                         *)
LEMMA ContentsType ==
  ASSUME NEW q \in Connection, NEW old \in BOOLEAN, NEW k \in Int
  PROVE  /\ LET x == [q EXCEPT !.slot = NULL, !.counter = 0, !.expired = old, !.revoke = FALSE]
            IN  x \in Connection /\ x.counter = 0 /\ x.slot = NULL
         /\ LET x == [q EXCEPT !.expired = FALSE, !.counter = k]
            IN  x \in Connection /\ x.counter = k /\ Tame(q, x)
         /\ LET x == [q EXCEPT !.counter = k, !.expired = FALSE]
            IN  x \in Connection /\ x.counter = k /\ Tame(q, x)
         /\ LET x == [q EXCEPT !.revoke = TRUE]
            IN  x \in Connection /\ x.counter = q.counter /\ Tame(q, x)
         /\ LET x == [q EXCEPT !.expired = TRUE]
            IN  x \in Connection /\ x.counter = q.counter /\ Tame(q, x)
<1>1. NULL \in Null(Slots)
  BY DEF Null
<1>2. /\ [q EXCEPT !.slot = NULL, !.counter = 0, !.expired = old, !.revoke = FALSE] \in Connection
      /\ [q EXCEPT !.slot = NULL, !.counter = 0, !.expired = old, !.revoke = FALSE].counter = 0
      /\ [q EXCEPT !.slot = NULL, !.counter = 0, !.expired = old, !.revoke = FALSE].slot = NULL
  <2> DEFINE q1 == [q EXCEPT !.slot = NULL]
             q2 == [q1 EXCEPT !.counter = 0]
             q3 == [q2 EXCEPT !.expired = old]
             q4 == [q3 EXCEPT !.revoke = FALSE]
  <2>1. q1 \in Connection /\ q1.slot = NULL
    BY <1>1 DEF Connection
  <2> HIDE DEF q1
  <2>2. q2 \in Connection /\ q2.counter = 0 /\ q2.slot = NULL
    BY <2>1 DEF Connection
  <2> HIDE DEF q2
  <2>3. q3 \in Connection /\ q3.counter = 0 /\ q3.slot = NULL
    BY <2>2 DEF Connection
  <2> HIDE DEF q3
  <2>4. q4 \in Connection /\ q4.counter = 0 /\ q4.slot = NULL
    BY <2>3 DEF Connection
  <2>5. QED
    BY <2>4, Zenon DEF q1, q2, q3
<1>3. /\ [q EXCEPT !.expired = FALSE, !.counter = k] \in Connection
      /\ [q EXCEPT !.expired = FALSE, !.counter = k].counter = k
      /\ Tame(q, [q EXCEPT !.expired = FALSE, !.counter = k])
  BY DEF Connection, Tame
<1>4. /\ [q EXCEPT !.counter = k, !.expired = FALSE] \in Connection
      /\ [q EXCEPT !.counter = k, !.expired = FALSE].counter = k
      /\ Tame(q, [q EXCEPT !.counter = k, !.expired = FALSE])
  BY DEF Connection, Tame
<1>5. /\ [q EXCEPT !.revoke = TRUE] \in Connection
      /\ [q EXCEPT !.revoke = TRUE].counter = q.counter
      /\ Tame(q, [q EXCEPT !.revoke = TRUE])
  BY DEF Connection, Tame
<1>6. /\ [q EXCEPT !.expired = TRUE] \in Connection
      /\ [q EXCEPT !.expired = TRUE].counter = q.counter
      /\ Tame(q, [q EXCEPT !.expired = TRUE])
  BY DEF Connection, Tame
<1>7. QED
  BY <1>2, <1>3, <1>4, <1>5, <1>6, Zenon

(* A step that is tame to every node of a list keeps its nodes different,  *)
(* as long as guest's connection is the same.                              *)
LEMMA UniqueKept ==
  ASSUME NEW n, NEW s, Unique(n, s), connect_guest' = connect_guest,
         \A d \in Members(n, s) : Tame(conn[d], conn'[d])
  PROVE  Unique(n, s)'
<1>1. ASSUME NEW c \in Members(n, s), NEW d \in Members(n, s), Alike(c, d)' PROVE Alike(c, d)
  BY <1>1 DEF Alike, Tame
<1>2. Members(n, s)' = Members(n, s)
  BY DEF Members
<1>3. ASSUME NEW c \in Members(n, s), conn'[c].slot = NULL PROVE c = connect_guest
  BY <1>3 DEF Unique, Tame
<1>4. QED
  BY <1>1, <1>2, <1>3 DEF Unique

(* Nothing changes when nothing happens.                                   *)
LEMMA AInvStutter ==
  ASSUME AInv, UNCHANGED vars
  PROVE  AInv'
BY DEF vars, lists, config, AInv, TypeOK, CallOK, Counted, Sound, Spinning, Referrers, Held,
       Intact, Unique, Alike, OnTrack, Idle

(* Initially there is nothing.                                             *)
LEMMA InitConnections == Init => AInv
<1> SUFFICES ASSUME Init PROVE AInv
  OBVIOUS
<1>1. Garbage \in Connection
  BY DEF Garbage, Connection, Null
<1>2. TypeOK
  <2>1. conn \in [Nodes -> Connection]
    BY <1>1 DEF Init
  <2>2. connection_counter \in Int /\ connection_counter <= MAX_CONNECTION
    BY CounterAssumption DEF Init
  <2>3. /\ next \in [Nodes -> Null(Nodes)] /\ last \in [Nodes -> Null(Nodes)]
        /\ connect \in [Requests -> Null(Nodes)]
    BY DEF Init, Null
  <2>4. {connect_ready, connect_free, connect_guest, at} \subseteq Null(Nodes)
    BY DEF Init, Null
  <2>5. QED
    BY <2>1, <2>2, <2>3, <2>4 DEF Init, TypeOK
<1>3. CallOK /\ Counted
  BY DEF Init, CallOK, Counted
<1> DEFINE e == [i \in 1 .. 0 |-> NULL]
<1>4. e \in [1 .. 0 -> Nodes] /\ 0 \in Nat /\ \A i \in 1 .. 0 : FALSE
  OBVIOUS
<1> HIDE DEF e
<1>5. Members(0, e) = {}
  BY <1>4 DEF Members
<1>6. Intact(0, e, 0, e) /\ Held(0, e) /\ Unique(0, e) /\ pc # "sweep"
  BY <1>4, <1>5 DEF Init, Intact, Held, Unique, Chain, Mirror
<1>7. Sound
  BY <1>6 DEF Sound
<1>8. QED
  BY <1>2, <1>3, <1>7 DEF AInv

-----------------------------------------------------------------------------
(* The steps                                                               *)

(* A node that is taken has no request, unless a logout left it one, and   *)
(* it joins the ready list.                                                *)
LEMMA TakeSound ==
  ASSUME AInv, ~confused, pc # "sweep", NEW c \in Nodes, alloc_connection(c)
  PROVE  /\ heap' = heap \cup {c}
         /\ ~confused' => Referrers(c) = {}
         /\ \E n0, s0, n, s, m, t :
              /\ Chain(next, connect_ready, n0, s0) /\ Unique(n0, s0) /\ Held(n0, s0)
              /\ c \notin Members(n0, s0) /\ Members(n, s) = Members(n0, s0) \cup {c}
              /\ Intact(n, s, m, t)'
<1>1. PICK n, s, m, t : Intact(n, s, m, t) /\ Held(n, s) /\ Unique(n, s)
  BY DEF AInv, Sound, Spinning
<1>2. /\ c \notin Members(n, s) /\ heap' = heap \cup {c}
      /\ Members(n + 1, Push(c, n, s)) = Members(n, s) \cup {c}
      /\ \E m2, t2 : Intact(n + 1, Push(c, n, s), m2, t2)'
  BY <1>1, AllocIntact DEF AInv, alloc_connection
<1>3. ~confused' => Referrers(c) = {}
  BY <1>1, <1>2, Unreferenced DEF alloc_connection, TakeNode
<1>4. PICK m2, t2 : Intact(n + 1, Push(c, n, s), m2, t2)'
  BY <1>2
<1>5. Chain(next, connect_ready, n, s)
  BY <1>1 DEF Intact
<1>6. QED
  BY <1>1, <1>2, <1>3, <1>4, <1>5

(* check_user up to the guest's connection.                                *)
LEMMA CheckUserSteps ==
  ASSUME AInv, ~confused, NEW r \in Requests, NEW u \in Credentials, NEW a \in Addrs,
         CheckUser(r, u, a)
  PROVE  AInv'
<1>1. /\ pc = "serve" /\ UNCHANGED <<connect, config, at, orphans>>
      /\ TypeOK /\ Counted /\ Sound
  BY DEF CheckUser, AInv, Spinning
<1>2. CASE UNCHANGED <<lists, conn, pc, call>>
  <2>1. UNCHANGED vars
    BY <1>1, <1>2 DEF vars
  <2>2. QED
    BY <2>1, AInvStutter
<1>3. ASSUME pc' = "lookup", call' = <<r, u, a>> PROVE CallOK'
  BY <1>1, <1>3 DEF CallOK
<1>4. CASE pc' = "lookup" /\ call' = <<r, u, a>> /\ UNCHANGED <<lists, conn>>
  <2>1. TypeOK'
    BY <1>1, <1>4 DEF TypeOK, lists, config
  <2>2. Counted'
    BY <1>1, <1>4 DEF Counted, Referrers, lists
  <2>3. PICK n, s, m, t : Intact(n, s, m, t) /\ Held(n, s) /\ Unique(n, s)
    BY <1>1 DEF Sound
  <2>4. Intact(n, s, m, t)' /\ Held(n, s)' /\ Unique(n, s)'
    BY <1>1, <1>4, <2>3 DEF Intact, Held, Unique, Alike, lists
  <2>5. Sound'
    BY <1>4, <2>4 DEF Sound
  <2>6. QED
    BY <1>3, <1>4, <2>1, <2>2, <2>5 DEF AInv
<1>5. ASSUME connect_guest = NULL, NEW c \in Nodes, NEW old \in BOOLEAN,
             alloc_connection(c), connect_guest' = c,
             conn' = [conn EXCEPT ![c] = [@ EXCEPT !.slot = NULL, !.counter = 0,
                                                   !.expired = old, !.revoke = FALSE]],
             pc' = "lookup", call' = <<r, u, a>>
      PROVE  AInv'
  <2> DEFINE q == [conn[c] EXCEPT !.slot = NULL, !.counter = 0, !.expired = old, !.revoke = FALSE]
  <2>0. q \in Connection /\ q.counter = 0 /\ q.slot = NULL
    <3>1. conn[c] \in Connection
      BY <1>1 DEF TypeOK
    <3>2. QED
      BY <3>1, 0 \in Int, ContentsType, Zenon
  <2>00. /\ conn' = [conn EXCEPT ![c] = q] /\ conn \in [Nodes -> Connection]
         /\ heap \subseteq Nodes
    BY <1>1, <1>5 DEF TypeOK
  <2> HIDE DEF q
  <2>1. TypeOK'
    <3>3. conn' \in [Nodes -> Connection]
      BY <2>0, <2>00
    <3>4. {connect_ready', connect_free', connect_guest', at'} \subseteq Null(Nodes)
      BY <1>1, <1>5, TakeType DEF TypeOK, alloc_connection, Null
    <3>5. QED
      BY <1>1, <1>5, <3>3, <3>4, TakeType DEF TypeOK, alloc_connection, config
  <2>2. /\ heap' = heap \cup {c}
        /\ ~confused' => Referrers(c) = {}
    BY <1>1, <1>5, TakeSound
  <2>3. ASSUME ~confused' PROVE Counted'
    <3>1. Cardinality(Referrers(c)) = 0
      BY <2>2, <2>3, FS_EmptySet
    <3>2. conn'[c].counter = 0 /\ \A d \in Nodes : d # c => conn'[d] = conn[d]
      BY <2>0, <2>00
    <3>3. \A d : Referrers(d)' = Referrers(d)
      BY <1>1 DEF Referrers
    <3>4. QED
      BY <1>1, <2>00, <2>2, <3>1, <3>2, <3>3 DEF Counted
  <2>4. Sound'
    <3>1. PICK n0, s0, n, s, m, t :
             /\ Chain(next, connect_ready, n0, s0) /\ Unique(n0, s0) /\ Held(n0, s0)
             /\ c \notin Members(n0, s0) /\ Members(n, s) = Members(n0, s0) \cup {c}
             /\ Intact(n, s, m, t)'
      BY <1>1, <1>5, TakeSound
    <3>2. Held(n, s)'
      BY <1>1, <3>1 DEF Held
    <3>3. Members(n0, s0) \subseteq Nodes /\ NULL \notin Nodes
      BY <3>1, ChainMembers, NodesAssumption
    <3>4. \A d \in Members(n0, s0) : conn'[d] = conn[d] /\ conn[d].slot # NULL
      BY <1>5, <2>00, <3>1, <3>3 DEF Unique
    <3>5. conn'[c].slot = NULL
      BY <2>0, <2>00
    <3>6. Unique(n, s)'
      <4>1. ASSUME NEW d \in Members(n, s), NEW e \in Members(n, s), Alike(d, e)' PROVE d = e
        <5>1. d # c /\ e # c
          BY <3>5, <4>1 DEF Alike
        <5>2. d \in Members(n0, s0) /\ e \in Members(n0, s0)
          BY <3>1, <5>1
        <5>3. Alike(d, e)
          BY <3>4, <4>1, <5>2 DEF Alike
        <5>4. QED
          BY <3>1, <5>2, <5>3 DEF Unique
      <4>2. \A d \in Members(n, s) : conn'[d].slot = NULL => d = c
        BY <3>1, <3>4
      <4>3. Members(n, s)' = Members(n, s)
        BY DEF Members
      <4>4. QED
        BY <1>5, <4>1, <4>2, <4>3 DEF Unique
    <3>7. QED
      BY <1>5, <3>1, <3>2, <3>6 DEF Sound
  <2>5. QED
    BY <1>3, <1>5, <2>1, <2>3, <2>4 DEF AInv
<1>6. QED
  BY <1>2, <1>4, <1>5 DEF CheckUser

(* A tame change of node contents, or of the accounts.                     *)
LEMMA QuietConnections ==
  ASSUME AInv, ~confused, pc = "serve", UNCHANGED <<lists, connect, pc, call, at, orphans>>,
         conn' \in [Nodes -> Connection],
         \A d \in Nodes : conn'[d].counter = conn[d].counter /\ Tame(conn[d], conn'[d]),
         accounts' \in [Slots -> Users \cup {Blank}], user_auth_mode' \in {0, 1}
  PROVE  AInv'
<1>1. TypeOK /\ Counted /\ Sound
  BY DEF AInv, Spinning
<1>2. TypeOK' /\ CallOK'
  BY <1>1 DEF TypeOK, CallOK, lists
<1>3. Counted'
  <2>1. heap \subseteq Nodes /\ heap' = heap /\ \A d : Referrers(d)' = Referrers(d)
    BY <1>1 DEF TypeOK, Referrers, lists
  <2>2. QED
    BY <1>1, <2>1 DEF Counted
<1>4. PICK n, s, m, t : Intact(n, s, m, t) /\ Held(n, s) /\ Unique(n, s)
  BY <1>1 DEF Sound
<1>5. Intact(n, s, m, t)' /\ Held(n, s)'
  BY <1>4 DEF Intact, Held, lists
<1>6. Unique(n, s)'
  <2>1. Members(n, s) \subseteq Nodes
    BY <1>4, ChainMembers DEF Intact
  <2>2. connect_guest' = connect_guest
    BY DEF lists
  <2>3. QED
    BY <1>4, <2>1, <2>2, UniqueKept
<1>7. Sound'
  BY <1>5, <1>6 DEF Sound
<1>8. QED
  BY <1>2, <1>3, <1>7 DEF AInv

(* A connection marked by revoke_connection or idle for too long.          *)
LEMMA MarkNode ==
  ASSUME TypeOK, NEW c \in Nodes,
         \/ conn' = [conn EXCEPT ![c].revoke = TRUE]
         \/ conn' = [conn EXCEPT ![c].expired = TRUE]
  PROVE  /\ conn' \in [Nodes -> Connection]
         /\ \A d \in Nodes : conn'[d].counter = conn[d].counter /\ Tame(conn[d], conn'[d])
<1>1. conn \in [Nodes -> Connection] /\ conn[c] \in Connection
  BY DEF TypeOK
<1>2. /\ LET x == [conn[c] EXCEPT !.revoke = TRUE]
         IN  x \in Connection /\ x.counter = conn[c].counter /\ Tame(conn[c], x)
      /\ LET x == [conn[c] EXCEPT !.expired = TRUE]
         IN  x \in Connection /\ x.counter = conn[c].counter /\ Tame(conn[c], x)
  BY <1>1, 0 \in Int, TRUE \in BOOLEAN, ContentsType, Zenon
<1>3. PICK x : /\ x \in Connection /\ x.counter = conn[c].counter /\ Tame(conn[c], x)
               /\ conn' = [conn EXCEPT ![c] = x]
  BY <1>1, <1>2, Zenon
<1>4. \A d \in Nodes : Tame(conn[d], conn[d])
  BY DEF Tame
<1>5. QED
  BY <1>1, <1>3, <1>4

(* user_del.cgi and deluser erase an account and mark a connection.        *)
LEMMA EraseSteps ==
  ASSUME AInv, ~confused, NEW r \in Requests, NEW name, NEW slots, slots \subseteq Slots,
         EraseUser(r, name, slots)
  PROVE  AInv'
<1> DEFINE hits == {s \in slots : accounts[s].name = name}
           erased == [accounts EXCEPT ![Min(hits)] = Blank]
           seen == {k \in DOMAIN Walk(connect_ready) :
                      /\ Walk(connect_ready)[k] # NULL
                      /\ UserIn(erased, Walk(connect_ready)[k]).name = name}
           c == IF seen = {} THEN NULL ELSE Walk(connect_ready)[Min(seen)]
<1>1. /\ pc = "serve" /\ UNCHANGED <<lists, connect, pc, call, at, orphans>> /\ hits # {}
      /\ accounts' = erased /\ user_auth_mode' = 1
      /\ UNCHANGED conn \/ (c # NULL /\ conn' = [conn EXCEPT ![c].revoke = TRUE])
  BY Zenon DEF EraseUser, FirstReady, Commands
<1>2. TypeOK /\ conn \in [Nodes -> Connection] /\ accounts \in [Slots -> Users \cup {Blank}]
  BY Zenon DEF AInv, TypeOK
<1>3. accounts' \in [Slots -> Users \cup {Blank}]
  BY <1>1, <1>2, Zenon
<1>4. seen \subseteq {k \in DOMAIN Walk(connect_ready) : Walk(connect_ready)[k] # NULL}
  OBVIOUS
<1> HIDE DEF hits, erased, seen
<1>5. CASE UNCHANGED conn
  <2>1. \A d \in Nodes : Tame(conn[d], conn'[d])
    BY <1>5 DEF Tame
  <2>2. QED
    BY <1>1, <1>2, <1>3, <1>5, <2>1, QuietConnections
<1>6. CASE c # NULL /\ conn' = [conn EXCEPT ![c].revoke = TRUE]
  <2>1. PICK n, s, m, t : Intact(n, s, m, t)
    BY <1>1 DEF AInv, Sound, Spinning
  <2>2. Chain(next, connect_ready, n, s) /\ Members(n, s) \subseteq Nodes
    BY <2>1, ChainMembers DEF Intact
  <2>3. c \in Nodes
    BY <1>4, <1>6, <2>2, FoundReady
  <2>4. /\ conn' \in [Nodes -> Connection]
        /\ \A d \in Nodes : conn'[d].counter = conn[d].counter /\ Tame(conn[d], conn'[d])
    <3> HIDE DEF c
    <3>1. QED
      BY <1>2, <1>6, <2>3, MarkNode
  <2>5. QED
    BY <1>1, <1>3, <2>4, QuietConnections
<1>7. QED
  BY <1>1, <1>5, <1>6

(* user_mod.cgi and adduser write an account.                              *)
LEMMA WriteSteps ==
  ASSUME AInv, ~confused, NEW r \in Requests, NEW u \in Users, NEW slots, WriteUser(r, u, slots)
  PROVE  AInv'
<1>1. /\ pc = "serve" /\ UNCHANGED <<lists, conn, connect, pc, call, at, orphans>>
      /\ user_auth_mode' = 1 /\ \E s : accounts' = [accounts EXCEPT ![s] = u]
  BY DEF WriteUser, Commands
<1>2. conn \in [Nodes -> Connection] /\ accounts \in [Slots -> Users \cup {Blank}]
  BY DEF AInv, TypeOK
<1>3. accounts' \in [Slots -> Users \cup {Blank}]
  BY <1>1, <1>2
<1>4. \A d \in Nodes : Tame(conn[d], conn'[d])
  BY <1>1 DEF Tame
<1>5. QED
  BY <1>1, <1>2, <1>3, <1>4, QuietConnections

(* The commands on accounts, and time passing.                             *)
LEMMA AccountSteps ==
  ASSUME AInv, ~confused,
         \/ \E r \in Requests, name \in Names \cup {""} : uri_user_del(r, name) \/ del_user(r, name)
         \/ \E r \in Requests, u \in Users : uri_user_mod(r, u) \/ add_user(r, u)
         \/ \E c \in Nodes : Expire(c)
  PROVE  AInv'
<1>1. CASE \E r \in Requests, name \in Names \cup {""} : uri_user_del(r, name) \/ del_user(r, name)
  BY <1>1, EraseSteps DEF uri_user_del, del_user
<1>2. CASE \E r \in Requests, u \in Users : uri_user_mod(r, u) \/ add_user(r, u)
  BY <1>2, WriteSteps DEF uri_user_mod, add_user
<1>3. CASE \E c \in Nodes : Expire(c)
  <2>1. PICK c \in Nodes : Expire(c)
    BY <1>3
  <2>2. /\ pc = "serve" /\ UNCHANGED <<lists, connect, pc, call, at, orphans>>
        /\ TypeOK /\ conn' = [conn EXCEPT ![c].expired = TRUE]
    BY <2>1 DEF Expire, AInv
  <2>3. /\ conn' \in [Nodes -> Connection]
        /\ \A d \in Nodes : conn'[d].counter = conn[d].counter /\ Tame(conn[d], conn'[d])
    BY <2>2, MarkNode
  <2>4. accounts' \in [Slots -> Users \cup {Blank}] /\ user_auth_mode' \in {0, 1}
    BY <2>1, <2>2 DEF Expire, config, TypeOK
  <2>5. QED
    BY <2>2, <2>3, <2>4, QuietConnections
<1>4. QED
  BY <1>1, <1>2, <1>3

(* check_user looks for a connection of the user: it finds one on the      *)
(* ready list, takes one if there is none, or has none to give.            *)
LEMMA LookupSteps ==
  ASSUME AInv, ~confused, Lookup
  PROVE  AInv'
<1>1. /\ pc = "lookup" /\ pc' = "serve" /\ UNCHANGED <<config, at>>
      /\ TypeOK /\ Counted /\ Sound
      /\ call \in Requests \X Credentials \X Addrs
  BY DEF Lookup, AInv, Spinning, CallOK
<1> DEFINE r == call[1]
           u == call[2]
           a == call[3]
           hits == {k \in DOMAIN Walk(connect_ready) :
                      /\ Walk(connect_ready)[k] # NULL
                      /\ Matches(Walk(connect_ready)[k], u, a)}
           found == IF hits = {} THEN NULL ELSE Walk(connect_ready)[Min(hits)]
           slots == {s \in Slots : accounts[s] = u}
           fresh == [slot |-> Min(slots), ip |-> a, counter |-> 1,
                     expired |-> FALSE, revoke |-> FALSE]
<1>2. \/ /\ found # NULL /\ Login(found, conn[found].counter + 1) /\ UNCHANGED lists
      \/ /\ found = NULL /\ slots # {}
         /\ \E c \in Nodes :
              /\ alloc_connection(c) /\ UNCHANGED connect_guest
              /\ connect' = [connect EXCEPT ![r] = c] /\ orphans' = orphans \ {r}
              /\ conn' = [conn EXCEPT ![c] = fresh]
      \/ UNCHANGED <<lists, conn, connect, orphans>>
  BY Zenon DEF Lookup, FirstReady
<1>3. r \in Requests /\ u \in Credentials /\ a \in Addrs
  BY <1>1
<1>4. CallOK'
  BY <1>1 DEF CallOK
<1>5. PICK n, s, m, t : Intact(n, s, m, t) /\ Held(n, s) /\ Unique(n, s)
  BY <1>1 DEF Sound
<1>6. /\ connect \in [Requests -> Null(Nodes)] /\ conn \in [Nodes -> Connection]
      /\ heap \subseteq Nodes /\ NULL \notin Nodes /\ orphans \subseteq Requests
  BY <1>1, NodesAssumption DEF TypeOK
<1>7. found # NULL => found \in Members(n, s)
  <2>1. Chain(next, connect_ready, n, s)
    BY <1>5 DEF Intact
  <2>2. hits \subseteq {k \in DOMAIN Walk(connect_ready) : Walk(connect_ready)[k] # NULL}
    OBVIOUS
  <2> HIDE DEF hits
  <2>3. QED
    BY <2>1, <2>2, FoundReady
<1>8. Members(n, s) \subseteq heap /\ Members(n, s) \subseteq Nodes
  BY <1>5, ChainMembers DEF Intact
<1>9. slots # {} => Min(slots) \in Slots /\ accounts[Min(slots)] = u
  <2>1. slots # {} => Min(slots) \in slots
    BY FirstSlot
  <2>2. QED
    BY <2>1
<1>10. ASSUME found = NULL, NEW n0, NEW s0, Chain(next, connect_ready, n0, s0), NEW d \in Members(n0, s0)
       PROVE  ~Matches(d, u, a)
  <2>1. PICK k \in DOMAIN Walk(connect_ready) : Walk(connect_ready)[k] = d /\ d # NULL
    BY <1>10, WalkMeets
  <2>2. hits = {}
    <3>1. \A x \in hits : Walk(connect_ready)[x] # NULL
      OBVIOUS
    <3>2. DOMAIN Walk(connect_ready) = 0 .. Cardinality(Nodes) /\ Cardinality(Nodes) \in Nat
      BY <1>10, WalkChain, NodesAssumption, FS_CardinalityType
    <3>3. hits \subseteq Nat
      BY <3>2
    <3>4. hits # {} => \E x \in hits : \A y \in hits : x <= y
      BY <3>3, LeastNumber
    <3> HIDE DEF hits
    <3>5. hits # {} => Min(hits) \in hits
      BY <3>4 DEF Min
    <3>6. QED
      BY <1>10, <3>1, <3>5
  <2>3. QED
    BY <2>1, <2>2
<1> HIDE DEF hits, found, slots, r, u, a
<1>11. CASE found # NULL /\ Login(found, conn[found].counter + 1) /\ UNCHANGED lists
  <2>0. PICK c, q, k : c = found /\ q = r /\ k = conn[found].counter + 1
    OBVIOUS
  <2>1. c \in Nodes /\ c \in heap /\ conn[c] \in Connection /\ c \in Members(n, s) /\ q \in Requests
    BY <1>3, <1>6, <1>7, <1>8, <1>11, <2>0
  <2>2. conn[c].counter \in Int /\ k = conn[c].counter + 1 /\ k \in Int
    BY <2>0, <2>1, CounterType
  <2>3. PICK x : x = [conn[c] EXCEPT !.expired = FALSE, !.counter = k]
    OBVIOUS
  <2>4. x \in Connection /\ x.counter = k /\ Tame(conn[c], x)
    <3>1. PICK y : y = conn[c]
      OBVIOUS
    <3>2. y \in Connection /\ k \in Int /\ TRUE \in BOOLEAN /\ x = [y EXCEPT !.expired = FALSE, !.counter = k]
      BY <2>1, <2>2, <2>3, <3>1
    <3>3. x \in Connection /\ x.counter = k /\ Tame(y, x)
      BY ONLY <3>2, ContentsType, ZenonT(20)
    <3>4. QED
      BY <3>1, <3>3
  <2>5. /\ connect' = [connect EXCEPT ![q] = c] /\ orphans' = orphans \ {q}
        /\ conn' = [conn EXCEPT ![c] = x]
    BY <1>6, <1>11, <2>0, <2>1, <2>3 DEF Login, r
  <2>6. conn' \in [Nodes -> Connection] /\ connect' \in [Requests -> Null(Nodes)]
    BY <1>6, <2>1, <2>4, <2>5 DEF Null
  <2>7. TypeOK'
    BY <1>1, <1>6, <1>11, <2>5, <2>6 DEF TypeOK, lists, config
  <2>8. conn'[c] = x /\ \A d \in Nodes : d # c => conn'[d] = conn[d]
    BY <1>6, <2>1, <2>5
  <2>9. Counted'
    <3>1. Referrers(c)' = Referrers(c) \cup {q}
      BY <1>6, <2>1, <2>5 DEF Referrers
    <3>2. \A d \in Nodes : d # c => Referrers(d)' \subseteq Referrers(d)
      BY <1>6, <2>1, <2>5 DEF Referrers
    <3>3. Cardinality(Referrers(c)') <= Cardinality(Referrers(c)) + 1
      BY <3>1, ReferrersFinite, FS_AddElement
    <3>4. conn[c].counter >= Cardinality(Referrers(c))
      BY <1>1, <2>1 DEF Counted
    <3>5. conn'[c].counter >= Cardinality(Referrers(c)')
      <4>0. IsFiniteSet(Referrers(c)) /\ IsFiniteSet(Referrers(c)')
        BY <3>1, ReferrersFinite, FS_AddElement
      <4>1. Cardinality(Referrers(c)) \in Nat /\ Cardinality(Referrers(c)') \in Nat
        BY <4>0, FS_CardinalityType
      <4>2. conn'[c].counter = conn[c].counter + 1
        BY <2>2, <2>4, <2>8
      <4>3. QED
        BY <2>2, <3>3, <3>4, <4>1, <4>2
    <3>6. \A d \in heap : d # c => conn'[d].counter >= Cardinality(Referrers(d)')
      <4> SUFFICES ASSUME NEW d \in heap, d # c PROVE conn'[d].counter >= Cardinality(Referrers(d)')
        OBVIOUS
      <4>1. conn'[d].counter = conn[d].counter /\ conn[d].counter \in Int
        BY <1>6, <2>8, CounterType
      <4>2. conn[d].counter >= Cardinality(Referrers(d)) /\ Cardinality(Referrers(d)) \in Nat
        BY <1>1, ReferrersFinite DEF Counted
      <4>3. Referrers(d)' \subseteq Referrers(d)
        BY <1>6, <3>2
      <4>4. Cardinality(Referrers(d)') \in Nat /\ Cardinality(Referrers(d)') <= Cardinality(Referrers(d))
        BY <4>3, FewerReferrers
      <4>5. QED
        BY <4>1, <4>2, <4>4
    <3>7. heap' = heap
      BY <1>11 DEF lists
    <3>8. QED
      BY <3>5, <3>6, <3>7 DEF Counted
  <2>10. Held(n, s)'
    BY <1>5, <1>6, <2>1, <2>5 DEF Held
  <2>11. Intact(n, s, m, t)'
    BY <1>5, <1>11 DEF Intact, lists
  <2>12. Unique(n, s)'
    <3>1. \A d \in Members(n, s) : Tame(conn[d], conn'[d])
      BY <1>8, <2>4, <2>8 DEF Tame
    <3>2. connect_guest' = connect_guest
      BY <1>11 DEF lists
    <3>3. QED
      BY <1>5, <3>1, <3>2, UniqueKept
  <2>13. Sound'
    BY <1>1, <2>10, <2>11, <2>12 DEF Sound
  <2>14. QED
    BY <1>4, <2>7, <2>9, <2>13 DEF AInv
<1>12. ASSUME found = NULL, slots # {}, NEW c \in Nodes, alloc_connection(c), UNCHANGED connect_guest,
              connect' = [connect EXCEPT ![r] = c], orphans' = orphans \ {r},
              conn' = [conn EXCEPT ![c] = fresh]
       PROVE  AInv'
  <2>0. PICK q, b, i : q = r /\ b = a /\ i = Min(slots)
    OBVIOUS
  <2>1. PICK x : /\ x \in Connection /\ x.slot = i /\ x.ip = b /\ x.counter = 1
                 /\ conn' = [conn EXCEPT ![c] = x]
    <3>1. fresh \in Connection /\ fresh.slot = i /\ fresh.ip = b /\ fresh.counter = 1
      BY <1>3, <1>9, <1>12, <2>0 DEF Connection, Null
    <3> HIDE DEF fresh
    <3>2. QED
      BY <1>12, <3>1
  <2>2. connect' = [connect EXCEPT ![q] = c] /\ orphans' = orphans \ {q} /\ q \in Requests
    BY <1>3, <1>12, <2>0
  <2>3. conn'[c] = x /\ \A d \in Nodes : d # c => conn'[d] = conn[d]
    BY <1>6, <2>1
  <2> HIDE DEF fresh
  <2>4. TypeOK'
    <3>1. conn' \in [Nodes -> Connection] /\ connect' \in [Requests -> Null(Nodes)]
      BY <1>6, <2>1, <2>2 DEF Null
    <3>2. {connect_ready', connect_free', connect_guest', at'} \subseteq Null(Nodes)
      BY <1>1, <1>12, TakeType DEF TypeOK, alloc_connection, Null
    <3>3. QED
      BY <1>1, <1>6, <1>12, <2>2, <3>1, <3>2, TakeType DEF TypeOK, alloc_connection, config
  <2>5. /\ heap' = heap \cup {c}
        /\ ~confused' => Referrers(c) = {}
    BY <1>1, <1>12, TakeSound
  <2>6. ASSUME ~confused' PROVE Counted'
    <3>1. Referrers(c)' = {q}
      BY <1>6, <2>2, <2>5, <2>6 DEF Referrers
    <3>2. Cardinality(Referrers(c)') = 1
      BY <3>1, FS_Singleton
    <3>3. \A d \in Nodes : d # c => Referrers(d)' \subseteq Referrers(d)
      BY <1>6, <2>2 DEF Referrers
    <3>4. \A d \in heap : d # c => conn'[d].counter >= Cardinality(Referrers(d)')
      <4> SUFFICES ASSUME NEW d \in heap, d # c PROVE conn'[d].counter >= Cardinality(Referrers(d)')
        OBVIOUS
      <4>1. conn'[d].counter = conn[d].counter /\ conn[d].counter \in Int
        BY <1>6, <2>3, CounterType
      <4>2. conn[d].counter >= Cardinality(Referrers(d)) /\ Cardinality(Referrers(d)) \in Nat
        BY <1>1, ReferrersFinite DEF Counted
      <4>3. Referrers(d)' \subseteq Referrers(d)
        BY <1>6, <3>3
      <4>4. Cardinality(Referrers(d)') \in Nat /\ Cardinality(Referrers(d)') <= Cardinality(Referrers(d))
        BY <4>3, FewerReferrers
      <4>5. QED
        BY <4>1, <4>2, <4>4
    <3>5. conn'[c].counter = 1
      BY <2>1, <2>3
    <3>6. conn'[c].counter >= Cardinality(Referrers(c)')
      BY <3>2, <3>5
    <3>7. QED
      BY <2>5, <3>4, <3>6 DEF Counted
  <2>7. Sound'
    <3>1. PICK n0, s0, n2, s2, m2, t2 :
             /\ Chain(next, connect_ready, n0, s0) /\ Unique(n0, s0) /\ Held(n0, s0)
             /\ c \notin Members(n0, s0) /\ Members(n2, s2) = Members(n0, s0) \cup {c}
             /\ Intact(n2, s2, m2, t2)'
      BY <1>1, <1>12, TakeSound
    <3>2. Held(n2, s2)'
      BY <1>6, <2>2, <3>1 DEF Held
    <3>3. Members(n0, s0) \subseteq Nodes
      BY <3>1, ChainMembers
    <3>4. \A d \in Members(n0, s0) : conn'[d] = conn[d]
      BY <2>3, <3>1, <3>3
    <3>5. i \in Slots /\ i # NULL /\ accounts[i] = u
      BY <1>9, <1>12, <2>0, SlotsAssumption DEF Slots
    <3>6. \A d \in Members(n0, s0) : ~(~conn[d].revoke /\ conn[d].slot = i /\ conn[d].ip = b)
      <4> SUFFICES ASSUME NEW d \in Members(n0, s0), ~conn[d].revoke, conn[d].slot = i, conn[d].ip = b
                   PROVE  FALSE
        OBVIOUS
      <4>1. UserIn(accounts, d) = u
        BY <3>5 DEF UserIn
      <4>2. ~Matches(d, u, a)
        BY <1>10, <1>12, <3>1
      <4>3. QED
        BY <2>0, <4>1, <4>2 DEF Matches
    <3>7. Unique(n2, s2)'
      <4>1. ASSUME NEW d \in Members(n2, s2), NEW e \in Members(n2, s2), Alike(d, e)' PROVE d = e
        <5>1. CASE d # c /\ e # c
          <6>1. d \in Members(n0, s0) /\ e \in Members(n0, s0)
            BY <3>1, <5>1
          <6>2. Alike(d, e)
            BY <3>4, <4>1, <6>1 DEF Alike
          <6>3. QED
            BY <3>1, <6>1, <6>2 DEF Unique
        <5>2. CASE d = c /\ e # c
          <6>1. e \in Members(n0, s0) /\ conn'[e] = conn[e]
            BY <3>1, <3>4, <5>2
          <6>2. ~conn[e].revoke /\ conn[e].slot = i /\ conn[e].ip = b
            BY <2>1, <2>3, <4>1, <5>2, <6>1 DEF Alike
          <6>3. QED
            BY <3>6, <6>1, <6>2
        <5>3. CASE d # c /\ e = c
          <6>1. d \in Members(n0, s0) /\ conn'[d] = conn[d]
            BY <3>1, <3>4, <5>3
          <6>2. ~conn[d].revoke /\ conn[d].slot = i /\ conn[d].ip = b
            BY <2>1, <2>3, <4>1, <5>3, <6>1 DEF Alike
          <6>3. QED
            BY <3>6, <6>1, <6>2
        <5>4. QED
          BY <5>1, <5>2, <5>3
      <4>2. \A d \in Members(n2, s2) : conn'[d].slot = NULL => d = connect_guest'
        BY <1>12, <2>1, <2>3, <3>1, <3>4, <3>5 DEF Unique
      <4>3. Members(n2, s2)' = Members(n2, s2)
        BY DEF Members
      <4>4. QED
        BY <4>1, <4>2, <4>3 DEF Unique
    <3>8. QED
      BY <1>1, <3>1, <3>2, <3>7 DEF Sound
  <2>8. QED
    BY <1>4, <2>4, <2>6, <2>7 DEF AInv
<1>13. CASE UNCHANGED <<lists, conn, connect, orphans>>
  <2>1. TypeOK'
    BY <1>1, <1>13 DEF TypeOK, lists, config
  <2>2. Counted'
    BY <1>1, <1>13 DEF Counted, Referrers, lists
  <2>3. Intact(n, s, m, t)' /\ Held(n, s)' /\ Unique(n, s)'
    BY <1>1, <1>5, <1>13 DEF Intact, Held, Unique, Alike, lists
  <2>4. Sound'
    BY <1>1, <2>3 DEF Sound
  <2>5. QED
    BY <1>4, <2>1, <2>2, <2>4 DEF AInv
<1>14. QED
  BY <1>2, <1>11, <1>12, <1>13

(* free_request takes the reference and its count back together.           *)
LEMMA ReleaseSteps ==
  ASSUME AInv, ~confused, NEW r \in Requests, Release(r)
  PROVE  AInv'
<1>0. PICK c, k : c = connect[r] /\ k = conn[c].counter - 1
  OBVIOUS
<1>1. /\ pc = "serve" /\ c # NULL /\ orphans' = orphans \ {r}
      /\ UNCHANGED <<lists, config, pc, call, at>> /\ TypeOK /\ Counted /\ Sound
      /\ connect' = [connect EXCEPT ![r] = NULL]
  BY <1>0 DEF Release, AInv, Spinning
<1>2. /\ connect \in [Requests -> Null(Nodes)] /\ conn \in [Nodes -> Connection]
      /\ heap \subseteq Nodes /\ NULL \notin Nodes
  BY <1>1, NodesAssumption DEF TypeOK
<1>3. c \in Nodes /\ conn[c] \in Connection
  BY <1>0, <1>1, <1>2 DEF Null
<1>4. conn' = [conn EXCEPT ![c] = [conn[c] EXCEPT !.counter = k, !.expired = FALSE]]
  BY <1>0, <1>2, <1>3, Zenon DEF Release
<1>5. k \in Int
  BY <1>0, <1>3 DEF Connection
<1>6. /\ [conn[c] EXCEPT !.counter = k, !.expired = FALSE] \in Connection
      /\ [conn[c] EXCEPT !.counter = k, !.expired = FALSE].counter = k
      /\ Tame(conn[c], [conn[c] EXCEPT !.counter = k, !.expired = FALSE])
  BY <1>3, <1>5, TRUE \in BOOLEAN, ContentsType, Zenon
<1>7. TypeOK'
  <2>1. conn' \in [Nodes -> Connection] /\ connect' \in [Requests -> Null(Nodes)]
    BY <1>1, <1>2, <1>3, <1>4, <1>6 DEF Null
  <2>2. QED
    BY <1>1, <2>1 DEF TypeOK, lists, config
<1>8. CallOK'
  BY <1>1 DEF CallOK
<1>9. Counted'
  <2>1. conn'[c].counter = k /\ \A d \in Nodes : d # c => conn'[d] = conn[d]
    BY <1>2, <1>3, <1>4, <1>6
  <2>2. Referrers(c)' = Referrers(c) \ {r} /\ r \in Referrers(c)
    BY <1>0, <1>1, <1>2, <1>3 DEF Referrers
  <2>3. \A d \in Nodes : d # c => Referrers(d)' = Referrers(d)
    BY <1>0, <1>1, <1>2, <1>3 DEF Referrers
  <2>4. Cardinality(Referrers(c)') = Cardinality(Referrers(c)) - 1
    BY <2>2, ReferrersFinite, FS_RemoveElement
  <2>5. c \in heap => conn[c].counter >= Cardinality(Referrers(c))
    BY <1>1 DEF Counted
  <2>6. \A d \in heap : d # c => conn'[d].counter >= Cardinality(Referrers(d)')
    BY <1>1, <1>2, <2>1, <2>3 DEF Counted
  <2>7. heap' = heap
    BY <1>1 DEF lists
  <2>8. c \in heap => conn'[c].counter >= Cardinality(Referrers(c)')
    <3>1. conn[c].counter \in Int /\ Cardinality(Referrers(c)) \in Nat
      BY <1>3, CounterType, ReferrersFinite
    <3>2. QED
      BY <1>0, <2>1, <2>4, <2>5, <3>1
  <2>9. QED
    BY <2>6, <2>7, <2>8 DEF Counted
<1>10. Sound'
  <2>1. PICK n, s, m, t : Intact(n, s, m, t) /\ Held(n, s) /\ Unique(n, s)
    BY <1>1 DEF Sound
  <2>2. Held(n, s)'
    BY <1>1, <1>2, <2>1 DEF Held
  <2>3. Intact(n, s, m, t)'
    BY <1>1, <2>1 DEF Intact, lists
  <2>4. \A d \in Nodes : d # c => Tame(conn[d], conn'[d])
    BY <1>2, <1>4 DEF Tame
  <2>5. Tame(conn[c], conn'[c])
    BY <1>2, <1>3, <1>4, <1>6
  <2>6. Unique(n, s)'
    <3>1. Members(n, s) \subseteq Nodes
      BY <2>1, ChainMembers DEF Intact
    <3>2. connect_guest' = connect_guest
      BY <1>1 DEF lists
    <3>3. QED
      BY <2>1, <2>4, <2>5, <3>1, <3>2, UniqueKept
  <2>7. QED
    BY <1>1, <2>2, <2>3, <2>6 DEF Sound
<1>11. QED
  BY <1>7, <1>8, <1>9, <1>10 DEF AInv

(* free_connection takes a node away from those that are different.        *)
LEMMA FreeUnique ==
  ASSUME NEW n, NEW s, Unique(n, s), NEW n2, NEW s2, NEW c, Members(n2, s2) = Members(n, s) \ {c},
         free_connection(c), UNCHANGED conn
  PROVE  Unique(n2, s2)'
<1>1. connect_guest' = IF connect_guest = c THEN NULL ELSE connect_guest
  BY DEF free_connection, PutNode
<1>2. Members(n2, s2)' = Members(n2, s2)
  BY DEF Members
<1>3. \A d, e : Alike(d, e)' = Alike(d, e)
  BY DEF Alike
<1>4. \A d, e \in Members(n2, s2) : Alike(d, e) => d = e
  BY DEF Unique
<1>5. \A d \in Members(n2, s2) : conn'[d].slot = NULL => d = connect_guest'
  BY <1>1 DEF Unique
<1>6. QED
  BY <1>2, <1>3, <1>4, <1>5 DEF Unique

(* What both callers of free_connection find.                              *)
LEMMA FreeTypes ==
  ASSUME AInv, NEW c \in Nodes, free_connection(c), pc # "lookup",
         UNCHANGED <<conn, connect, config, pc, call>>, at' \in Null(Nodes), orphans' \subseteq Requests
  PROVE  TypeOK' /\ CallOK' /\ (Counted => Counted')
<1>1. TypeOK
  BY DEF AInv
<1>2. {connect_ready', connect_free', connect_guest', at'} \subseteq Null(Nodes)
  BY <1>1, PutType
<1>3. TypeOK'
  BY <1>1, <1>2, PutType DEF TypeOK, config
<1>4. CallOK'
  BY DEF CallOK
<1>5. Counted => Counted'
  BY DEF Counted, Referrers, free_connection, PutNode
<1>6. QED
  BY <1>3, <1>4, <1>5

(* The command logout frees the connection under its requests, which are   *)
(* orphans from there on; without a connection it ends the process.        *)
LEMMA LogoutSteps ==
  ASSUME AInv, ~confused, NEW r \in Requests, user_logout(r)
  PROVE  AInv'
<1> DEFINE c == connect[r]
<1>1. /\ pc = "serve" /\ UNCHANGED <<conn, connect, config, call, at>>
      /\ TypeOK /\ Counted /\ Sound
  BY DEF user_logout, AInv, Spinning
<1>2. CASE pc' = "crash" /\ UNCHANGED <<lists, orphans>>
  <2>1. TypeOK' /\ CallOK' /\ Counted'
    BY <1>1, <1>2 DEF TypeOK, CallOK, Counted, Referrers, lists, config
  <2>2. PICK n, s, m, t : Intact(n, s, m, t) /\ Held(n, s) /\ Unique(n, s)
    BY <1>1 DEF Sound
  <2>3. Intact(n, s, m, t)' /\ Held(n, s)' /\ Unique(n, s)'
    BY <1>1, <1>2, <2>2 DEF Intact, Held, Unique, Alike, lists
  <2>4. Sound'
    BY <1>2, <2>3 DEF Sound
  <2>5. QED
    BY <2>1, <2>4 DEF AInv
<1>3. CASE /\ c # NULL /\ free_connection(c) /\ UNCHANGED pc
           /\ orphans' = orphans \cup {q \in Requests : connect[q] = c}
  <2>1. c \in Nodes
    BY <1>1, <1>3 DEF TypeOK, Null
  <2>2. orphans' \subseteq Requests /\ at' \in Null(Nodes)
    BY <1>1, <1>3 DEF TypeOK
  <2>3. TypeOK' /\ CallOK' /\ Counted'
    <3>1. pc # "lookup"
      BY <1>1
    <3> HIDE DEF c
    <3>2. QED
      BY <1>1, <1>3, <2>1, <2>2, <3>1, FreeTypes
  <2>4. ASSUME ~confused' PROVE Sound'
    <3>1. PICK n, s, m, t : Intact(n, s, m, t) /\ Held(n, s) /\ Unique(n, s)
      BY <1>1 DEF Sound
    <3>2. r \notin orphans
      BY <1>3, <2>4 DEF free_connection, PutNode, Orphaned
    <3>3. c \in Members(n, s)
      BY <1>3, <3>1, <3>2 DEF Held
    <3>4. PICK j \in 1 .. n : s[j] = c
      BY <3>3 DEF Members
    <3> HIDE DEF c
    <3>5. /\ Intact(n - 1, Cut(j, n, s), m + 1, Push(s[j], m, t))'
          /\ Members(n - 1, Cut(j, n, s)) = Members(n, s) \ {s[j]}
      BY <1>1, <1>3, <3>1, <3>4, FreeIntact
    <3>6. Held(n - 1, Cut(j, n, s))'
      BY <1>1, <1>3, <3>1, <3>4, <3>5 DEF Held
    <3>7. Unique(n - 1, Cut(j, n, s))'
      BY <1>1, <1>3, <3>1, <3>4, <3>5, FreeUnique
    <3>8. QED
      BY <1>1, <1>3, <3>5, <3>6, <3>7 DEF Sound
  <2>5. QED
    BY <2>3, <2>4 DEF AInv
<1>4. QED
  BY <1>2, <1>3 DEF user_logout

(* A node stays idle while the sweep frees nodes.                          *)
LEMMA IdleKept ==
  ASSUME NEW c \in Nodes, Idle(c), NEW d, free_connection(d), UNCHANGED <<conn, config>>
  PROVE  Idle(c)'
BY NodesAssumption DEF Idle, free_connection, PutNode, config

(* The node that free_connection has freed is followed by the free list.   *)
LEMMA FreedNext ==
  ASSUME TypeOK, NEW c \in Nodes, free_connection(c)
  PROVE  next'[c] = connect_free /\ connect_free' = c
<1>1. Unlinked(c) \in [Nodes -> Null(Nodes)]
  BY DEF Unlinked, TypeOK
<1>2. QED
  BY <1>1 DEF free_connection, PutNode

(* An idle node freed while an idle one heads the free list: the sweep goes *)
(* on with the latter, and the former heads the list now.                   *)
LEMMA SpinOn ==
  ASSUME TypeOK, SweepStep, Idle(at), connect_free # NULL, Idle(connect_free)
  PROVE  Spinning'
<1>1. PICK c, d : c = at /\ d = connect_free
  OBVIOUS
<1>2. /\ c \in Nodes /\ pc' = "sweep" /\ Idle(c) /\ free_connection(c) /\ at' = next'[c]
      /\ UNCHANGED <<conn, config>>
  BY <1>1 DEF SweepStep, TypeOK, Null
<1>3. d \in Nodes /\ Idle(d) /\ at' = d /\ connect_free' = c
  BY <1>1, <1>2, FreedNext DEF TypeOK, Null
<1>4. Idle(c)' /\ Idle(d)'
  BY <1>2, <1>3, IdleKept
<1>5. Idle(at)' /\ Idle(connect_free)'
  BY <1>3, <1>4 DEF Idle
<1>6. c # NULL /\ d # NULL
  BY <1>2, <1>3, NodesAssumption
<1>7. QED
  BY <1>2, <1>3, <1>5, <1>6 DEF Spinning

(* The sweep frees a node only if nobody refers to it; what it does after  *)
(* that is to follow the free list.                                        *)
LEMMA SweepSteps ==
  ASSUME AInv, ~confused, SweepBegin \/ SweepStep \/ SweepEnd
  PROVE  AInv'
<1>1. TypeOK /\ Counted /\ (Sound \/ Spinning) /\ UNCHANGED <<conn, connect, config, call, orphans>>
  BY DEF AInv, SweepBegin, SweepStep, SweepEnd
<1>2. ASSUME UNCHANGED lists, at' \in Null(Nodes), pc' \in {"serve", "sweep"}
      PROVE  TypeOK' /\ CallOK' /\ Counted'
  <2>1. TypeOK'
    BY <1>1, <1>2 DEF TypeOK, lists, config
  <2>2. CallOK'
    BY <1>2 DEF CallOK
  <2>3. Counted'
    BY <1>1, <1>2 DEF Counted, Referrers, lists
  <2>4. QED
    BY <2>1, <2>2, <2>3
<1>3. ASSUME NEW n, NEW s, NEW m, NEW t, Intact(n, s, m, t), Held(n, s), Unique(n, s), UNCHANGED lists
      PROVE  Intact(n, s, m, t)' /\ Held(n, s)' /\ Unique(n, s)'
  BY <1>1, <1>3 DEF Intact, Held, Unique, Alike, lists
<1>4. CASE SweepBegin
  <2>1. PICK n, s, m, t : Intact(n, s, m, t) /\ Held(n, s) /\ Unique(n, s)
    BY <1>1, <1>4 DEF SweepBegin, Sound, Spinning
  <2>2. at' = NULL \/ at' \in Members(n, s)
    BY <1>4, <2>1, ChainMembers DEF SweepBegin, Intact
  <2>3. Sound'
    BY <1>3, <1>4, <2>1, <2>2 DEF Sound, OnTrack, SweepBegin
  <2>4. at' \in Null(Nodes) /\ pc' = "sweep" /\ UNCHANGED lists
    BY <1>1, <1>4 DEF SweepBegin, TypeOK
  <2>5. QED
    BY <1>2, <2>3, <2>4 DEF AInv
<1>5. CASE SweepEnd
  <2>1. PICK n, s, m, t : Intact(n, s, m, t) /\ Held(n, s) /\ Unique(n, s)
    BY <1>1, <1>5 DEF SweepEnd, Sound, Spinning
  <2>2. Sound'
    BY <1>3, <1>5, <2>1 DEF Sound, SweepEnd
  <2>3. at' \in Null(Nodes) /\ pc' = "serve" /\ UNCHANGED lists
    BY <1>1, <1>5 DEF SweepEnd, TypeOK
  <2>4. QED
    BY <1>2, <2>2, <2>3 DEF AInv
<1>6. CASE SweepStep /\ ~Idle(at)
  <2>1. pc = "sweep" /\ pc' = "sweep" /\ at # NULL /\ UNCHANGED lists /\ at' = next[at] /\ at \in Nodes
    BY <1>1, <1>6 DEF SweepStep, lists, TypeOK, Null
  <2>2. PICK n, s, m, t : Intact(n, s, m, t) /\ Held(n, s) /\ Unique(n, s) /\ OnTrack(n, s, m, t)
    BY <1>1, <1>6, <2>1 DEF Sound, Spinning
  <2>3. at' \in Null(Nodes)
    BY <1>1, <2>1 DEF TypeOK
  <2>4. at' = NULL \/ at' \in Members(n, s) \/ (at' \in Members(m, t) /\ Idle(connect_free))
    BY <2>1, <2>2, ChainMembers DEF Intact, OnTrack
  <2>5. Idle(connect_free) => Idle(connect_free)'
    BY <1>1, <2>1 DEF Idle, lists, config
  <2>6. OnTrack(n, s, m, t)'
    BY <2>4, <2>5 DEF OnTrack
  <2>7. Sound'
    BY <1>3, <2>1, <2>2, <2>6 DEF Sound
  <2>8. QED
    BY <1>2, <2>1, <2>3, <2>7 DEF AInv
<1>7. CASE SweepStep /\ Idle(at)
  <2>1. PICK c : c = at
    OBVIOUS
  <2>2. /\ c \in Nodes /\ pc = "sweep" /\ pc' = "sweep" /\ Idle(c) /\ free_connection(c)
        /\ at' = next'[c]
    BY <1>1, <1>7, <2>1 DEF SweepStep, TypeOK, Null
  <2>3. at' = connect_free /\ connect_free' = c /\ connect_free \in Null(Nodes)
    BY <1>1, <2>2, FreedNext DEF TypeOK
  <2>4. Idle(c)'
    BY <1>1, <2>2, IdleKept
  <2>5. TypeOK' /\ CallOK' /\ Counted'
    <3>1. pc # "lookup" /\ orphans' \subseteq Requests /\ at' \in Null(Nodes)
      BY <1>1, <2>2, <2>3 DEF TypeOK
    <3>2. UNCHANGED <<conn, connect, config, pc, call>>
      BY <1>1, <2>2
    <3>3. QED
      BY <1>1, <2>2, <3>1, <3>2, FreeTypes
  <2>6. connect_free # NULL /\ Idle(connect_free) => Spinning'
    BY <1>1, <1>7, SpinOn
  <2>7. CASE Spinning
    <3>1. Spinning'
      BY <2>6, <2>7 DEF Spinning
    <3>2. QED
      BY <2>5, <3>1 DEF AInv
  <2>8. CASE Sound
    <3>1. PICK n, s, m, t : Intact(n, s, m, t) /\ Held(n, s) /\ Unique(n, s) /\ OnTrack(n, s, m, t)
      BY <2>2, <2>8 DEF Sound
    <3>2. CASE c \in Members(n, s)
      <4>1. PICK j \in 1 .. n : s[j] = c
        BY <3>2 DEF Members
      <4>2. /\ Intact(n - 1, Cut(j, n, s), m + 1, Push(s[j], m, t))'
            /\ Members(n - 1, Cut(j, n, s)) = Members(n, s) \ {s[j]}
            /\ Members(m + 1, Push(s[j], m, t)) = Members(m, t) \cup {s[j]}
        BY <1>1, <2>2, <3>1, <4>1, FreeIntact
      <4>3. Referrers(c) = {}
        <5>1. c \in heap /\ conn[c].counter = 0
          BY <2>2, <3>1, <3>2 DEF Intact, Idle
        <5>2. Cardinality(Referrers(c)) = 0
          BY <1>1, <5>1, ReferrersFinite DEF Counted
        <5>3. QED
          BY <5>2, ReferrersFinite, FS_EmptySet
      <4>4. Held(n - 1, Cut(j, n, s))'
        BY <1>1, <3>1, <4>1, <4>2, <4>3 DEF Held, Referrers
      <4>5. connect_free = NULL \/ connect_free \in Members(m, t)
        BY <3>1, ChainMembers DEF Intact
      <4>6. Idle(connect_free)'
        BY <2>3, <2>4 DEF Idle
      <4>7. OnTrack(n - 1, Cut(j, n, s), m + 1, Push(s[j], m, t))'
        BY <2>3, <4>2, <4>5, <4>6 DEF OnTrack
      <4>8. Unique(n - 1, Cut(j, n, s))'
        BY <1>1, <2>2, <3>1, <4>1, <4>2, FreeUnique
      <4>9. Sound'
        BY <4>2, <4>4, <4>7, <4>8 DEF Sound
      <4>10. QED
        BY <2>5, <4>9 DEF AInv
    <3>3. CASE c \in Members(m, t) /\ Idle(connect_free)
      <4>1. connect_free # NULL
        BY <3>1, <3>3, ChainMembers DEF Intact
      <4>2. Spinning'
        BY <2>6, <3>3, <4>1
      <4>3. QED
        BY <2>5, <4>2 DEF AInv
    <3>4. QED
      BY <1>7, <2>1, <3>1, <3>2, <3>3 DEF OnTrack, SweepStep
  <2>9. QED
    BY <1>1, <2>7, <2>8
<1>8. QED
  BY <1>4, <1>5, <1>6, <1>7

(* Every step keeps the invariant.                                         *)
LEMMA AInvInductive == AInv /\ [Next]_vars => AInv'
<1> SUFFICES ASSUME AInv, [Next]_vars PROVE AInv'
  OBVIOUS
<1>1. CASE UNCHANGED vars
  BY <1>1, AInvStutter
<1>2. CASE ~confused /\ Serve
  BY <1>2, CheckUserSteps, LookupSteps, ReleaseSteps, LogoutSteps, AccountSteps DEF Serve
<1>3. CASE ~confused /\ (SweepBegin \/ Sweep)
  BY <1>3, SweepSteps DEF Sweep
<1>4. QED
  BY <1>1, <1>2, <1>3 DEF Next, Stopped

(* So it always holds.                                                     *)
LEMMA AInvHolds == Spec => []AInv
BY InitConnections, AInvInductive, PTL DEF Spec

-----------------------------------------------------------------------------
(* What it shows                                                           *)

(* Every pointer of auth.c is null or points to a node, whatever logouts,  *)
(* revocations and sweeps do, and connection_counter keeps its limit.      *)
THEOREM ConnectionTypes == Spec => []TypeOK
<1>1. AInv => TypeOK
  BY DEF AInv
<1>2. QED
  BY <1>1, AInvHolds, PTL

(* Whenever requests are served, alloc_connection and free_connection have *)
(* left two disjoint lists that end, hold every node malloc'ed and, for    *)
(* the ready list, are linked in both directions.                          *)
THEOREM ConnectionLists == Spec => []ListsIntact
<1>1. ASSUME AInv, pc # "sweep", ~confused
      PROVE  /\ Ends(connect_ready) /\ Ends(connect_free)
             /\ OnList(connect_ready) \cap OnList(connect_free) = {}
             /\ OnList(connect_ready) \cup OnList(connect_free) = heap
             /\ connect_ready # NULL => last[connect_ready] = NULL
             /\ \A c \in OnList(connect_ready) : next[c] # NULL => last[next[c]] = c
  <2>1. PICK n, s, m, t : Intact(n, s, m, t)
    BY <1>1 DEF AInv, Sound, Spinning
  <2>2. /\ OnList(connect_ready) = Members(n, s) /\ Ends(connect_ready)
        /\ OnList(connect_free) = Members(m, t) /\ Ends(connect_free)
    BY <2>1, ListSeen DEF Intact
  <2>3. connect_ready # NULL => last[connect_ready] = NULL
    BY <2>1 DEF Intact, Chain, Mirror
  <2>4. ASSUME NEW i \in 1 .. n, next[s[i]] # NULL PROVE last[next[s[i]]] = s[i]
    <3>1. n \in Nat /\ i # n /\ next[s[i]] = s[i + 1]
      BY <2>1, <2>4 DEF Intact, Chain
    <3>2. i + 1 \in 1 .. n /\ i + 1 # 1 /\ (i + 1) - 1 = i
      BY <3>1
    <3>3. last[s[i + 1]] = s[i]
      BY <2>1, <3>2 DEF Intact, Mirror
    <3>4. QED
      BY <3>1, <3>3
  <2>5. QED
    BY <2>1, <2>2, <2>3, <2>4 DEF Intact, Members
<1>2. AInv => ListsIntact
  BY <1>1 DEF ListsIntact
<1>3. QED
  BY <1>2, AInvHolds, PTL

(* The counter of a connection is at least the number of requests that     *)
(* refer to it, which are on the ready list unless they have logged out:   *)
(* the sweep does not free a connection under a request.                   *)
THEOREM ConnectionCounts == Spec => []CountsRequests
<1>1. ASSUME AInv, ~confused
      PROVE  \A c \in heap : conn[c].counter >= Cardinality({r \in Requests : connect[r] = c})
  BY <1>1 DEF AInv, Counted, Referrers
<1>2. ASSUME AInv, ~confused, pc # "sweep", NEW r \in Requests, connect[r] # NULL
      PROVE  connect[r] \in OnList(connect_ready) \/ r \in orphans
  <2>1. PICK n, s, m, t : Intact(n, s, m, t) /\ Held(n, s)
    BY <1>2 DEF AInv, Sound, Spinning
  <2>2. OnList(connect_ready) = Members(n, s)
    BY <2>1, ListSeen DEF Intact
  <2>3. QED
    BY <1>2, <2>1, <2>2 DEF Held
<1>3. AInv => CountsRequests
  BY <1>1, <1>2 DEF CountsRequests
<1>4. QED
  BY <1>3, AInvHolds, PTL

(* Whatever accounts are deleted or written, no account has two            *)
(* connections from one address that are not revoked, and guest has one.   *)
THEOREM SessionsUnique == Spec => []OneSession
<1>1. ASSUME AInv, pc # "sweep", ~confused
      PROVE  /\ \A c, d \in OnList(connect_ready) : Alike(c, d) => c = d
             /\ \A c \in OnList(connect_ready) : conn[c].slot = NULL => c = connect_guest
  <2>1. PICK n, s, m, t : Intact(n, s, m, t) /\ Unique(n, s)
    BY <1>1 DEF AInv, Sound, Spinning
  <2>2. OnList(connect_ready) = Members(n, s)
    BY <2>1, ListSeen DEF Intact
  <2>3. QED
    BY <2>1, <2>2 DEF Unique
<1>2. AInv => OneSession
  BY <1>1 DEF OneSession, Alike
<1>3. QED
  BY <1>2, AInvHolds, PTL

(* The account and the address of a node to which a request refers before  *)
(* and after a step are left alone by the step.                            *)
LEMMA AccountLeft ==
  ASSUME AInv, Next, ~confused', NEW r \in Requests, NEW c, c = connect[r], c # NULL, connect'[r] = c
  PROVE  Tame(conn[c], conn'[c]) \/ conn' = conn
<1>1. /\ TypeOK /\ c \in Nodes /\ conn \in [Nodes -> Connection] /\ conn[c] \in Connection
      /\ r \in Referrers(c)
  BY NodesAssumption DEF AInv, TypeOK, Null, Referrers
<1>2. ASSUME NEW d, NEW x, conn' = [conn EXCEPT ![d] = x], d = c => Tame(conn[c], x)
      PROVE  Tame(conn[c], conn'[c])
  <2>1. CASE d = c
    BY <1>1, <1>2, <2>1
  <2>2. CASE d # c
    BY <1>1, <1>2, <2>2 DEF Tame
  <2>3. QED
    BY <2>1, <2>2
<1>3. ASSUME NEW d, NEW k,
             \/ conn' = [conn EXCEPT ![d].expired = FALSE, ![d].counter = k]
             \/ conn' = [conn EXCEPT ![d].counter = k, ![d].expired = FALSE]
             \/ conn' = [conn EXCEPT ![d].revoke = TRUE]
             \/ conn' = [conn EXCEPT ![d].expired = TRUE]
      PROVE  Tame(conn[c], conn'[c])
  <2>1. /\ Tame(conn[c], [conn[c] EXCEPT !.expired = FALSE, !.counter = k])
        /\ Tame(conn[c], [conn[c] EXCEPT !.counter = k, !.expired = FALSE])
        /\ Tame(conn[c], [conn[c] EXCEPT !.revoke = TRUE])
        /\ Tame(conn[c], [conn[c] EXCEPT !.expired = TRUE])
    BY <1>1 DEF Connection, Tame
  <2>2. CASE d = c
    BY <1>1, <1>3, <2>1, <2>2, Zenon
  <2>3. CASE d # c
    BY <1>1, <1>3, <2>3 DEF Tame
  <2>4. QED
    BY <2>2, <2>3
<1>4. ASSUME ~confused, pc # "sweep", NEW d \in Nodes, alloc_connection(d), NEW q,
             conn' = [conn EXCEPT ![d] = q]
      PROVE  Tame(conn[c], conn'[c])
  <2>1. Referrers(d) = {}
    BY <1>4, TakeSound
  <2>2. c # d
    BY <1>1, <2>1
  <2>3. QED
    BY <1>2, <1>4, <2>2
<1>5. CASE ~confused /\ \E q \in Requests, u \in Credentials, a \in Addrs : CheckUser(q, u, a)
  <2>1. pc # "sweep"
    BY <1>5 DEF CheckUser
  <2>2. CASE \E d \in Nodes, old \in BOOLEAN :
               /\ alloc_connection(d)
               /\ conn' = [conn EXCEPT ![d] = [conn[d] EXCEPT !.slot = NULL, !.counter = 0,
                                                        !.expired = old, !.revoke = FALSE]]
    BY <1>4, <1>5, <2>1, <2>2
  <2>3. QED
    BY <1>5, <2>2 DEF CheckUser
<1>6. CASE ~confused /\ Lookup
  <2>1. pc # "sweep"
    BY <1>6 DEF Lookup
  <2>2. ASSUME NEW d, NEW k, Login(d, k) PROVE Tame(conn[c], conn'[c])
    BY <1>3, <2>2 DEF Login
  <2>3. ASSUME NEW d \in Nodes, alloc_connection(d), NEW q, conn' = [conn EXCEPT ![d] = q]
        PROVE  Tame(conn[c], conn'[c])
    BY <1>4, <1>6, <2>1, <2>3
  <2>4. QED
    BY <1>6, <2>2, <2>3 DEF Lookup
<1>7. CASE \E q \in Requests : Release(q) \/ user_logout(q)
  BY <1>3, <1>7 DEF Release, user_logout
<1>8. CASE \/ \E q \in Requests, name \in Names \cup {""} : uri_user_del(q, name) \/ del_user(q, name)
           \/ \E q \in Requests, u \in Users : uri_user_mod(q, u) \/ add_user(q, u)
           \/ \E d \in Nodes : Expire(d)
  <2>1. ASSUME NEW q, NEW name, NEW slots, EraseUser(q, name, slots)
        PROVE  Tame(conn[c], conn'[c]) \/ conn' = conn
    BY <1>3, <2>1 DEF EraseUser
  <2>2. ASSUME NEW q, NEW u, NEW slots, WriteUser(q, u, slots) PROVE conn' = conn
    BY <2>2 DEF WriteUser
  <2>3. ASSUME NEW d, Expire(d) PROVE Tame(conn[c], conn'[c])
    BY <1>3, <2>3 DEF Expire
  <2>4. QED
    BY <1>8, <2>1, <2>2, <2>3 DEF uri_user_del, del_user, uri_user_mod, add_user
<1>9. CASE SweepBegin \/ Sweep \/ Stopped
  BY <1>9 DEF SweepBegin, Sweep, SweepStep, SweepEnd, Stopped, vars
<1>10. QED
  BY <1>5, <1>6, <1>7, <1>8, <1>9 DEF Next, Serve

(* A request stays with the account and the address it was checked for as  *)
(* long as it refers to its node, and no logged-out node is taken: a node  *)
(* is given to an account only if nobody refers to it.                     *)
THEOREM AccountKept == Spec => AccountStable
<1> DEFINE Same == \A r \in Requests : LET c == connect[r] IN
             (c # NULL /\ connect'[r] = c /\ ~confused') =>
               conn'[c].slot = conn[c].slot /\ conn'[c].ip = conn[c].ip
<1>1. ASSUME AInv, Next PROVE Same
  BY <1>1, AccountLeft DEF Tame
<1>2. AInv /\ [Next]_vars => [Same]_vars
  BY <1>1
<1>3. QED
  BY <1>2, AInvHolds, PTL DEF Spec, AccountStable

(* Once the sweep stands on an idle node while an idle node heads the free *)
(* list, free_connection leads it from the one to the other and back: no   *)
(* step ends the walk of process_requests, and no request is served again. *)
THEOREM SweepSpins == Spec => [][Spinning => Spinning']_vars
<1>1. ASSUME AInv, [Next]_vars, Spinning PROVE Spinning' \/ UNCHANGED vars
  <2>1. CASE UNCHANGED vars
    BY <2>1
  <2>2. CASE ~confused /\ Next
    <3>1. pc = "sweep" /\ at # NULL /\ connect_free # NULL /\ Idle(at) /\ Idle(connect_free)
      BY <1>1 DEF Spinning
    <3>2. SweepStep
      BY <2>2, <3>1 DEF Next, Serve, CheckUser, Lookup, Release, user_logout, uri_user_del, del_user,
         EraseUser, uri_user_mod, add_user, WriteUser, Commands, Expire, SweepBegin, Sweep, SweepEnd,
         Stopped
    <3>3. QED
      BY <1>1, <3>1, <3>2, SpinOn DEF AInv
  <2>3. QED
    BY <1>1, <2>1, <2>2 DEF Next, Stopped
<1>2. AInv /\ [Next]_vars => [Spinning => Spinning']_vars
  BY <1>1
<1>3. QED
  BY <1>2, AInvHolds, PTL DEF Spec

=============================================================================
