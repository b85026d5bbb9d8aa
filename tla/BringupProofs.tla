---------------------------- MODULE BringupProofs ----------------------------
(***************************************************************************)
(* Proofs about bringing a segment up, for every number of slaves, every   *)
(* tree of them, every set of devices and every pattern of lost datagrams. *)
(*                                                                         *)
(* First the walk back to the parent, whose sum is a recursive function;   *)
(* then what each phase leaves alone; then what is known of a slave after  *)
(* each walk, and of its pulse.                                            *)
(***************************************************************************)
EXTENDS BringupProperties, FiniteSetTheorems, WellFoundedInduction, TLAPS

-----------------------------------------------------------------------------
(* Induction over a set of numbers. *)
LEMMA Induct ==
  ASSUME NEW T \in SUBSET Nat, 0 \in T, \A n \in T : n + 1 \in T
  PROVE  T = Nat
<1> SUFFICES ASSUME T # Nat PROVE FALSE
    OBVIOUS
<1> DEFINE R == Nat \ T
<1>1. PICK x \in R : \A y \in R : ~ (<<y, x>> \in OpToRel(<, Nat))
    BY NatLessThanWellFounded, WFMin
<1>2. x \in Nat /\ x # 0 /\ x - 1 \in Nat /\ x - 1 < x
    OBVIOUS
<1>3. x - 1 \in T
    BY <1>1, <1>2 DEF OpToRel
<1> QED
    BY <1>2, <1>3

(* The least of a set of numbers. *)
LEMMA LeastIs ==
  ASSUME NEW S \in SUBSET Nat, S # {}
  PROVE  Min(S) \in S /\ \A y \in S : Min(S) <= y
<1>1. PICK x \in S : \A y \in S : ~ (<<y, x>> \in OpToRel(<, Nat))
    BY NatLessThanWellFounded, WFMin
<1>2. \A y \in S : ~ (y < x)
    BY <1>1 DEF OpToRel
<1>3. \A y \in S : x <= y
    BY <1>2
<1> QED
    BY <1>3 DEF Min

(***************************************************************************)
(* The tree.  A slave's ports in use are one towards the master and one    *)
(* for every child.                                                        *)
(***************************************************************************)
LEMMA KidsFinite ==
  ASSUME NEW n \in Nat, NEW tree, IsTree(tree, n), NEW S \in SUBSET (1 .. n)
  PROVE  IsFiniteSet(S) /\ Cardinality(S) \in Nat
<1>1. IsFiniteSet(1 .. n)
    BY FS_Interval
<1> QED
    BY <1>1, FS_Subset, FS_CardinalityType

LEMMA IntervalSize ==
  ASSUME NEW a \in Int, NEW b \in Int, a <= b + 1
  PROVE  IsFiniteSet(a .. b) /\ Cardinality(a .. b) = b - a + 1
<1>1. IsFiniteSet(a .. b) /\ Cardinality(a .. b) = IF a > b THEN 0 ELSE b - a + 1
    BY FS_Interval
<1>2. a > b => b - a + 1 = 0
    OBVIOUS
<1> QED
    BY <1>1, <1>2

LEMMA PortsOfSlave ==
  ASSUME NEW n \in Nat, NEW tree, IsTree(tree, n), NEW s \in 1 .. n
  PROVE  /\ Cardinality(ActivePorts(tree, s)) = Cardinality(Kids(tree, s)) + 1
         /\ Cardinality(Kids(tree, s)) \in 0 .. 3
<1> DEFINE K == Kids(tree, s)
           P == {tree.port[c] : c \in K}
           f == [c \in K |-> tree.port[c]]
<1>1. DOMAIN tree.parent = 1 .. n /\ K \in SUBSET (1 .. n)
    BY DEF IsTree, Kids
<1>2. IsFiniteSet(K) /\ Cardinality(K) \in Nat
    BY <1>1, KidsFinite
<1>3. tree.port \in [1 .. n -> 1 .. 3]
    BY DEF IsTree
<1>4. P \in SUBSET (1 .. 3)
    BY <1>1, <1>3
<1>5. f \in Bijection(K, P)
  <2>1. f \in Surjection(K, P)
      BY DEF Surjection
  <2>2. \A a, b \in K : a # b => f[a] # f[b]
    <3> SUFFICES ASSUME NEW a \in K, NEW b \in K, a # b PROVE tree.port[a] # tree.port[b]
        OBVIOUS
    <3>1. tree.parent[a] = s /\ tree.parent[b] = s /\ a \in 1 .. n /\ b \in 1 .. n
        BY <1>1 DEF Kids
    <3> QED
        BY <3>1 DEF IsTree
  <2> QED
      BY <2>1, <2>2 DEF Bijection, Injection, IsInjective, Surjection
<1> HIDE DEF K, P, f
<1>6. IsFiniteSet(P) /\ Cardinality(P) = Cardinality(K)
    BY <1>2, <1>5, FS_Bijection DEF ExistsBijection
<1>7. IsFiniteSet(1 .. 3) /\ Cardinality(1 .. 3) = 3
  <2>1. 1 \in Int /\ 3 \in Int /\ 1 <= 3 + 1 /\ 3 - 1 + 1 = 3
      OBVIOUS
  <2>2. IsFiniteSet(1 .. 3) /\ Cardinality(1 .. 3) = 3 - 1 + 1
      BY <2>1, IntervalSize
  <2> QED
      BY <2>1, <2>2
<1>8. Cardinality(P) <= 3
    BY <1>4, <1>7, FS_Subset
<1>9. 0 \notin P /\ ActivePorts(tree, s) = P \cup {0}
    BY <1>4 DEF ActivePorts, P, K
<1>10. Cardinality(P \cup {0}) = Cardinality(P) + 1
    BY <1>6, <1>9, FS_AddElement
<1> QED
    BY <1>2, <1>6, <1>8, <1>9, <1>10 DEF K

LEMMA BranchesOfSlave ==
  ASSUME NEW n \in Nat, NEW tree, IsTree(tree, n), NEW s \in 1 .. n, NEW v, v.active = ActivePorts(tree, s)
  PROVE  /\ Branches(v) = Cardinality(Kids(tree, s)) - 1
         /\ Topology(v) = Cardinality(Kids(tree, s)) + 1
<1>1. Topology(v) = Cardinality(Kids(tree, s)) + 1 /\ Cardinality(Kids(tree, s)) \in 0 .. 3
    BY PortsOfSlave DEF Topology
<1> QED
    BY <1>1 DEF Branches

(***************************************************************************)
(* The sum that is made on the way back counts the children of the slaves  *)
(* passed, less those slaves.                                              *)
(***************************************************************************)
IsSum(g, of, lo, s) == g = [v \in lo .. s |-> IF v = s THEN 0 ELSE g[v + 1] + Branches(of[v])]

LEMMA SumExists ==
  ASSUME NEW of, NEW s \in Nat, s > 0
  PROVE  \E g : IsSum(g, of, 1, s)
<1> DEFINE T == {m \in Nat : m < s => \E g : IsSum(g, of, s - m, s)}
<1>1. 0 \in T
  <2> DEFINE g == [v \in s - 0 .. s |-> 0]
  <2>1. g = [v \in s - 0 .. s |-> IF v = s THEN 0 ELSE g[v + 1] + Branches(of[v])]
      OBVIOUS
  <2> QED
      BY <2>1 DEF IsSum
<1>2. ASSUME NEW m \in T PROVE m + 1 \in T
  <2> SUFFICES ASSUME m + 1 < s PROVE \E h : IsSum(h, of, s - (m + 1), s)
      OBVIOUS
  <2>1. PICK g : IsSum(g, of, s - m, s)
      BY <1>2
  <2> DEFINE lo == s - (m + 1)
             h == [v \in lo .. s |-> IF v = lo THEN g[lo + 1] + Branches(of[lo]) ELSE g[v]]
             G(v) == IF v = s THEN 0 ELSE h[v + 1] + Branches(of[v])
  <2>2. lo \in Nat /\ lo < s /\ lo + 1 = s - m
      OBVIOUS
  <2>3. ASSUME NEW v \in lo .. s PROVE h[v] = G(v)
    <3>1. CASE v = lo
      <4>1. h[lo + 1] = g[lo + 1]
          BY <2>2
      <4> QED
          BY <2>2, <3>1, <4>1
    <3>2. CASE v # lo
      <4>1. v \in s - m .. s
          BY <2>2, <2>3, <3>2
      <4>2. g[v] = IF v = s THEN 0 ELSE g[v + 1] + Branches(of[v])
          BY <2>1, <4>1 DEF IsSum
      <4>3. v # s => h[v + 1] = g[v + 1]
          BY <2>2, <4>1
      <4> QED
          BY <3>2, <4>1, <4>2, <4>3
    <3> QED
        BY <3>1, <3>2
  <2>4. h = [v \in lo .. s |-> h[v]]
      OBVIOUS
  <2> HIDE DEF h, G
  <2>5. h = [v \in lo .. s |-> G(v)]
      BY <2>3, <2>4
  <2> HIDE DEF lo
  <2>6. IsSum(h, of, lo, s)
      BY <2>5 DEF IsSum, G
  <2> QED
      BY <2>6 DEF lo
<1> HIDE DEF T
<1>3. T = Nat
    BY <1>1, <1>2, Induct DEF T
<1>4. s - 1 \in T
    BY <1>3
<1>5. s - (s - 1) = 1
    OBVIOUS
<1> QED
    BY <1>4, <1>5 DEF T

Below(tree, v, s) == {c \in DOMAIN tree.parent : tree.parent[c] \in v .. s - 1}

LEMMA SumCounts ==
  ASSUME NEW n \in Nat, NEW tree, IsTree(tree, n), NEW s \in 1 .. n, NEW of,
         \A v \in 1 .. s - 1 : of[v].active = ActivePorts(tree, v),
         NEW g, IsSum(g, of, 1, s), NEW w \in 1 .. s
  PROVE  g[w] = Cardinality(Below(tree, w, s)) - (s - w)
<1> DEFINE T == {m \in Nat : m < s => g[s - m] = Cardinality(Below(tree, s - m, s)) - m}
<1>0. DOMAIN tree.parent = 1 .. n /\ tree.parent \in [1 .. n -> 0 .. n]
    BY DEF IsTree
<1>1. 0 \in T
  <2>1. Below(tree, s - 0, s) = {}
      BY <1>0 DEF Below
  <2>2. g[s - 0] = 0
      BY DEF IsSum
  <2> QED
      BY <2>1, <2>2, FS_EmptySet
<1>2. ASSUME NEW m \in T PROVE m + 1 \in T
  <2> SUFFICES ASSUME m + 1 < s
               PROVE  g[s - (m + 1)] = Cardinality(Below(tree, s - (m + 1), s)) - (m + 1)
      OBVIOUS
  <2> DEFINE v == s - (m + 1)
             A == Below(tree, v + 1, s)
             K == Kids(tree, v)
  <2>1. v \in 1 .. s - 1 /\ v + 1 = s - m /\ v \in 1 .. n
      OBVIOUS
  <2>2. g[v] = g[v + 1] + Branches(of[v])
      BY <2>1 DEF IsSum
  <2>3. g[v + 1] = Cardinality(A) - m
      BY <1>2, <2>1
  <2>4. Branches(of[v]) = Cardinality(K) - 1
      BY <2>1, BranchesOfSlave
  <2>5. Below(tree, v, s) = A \cup K /\ A \cap K = {}
    <3>1. \A q \in 0 .. n : (q \in v .. s - 1) = (q \in v + 1 .. s - 1 \/ q = v)
        BY <2>1
    <3>2. \A c \in 1 .. n : tree.parent[c] \in 0 .. n
        BY <1>0
    <3>3. v \notin v + 1 .. s - 1
        BY <2>1
    <3> QED
        BY <1>0, <3>1, <3>2, <3>3 DEF Below, Kids
  <2>6. A \in SUBSET (1 .. n) /\ K \in SUBSET (1 .. n)
      BY <1>0 DEF Below, Kids
  <2> HIDE DEF A, K, v
  <2>7. IsFiniteSet(A) /\ IsFiniteSet(K) /\ Cardinality(A) \in Nat /\ Cardinality(K) \in Nat
      BY <2>6, KidsFinite
  <2>8. Cardinality(A \cap K) = 0
      BY <2>5, FS_EmptySet
  <2>9. Cardinality(A \cup K) = Cardinality(A) + Cardinality(K)
    <3>1. Cardinality(A \cup K) = Cardinality(A) + Cardinality(K) - Cardinality(A \cap K)
        BY <2>7, FS_Union
    <3> QED
        BY <2>7, <2>8, <3>1
  <2>10. g[v] = Cardinality(Below(tree, v, s)) - (m + 1)
      BY <2>2, <2>3, <2>4, <2>5, <2>7, <2>9
  <2> QED
      BY <2>10 DEF v
<1> HIDE DEF T
<1>3. T = Nat
    BY <1>1, <1>2, Induct DEF T
<1>4. s - w \in T /\ s - (s - w) = w
    BY <1>3
<1> QED
    BY <1>4 DEF T

(***************************************************************************)
(* Behind the parent, whoever hangs on a slave that was passed was passed  *)
(* too, so the sum stays below 0; at the parent, all that were passed and  *)
(* the slave itself hang on one of them.                                   *)
(***************************************************************************)
LEMMA ParentFound ==
  ASSUME NEW n \in Nat, NEW tree, IsTree(tree, n), NEW s \in 2 .. n, NEW of,
         \A v \in 1 .. s - 1 : of[v].active = ActivePorts(tree, v)
  PROVE  FindParent(of, s) = tree.parent[s]
<1> DEFINE p == tree.parent[s]
           g == CHOOSE h : IsSum(h, of, 1, s)
           H == {v \in 1 .. s - 1 : v = 1 \/ (g[v] >= 0 /\ Topology(of[v]) > 1)}
<1>0. DOMAIN tree.parent = 1 .. n /\ tree.parent \in [1 .. n -> 0 .. n]
    BY DEF IsTree
<1>1. FindParent(of, s) = Max(H)
    BY DEF FindParent, IsSum
<1>2. IsSum(g, of, 1, s)
    BY SumExists
<1> HIDE DEF g
<1>3. p \in 1 .. s - 1 /\ \A u \in p + 1 .. s - 1 : tree.parent[u] >= p
    BY DEF IsTree
<1>4. \A u \in 2 .. n : tree.parent[u] \in 1 .. u - 1
    BY DEF IsTree
<1>5. tree.parent[1] = 0
    BY <1>3 DEF IsTree
<1>6. p \in H
  <2> DEFINE B == Below(tree, p, s)
  <2>1. p + 1 .. s \in SUBSET B
    <3> SUFFICES ASSUME NEW c \in p + 1 .. s PROVE c \in B
        OBVIOUS
    <3>1. c \in 1 .. n /\ c \in 2 .. n /\ c <= s
        BY <1>3
    <3>2. tree.parent[c] \in 1 .. c - 1
        BY <1>4, <3>1
    <3>3. tree.parent[c] >= p
        BY <1>3, <3>1
    <3>4. tree.parent[c] \in p .. s - 1
        BY <1>3, <3>1, <3>2, <3>3
    <3> QED
        BY <1>0, <3>1, <3>4 DEF Below
  <2>2. B \in SUBSET (1 .. n)
      BY <1>0 DEF Below
  <2> HIDE DEF B
  <2>3. IsFiniteSet(B) /\ Cardinality(B) \in Nat
      BY <2>2, KidsFinite
  <2>4. Cardinality(p + 1 .. s) = s - p
    <3>1. p + 1 \in Int /\ s \in Int /\ p + 1 <= s + 1
        BY <1>3
    <3>2. Cardinality(p + 1 .. s) = s - (p + 1) + 1
        BY <3>1, IntervalSize
    <3> QED
        BY <1>3, <3>2
  <2>5. Cardinality(B) >= s - p
      BY <2>1, <2>3, <2>4, FS_Subset
  <2>6. g[p] = Cardinality(B) - (s - p)
    <3>1. p \in 1 .. s /\ s \in 1 .. n
        BY <1>3
    <3> QED
        BY <1>2, <3>1, SumCounts DEF B
  <2>7. Topology(of[p]) = Cardinality(Kids(tree, p)) + 1
    <3>1. p \in 1 .. n
        BY <1>3
    <3> QED
        BY <1>3, <3>1, BranchesOfSlave
  <2>8. Cardinality(Kids(tree, p)) > 0
    <3>1. s \in Kids(tree, p) /\ Kids(tree, p) \in SUBSET (1 .. n)
        BY <1>0 DEF Kids
    <3>2. IsFiniteSet(Kids(tree, p)) /\ Cardinality(Kids(tree, p)) \in Nat
        BY <3>1, KidsFinite
    <3> QED
        BY <3>1, <3>2, FS_EmptySet
  <2>9. g[p] >= 0
      BY <1>3, <2>3, <2>5, <2>6
  <2>10. Topology(of[p]) > 1
    <3>1. Cardinality(Kids(tree, p)) \in 0 .. 3
        BY <1>3, PortsOfSlave
    <3> QED
        BY <2>7, <2>8, <3>1
  <2> QED
      BY <1>3, <2>9, <2>10
<1>7. ASSUME NEW v \in H, v > p PROVE FALSE
  <2> DEFINE B == Below(tree, v, s)
  <2>1. v \in p + 1 .. s - 1 /\ v # 1
      BY <1>3, <1>7
  <2>2. B \in SUBSET (v + 1 .. s - 1)
    <3> SUFFICES ASSUME NEW c \in B PROVE c \in v + 1 .. s - 1
        OBVIOUS
    <3> DEFINE q == tree.parent[c]
    <3>1. c \in 1 .. n /\ q \in v .. s - 1
        BY <1>0 DEF Below
    <3>2. c \in 2 .. n
        BY <1>5, <2>1, <3>1
    <3>3. q \in 1 .. c - 1 /\ \A u \in q + 1 .. c - 1 : tree.parent[u] >= q
        BY <3>2 DEF IsTree
    <3>4. c # s
        BY <2>1, <3>1
    <3>5. ~ c > s
      <4> SUFFICES ASSUME c > s PROVE FALSE
          OBVIOUS
      <4>1. s \in q + 1 .. c - 1
          BY <3>1, <3>2
      <4>2. p >= q
          BY <3>3, <4>1
      <4> QED
          BY <1>3, <2>1, <3>1, <4>2
    <3> QED
        BY <2>1, <3>1, <3>2, <3>3, <3>4, <3>5
  <2> HIDE DEF B
  <2>3. IsFiniteSet(v + 1 .. s - 1) /\ Cardinality(v + 1 .. s - 1) = s - 1 - v
    <3>1. v + 1 \in Int /\ s - 1 \in Int /\ v + 1 <= s - 1 + 1
        BY <1>3, <2>1
    <3>2. IsFiniteSet(v + 1 .. s - 1) /\ Cardinality(v + 1 .. s - 1) = s - 1 - (v + 1) + 1
        BY <3>1, IntervalSize
    <3> QED
        BY <1>3, <2>1, <3>2
  <2>4. Cardinality(B) <= s - 1 - v /\ Cardinality(B) \in Nat
      BY <2>2, <2>3, FS_Subset, FS_CardinalityType
  <2>5. g[v] = Cardinality(B) - (s - v)
    <3>1. v \in 1 .. s /\ s \in 1 .. n
        BY <1>3, <2>1
    <3> QED
        BY <1>2, <3>1, SumCounts DEF B
  <2>6. g[v] < 0
      BY <1>3, <2>1, <2>4, <2>5
  <2>7. g[v] >= 0
      BY <1>7, <2>1, Zenon
  <2>8. g[v] \in Int
      BY <1>3, <2>1, <2>4, <2>5
  <2> QED
      BY <2>6, <2>7, <2>8
<1> HIDE DEF H
<1>8. H \in SUBSET Int
    BY DEF H
<1>9. \A y \in H : p >= y
    BY <1>3, <1>7, <1>8
<1>10. \A x \in H : (\A y \in H : x >= y) => x = p
    BY <1>3, <1>6, <1>8, <1>9
<1> QED
    BY <1>1, <1>6, <1>9, <1>10 DEF Max

-----------------------------------------------------------------------------
(***************************************************************************)
(* The invariant: what has been found out about a slave after each walk.   *)
(***************************************************************************)
SlaveFields == DOMAIN NoSlave
DeviceFields == {"adr", "fmmu", "sm", "mbx", "pdi", "preop", "assign", "delay", "rt", "pulse"}

Walks == {"address", "word", "configure", "map", "sii", "clock", "sync"}
Later == (Walks \ {"address"}) \cup {"latch", "done"}    \* the first walk is over

Shape ==
  /\ scene \in Scenes /\ lost \in Seq(Nat)
  /\ pc.at \in Walks \cup Later \cup {"detect", "failed", "crashed"}
  /\ pc.at \in Walks => pc.slave \in Slaves
  /\ pc.at = "word" => pc.word \in 1 .. Words
  /\ DOMAIN dev = Slaves /\ \A s \in Slaves : DOMAIN dev[s] = DeviceFields
  /\ pc.at \in Walks \cup Later => Count > 0
  /\ pc.at # "detect" =>
       /\ DOMAIN list = 0 .. Count
       /\ \A s \in Slaves : DOMAIN list[s] = SlaveFields /\ list[s].ident = [w \in 1 .. 3 |-> list[s].ident[w]]

(* A slave has its address, unless the write was lost; the address it was  *)
(* found to have is the one it has, unless the answer was lost.            *)
Addressed(s) == pc.at \in Later \/ (pc.at = "address" /\ s < pc.slave)

AddressInv ==
  /\ pc.at \in {"detect", "address"} =>
       \A s \in Slaves : ~Addressed(s) => dev[s].adr = scene.old[s].adr
  /\ \A s \in Slaves : Addressed(s) =>
       /\ list[s].adr \in {0, dev[s].adr}
       /\ s \notin Missed => /\ dev[s].adr = s /\ list[s].adr = s
                             /\ ~Shadowed(s) => list[s].alias = Kind(s).alias

(* The EEPROM is the master's until the slave is configured.               *)
OwnInv ==
  /\ pc.at \in {"address", "word"} /\ 0 \notin Missed => \A s \in Slaves : dev[s].pdi = FALSE
  /\ pc.at = "configure" => \A s \in Slaves : s >= pc.slave /\ Sound(s) => dev[s].pdi = FALSE

HasWord(s, w) == pc.at # "word" \/ w < pc.word \/ (w = pc.word /\ s < pc.slave)

WordInv ==
  pc.at \in Later => \A s \in Slaves : Sound(s) =>
    /\ \A w \in 1 .. 3 : HasWord(s, w) => list[s].ident[w] = Kind(s).ident[w]
    /\ HasWord(s, Words) => list[s].wo = Kind(s).mbx.wo /\ list[s].l = Kind(s).mbx.l

(* Nothing of the SII is in the record before its turn.                    *)
BlankInv ==
  \A s \in Slaves : pc.at \in {"address", "word"} \/ (pc.at = "configure" /\ s >= pc.slave) =>
    list[s].ca = FALSE /\ list[s].block = FALSE

Scanned(s) == Configured \/ (pc.at = "configure" /\ s < pc.slave)
Settings(v) == <<v.ca, v.block, v.name, v.uses>>

SettingsInv ==
  \A s \in Slaves : Scanned(s) /\ Sound(s) =>
    /\ list[s].hasdc = (s \in scene.dc)
    /\ list[s].active = ActivePorts(scene.tree, s)
    /\ (\A t \in 1 .. s : Sound(t)) => list[s].parent = scene.tree.parent[s]
    /\ Sound(Source(s)) => Settings(list[s]) = Settings(FromSections(NoSlave, Kind(s).sii))

(* A pulse is whole cycles and the shift away from time 0; one a slave     *)
(* owes to its own turn alone has its head start.                          *)
PulseInv ==
  \A s \in Slaves : dev[s].pulse.set =>
    /\ pc.at \in {"sync", "done"}
    /\ dev[s].pulse.at \in Int /\ dev[s].pulse.now \in Int
    /\ Cycle(scene.sync) > 0 =>
         \E k \in Int : dev[s].pulse.at = k * Cycle(scene.sync) + scene.sync.shift
    /\ s \notin Missed /\ At(s) = {s} => dev[s].pulse.at >= dev[s].pulse.now + SyncDelay + scene.sync.shift

BringupInv == Shape /\ AddressInv /\ OwnInv /\ WordInv /\ BlankInv /\ SettingsInv /\ PulseInv

-----------------------------------------------------------------------------
(* What the scene is.                                                      *)
LEMMA SceneIs ==
  ASSUME scene \in Scenes
  PROVE  /\ Count \in Nat /\ Slaves = 1 .. Count
         /\ IsTree(scene.tree, Count)
         /\ \A s \in Slaves : Kind(s).ident = [w \in 1 .. 3 |-> Kind(s).ident[w]]
         /\ \A s, t \in Slaves : Kind(s).ident = Kind(t).ident => Kind(s).sii = Kind(t).sii
<1>1. scene.devices \in Seq(DOMAIN Devices) /\ IsTree(scene.tree, Count)
    BY SceneAssumption DEF Count
<1>2. Count \in Nat /\ Slaves = 1 .. Count /\ DOMAIN scene.devices = 1 .. Count
    BY <1>1 DEF Count, Slaves
<1>3. \A s \in Slaves : scene.devices[s] \in DOMAIN Devices
    BY <1>1, <1>2
<1>4. \A s \in Slaves : Kind(s) = Devices[scene.devices[s]]
    BY DEF Kind
<1>5. \A s \in Slaves : Kind(s).ident = [w \in 1 .. 3 |-> Kind(s).ident[w]]
    BY <1>3, <1>4, DeviceAssumption
<1>6. ASSUME NEW s \in Slaves, NEW t \in Slaves, Kind(s).ident = Kind(t).ident PROVE Kind(s).sii = Kind(t).sii
  <2>1. scene.devices[s] \in DOMAIN Devices /\ scene.devices[t] \in DOMAIN Devices
      BY <1>3
  <2>2. Devices[scene.devices[s]].ident = Devices[scene.devices[t]].ident
      BY <1>4, <1>6
  <2>3. Devices[scene.devices[s]].sii = Devices[scene.devices[t]].sii
      BY <2>1, <2>2, DeviceAssumption
  <2> QED
      BY <1>4, <2>3
<1> QED
    BY <1>1, <1>2, <1>5, <1>6

LEMMA LoseIs ==
  ASSUME lost \in Seq(Nat), NEW l, NEW s \in Nat, Lose(l, s)
  PROVE  lost' \in Seq(Nat) /\ Missed \subseteq Missed' /\ (l # {} => s \in Missed')
<1>1. CASE l = {}
    BY <1>1 DEF Lose, Missed
<1>2. CASE l # {}
  <2>1. lost' = Append(lost, s)
      BY <1>2 DEF Lose
  <2>2. lost' \in Seq(Nat) /\ DOMAIN lost = 1 .. Len(lost) /\ DOMAIN lost' = 1 .. Len(lost) + 1 /\ Len(lost) \in Nat
      BY <2>1
  <2>3. lost'[Len(lost) + 1] = s /\ \A k \in DOMAIN lost : lost'[k] = lost[k]
      BY <2>1, <2>2
  <2>4. Len(lost) + 1 \in DOMAIN lost' /\ DOMAIN lost \subseteq DOMAIN lost'
      BY <2>2
  <2> QED
      BY <2>2, <2>3, <2>4 DEF Missed
<1> QED
    BY <1>1, <1>2

LEMMA OneAnswers ==
  ASSUME scene \in Scenes, NEW i \in Slaves, NEW adr, At(adr) = {i}
  PROVE  Answer(adr) = i /\ Seen(adr) = Kind(i) /\ At(adr) # {} /\ (dev[i].pdi = FALSE => ~Shut(adr))
<1>1. i \in Int
    BY SceneIs
<1>2. Max({i}) = i
  <2>1. \A x \in {i} : (\A y \in {i} : x >= y) <=> x = i
      BY <1>1
  <2> QED
      BY <2>1 DEF Max
<1>3. At(adr) # {} /\ Answer(adr) = i
    BY <1>2 DEF Answer
<1>4. Seen(adr) = Kind(i)
    BY <1>3 DEF Seen
<1>5. dev[i].pdi = FALSE => ~Shut(adr)
    BY <1>3 DEF Shut
<1> QED
    BY <1>3, <1>4, <1>5

LEMMA SourceIs ==
  ASSUME scene \in Scenes, NEW s \in Slaves
  PROVE  /\ Source(s) \in 1 .. s /\ Source(s) \in Slaves /\ list[Source(s)].ident = list[s].ident
         /\ \A t \in 1 .. s : list[t].ident = list[s].ident => Source(s) <= t
<1> DEFINE S == {t \in 1 .. s : list[t].ident = list[s].ident}
<1>1. s \in Nat /\ s \in 1 .. s /\ 1 .. s \subseteq Slaves
    BY SceneIs
<1>2. S \in SUBSET Nat /\ S # {} /\ Source(s) = Min(S)
    BY <1>1 DEF Source
<1> HIDE DEF S
<1>3. Source(s) \in S /\ \A t \in S : Source(s) <= t
    BY <1>1, <1>2, LeastIs
<1> QED
    BY <1>1, <1>3 DEF S

(***************************************************************************)
(* What no step changes once the slaves have their addresses, and what no  *)
(* step changes once they are configured.                                  *)
(***************************************************************************)
Quiet ==
  /\ scene' = scene /\ lost' \in Seq(Nat) /\ Missed \subseteq Missed'
  /\ DOMAIN dev' = Slaves /\ \A s \in Slaves : DOMAIN dev'[s] = DeviceFields /\ dev'[s].adr = dev[s].adr
  /\ DOMAIN list' = 0 .. Count
  /\ \A s \in Slaves : /\ DOMAIN list'[s] = SlaveFields
                       /\ list'[s].adr = list[s].adr /\ list'[s].alias = list[s].alias

LEMMA SoundBefore ==
  ASSUME Quiet
  PROVE  /\ Slaves' = Slaves /\ Count' = Count
         /\ \A a : At(a)' = At(a)
         /\ \A s \in Slaves : Sound(s)' => Sound(s)
         /\ \A s \in Slaves : Kind(s)' = Kind(s) /\ Shadowed(s)' = Shadowed(s)
<1>1. Slaves' = Slaves /\ Count' = Count
    BY DEF Quiet, Slaves, Count
<1>2. ASSUME NEW a PROVE At(a)' = At(a)
    BY <1>1 DEF Quiet, At
<1>3. ASSUME NEW s \in Slaves, Sound(s)' PROVE Sound(s)
  <2>1. {0, s} \cap Missed' = {} /\ At(list[s].adr)' = {s}
      BY <1>3 DEF Sound
  <2>2. \A t \in Slaves : dev'[t].adr = dev[t].adr
      BY DEF Quiet
  <2>3. list'[s].adr = list[s].adr
      BY DEF Quiet
  <2>4. At(list[s].adr)' = At(list[s].adr)
      BY <1>1, <2>2, <2>3 DEF At
  <2>5. {0, s} \cap Missed = {}
      BY <2>1 DEF Quiet
  <2> QED
      BY <2>1, <2>4, <2>5 DEF Sound
<1>4. ASSUME NEW s \in Slaves PROVE Kind(s)' = Kind(s) /\ Shadowed(s)' = Shadowed(s)
    BY <1>1 DEF Quiet, Kind, Shadowed
<1> QED
    BY <1>1, <1>2, <1>3, <1>4

LEMMA AddressStays ==
  ASSUME Shape, AddressInv, Quiet, pc.at \in Later, pc'.at \in Later
  PROVE  AddressInv'
<1>1. \A s \in Slaves : Addressed(s)
    BY DEF Addressed
<1>2. pc'.at \notin {"detect", "address"}
    BY DEF Later, Walks
<1>3. ASSUME NEW s \in Slaves
      PROVE  /\ list'[s].adr \in {0, dev'[s].adr}
             /\ s \notin Missed' => /\ dev'[s].adr = s /\ list'[s].adr = s
                                    /\ ~Shadowed(s)' => list'[s].alias = Kind(s)'.alias
  <2>1. list[s].adr \in {0, dev[s].adr}
      BY <1>1 DEF AddressInv
  <2>2. s \notin Missed => dev[s].adr = s /\ list[s].adr = s /\ (~Shadowed(s) => list[s].alias = Kind(s).alias)
      BY <1>1 DEF AddressInv
  <2>3. Kind(s)' = Kind(s) /\ Shadowed(s)' = Shadowed(s)
      BY SoundBefore
  <2>4. dev'[s].adr = dev[s].adr /\ list'[s].adr = list[s].adr /\ list'[s].alias = list[s].alias
        /\ (s \notin Missed' => s \notin Missed)
      BY DEF Quiet
  <2> QED
      BY <2>1, <2>2, <2>3, <2>4
<1>4. Slaves' = Slaves
    BY SoundBefore
<1> QED
    BY <1>2, <1>3, <1>4 DEF AddressInv

(* Nobody else's datagrams reach a sound slave.                            *)
LEMMA SoundAlone ==
  ASSUME Shape, AddressInv, pc.at \in Later, NEW s \in Slaves, s \notin Missed, At(s) = {s},
         NEW u \in Slaves, s \in At(list[u].adr)
  PROVE  u = s
<1>1. \A t \in Slaves : Addressed(t)
    BY DEF Addressed
<1>2. dev[s].adr = s /\ list[u].adr \in {0, dev[u].adr}
    BY <1>1 DEF AddressInv
<1>3. list[u].adr = dev[s].adr
    BY DEF At
<1>4. s # 0
    BY SceneIs DEF Shape
<1>5. dev[u].adr = s
    BY <1>2, <1>3, <1>4
<1>6. u \in At(s)
    BY <1>5 DEF At
<1> QED
    BY <1>6

LEMMA SoundIs ==
  ASSUME Shape, AddressInv, pc.at \in Later, NEW s \in Slaves, Sound(s)
  PROVE  s \notin Missed /\ 0 \notin Missed /\ list[s].adr = s /\ At(s) = {s}
<1>1. Addressed(s) /\ s \notin Missed /\ 0 \notin Missed
    BY DEF Addressed, Sound
<1>2. list[s].adr = s
    BY <1>1 DEF AddressInv
<1> QED
    BY <1>1, <1>2 DEF Sound

(***************************************************************************)
(* The later steps.                                                        *)
(***************************************************************************)
Kept(v, w) ==
  /\ DOMAIN w = SlaveFields
  /\ w.adr = v.adr /\ w.alias = v.alias /\ w.ident = v.ident /\ w.wo = v.wo /\ w.l = v.l
  /\ w.ca = v.ca /\ w.block = v.block /\ w.name = v.name /\ w.uses = v.uses
  /\ w.hasdc = v.hasdc /\ w.active = v.active /\ w.parent = v.parent

AfterScan == {"map", "sii", "latch", "clock", "sync", "done"}

LEMMA LateStep ==
  ASSUME BringupInv, Quiet, \A s \in Slaves : Kept(list[s], list'[s]), pc.at \in AfterScan, pc'.at \in AfterScan
  PROVE  AddressInv' /\ OwnInv' /\ WordInv' /\ BlankInv' /\ SettingsInv'
<1>0. Shape /\ AddressInv /\ WordInv /\ SettingsInv
    BY DEF BringupInv
<1>1. pc.at \in Later /\ pc'.at \in Later /\ pc.at \notin {"address", "word", "configure"}
      /\ pc'.at \notin {"address", "word", "configure"}
    BY DEF Later, Walks, AfterScan
<1>2. AddressInv'
    BY <1>0, <1>1, AddressStays
<1>3. OwnInv' /\ BlankInv'
    BY <1>1 DEF OwnInv, BlankInv
<1>4. /\ Slaves' = Slaves /\ \A s \in Slaves : Sound(s)' => Sound(s)
      /\ \A s \in Slaves : Kind(s)' = Kind(s)
    BY SoundBefore
<1>5. WordInv'
  <2> SUFFICES ASSUME NEW s \in Slaves, Sound(s)'
               PROVE  /\ \A w \in 1 .. 3 : list'[s].ident[w] = Kind(s)'.ident[w]
                      /\ list'[s].wo = Kind(s)'.mbx.wo /\ list'[s].l = Kind(s)'.mbx.l
      BY <1>4 DEF WordInv
  <2>1. Sound(s) /\ Kind(s)' = Kind(s)
      BY <1>4
  <2>2. /\ \A w \in 1 .. 3 : list[s].ident[w] = Kind(s).ident[w]
        /\ list[s].wo = Kind(s).mbx.wo /\ list[s].l = Kind(s).mbx.l
      BY <1>0, <1>1, <2>1 DEF WordInv, HasWord
  <2>3. list'[s].ident = list[s].ident /\ list'[s].wo = list[s].wo /\ list'[s].l = list[s].l
      BY DEF Kept
  <2> QED
      BY <2>1, <2>2, <2>3
<1>6. SettingsInv'
  <2> SUFFICES ASSUME NEW s \in Slaves, Sound(s)'
               PROVE  /\ list'[s].hasdc = (s \in scene'.dc)
                      /\ list'[s].active = ActivePorts(scene'.tree, s)
                      /\ (\A t \in 1 .. s : Sound(t)') => list'[s].parent = scene'.tree.parent[s]
                      /\ Sound(Source(s))' => Settings(list'[s]) = Settings(FromSections(NoSlave, Kind(s)'.sii))
      BY <1>4 DEF SettingsInv
  <2>1. Sound(s) /\ Kind(s)' = Kind(s) /\ scene' = scene
      BY <1>4 DEF Quiet
  <2>2. Scanned(s)
      BY <1>1 DEF Scanned, Configured, AfterScan
  <2>3. Kept(list[s], list'[s])
      OBVIOUS
  <2>4. list'[s].hasdc = (s \in scene.dc) /\ list'[s].active = ActivePorts(scene.tree, s)
      BY <1>0, <2>1, <2>2, <2>3 DEF SettingsInv, Kept
  <2>5. s \in Int /\ 1 .. s \subseteq Slaves
      BY <1>0, SceneIs DEF Shape
  <2>6. (\A t \in 1 .. s : Sound(t)') => list'[s].parent = scene.tree.parent[s]
      BY <1>0, <1>4, <2>1, <2>2, <2>3, <2>5 DEF SettingsInv, Kept
  <2>7. Source(s)' = Source(s)
    <3>1. \A t \in 1 .. s : list'[t].ident = list[t].ident
        BY <2>5 DEF Kept
    <3>2. list'[s].ident = list[s].ident
        BY DEF Kept
    <3> QED
        BY <3>1, <3>2 DEF Source
  <2>8. Source(s) \in Slaves
      BY <1>0, SourceIs DEF Shape
  <2>9. Sound(Source(s))' => Sound(Source(s))
      BY <1>4, <2>7, <2>8
  <2>10. Settings(list'[s]) = Settings(list[s])
      BY <2>3 DEF Settings, Kept
  <2>11. Sound(Source(s)) => Settings(list[s]) = Settings(FromSections(NoSlave, Kind(s).sii))
      BY <1>0, <2>1, <2>2 DEF SettingsInv
  <2> QED
      BY <2>1, <2>4, <2>6, <2>9, <2>10, <2>11
<1> QED
    BY <1>2, <1>3, <1>5, <1>6

(* No pulse is set before the last walk.                                   *)
LEMMA NoPulseYet ==
  ASSUME PulseInv, \A s \in Slaves : dev'[s].pulse = dev[s].pulse, Slaves' = Slaves,
         pc.at \notin {"sync", "done"}
  PROVE  PulseInv'
BY DEF PulseInv

-----------------------------------------------------------------------------
(* The sizes found are all that a mapping changes in a record. *)
LEMMA KeptTwice ==
  ASSUME NEW u, NEW v, NEW w, Kept(u, v), Kept(v, w)
  PROVE  Kept(u, w)
BY DEF Kept

LEMMA KeptSelf ==
  ASSUME NEW v, DOMAIN v = SlaveFields
  PROVE  Kept(v, v) /\ Kept(v, NoBits(v))
BY DEF Kept, NoBits, SlaveFields, NoSlave

LEMMA SizesKeep ==
  ASSUME NEW v, DOMAIN v = SlaveFields, NEW d, NEW l, NEW words
  PROVE  Kept(v, readPDOmapCA(v, d, l)) /\ Kept(v, readPDOmap(v, d, l)) /\ Kept(v, readIDNmap(v, words))
<1>1. ASSUME NEW t, NEW bits PROVE Kept(v, SetSM(v, t, bits))
    BY DEF Kept, SetSM, SlaveFields, NoSlave
<1>2. Kept(v, NoBits(v))
    BY KeptSelf
<1>3. Kept(v, readPDOmapCA(v, d, l))
    BY <1>1, <1>2 DEF readPDOmapCA
<1>4. Kept(v, readPDOmap(v, d, l))
    BY <1>1, <1>2 DEF readPDOmap
<1>5. Kept(v, readIDNmap(v, words))
    BY DEF Kept, readIDNmap, SlaveFields, NoSlave
<1> QED
    BY <1>3, <1>4, <1>5

LEMMA CoeSoeKeeps ==
  ASSUME NEW v, DOMAIN v = SlaveFields, NEW d, NEW l, NEW words
  PROVE  Kept(v, map_coe_soe(v, d, l, words))
<1> DEFINE ca == IF v.ca THEN readPDOmapCA(v, d, l) ELSE NoBits(v)
           coe == IF Nothing(ca) THEN readPDOmap(ca, d, l) ELSE ca
           told == IF "coe" \in v.proto THEN coe ELSE NoBits(v)
<1>1. map_coe_soe(v, d, l, words) = IF AsksSoe(v, d, l) THEN readIDNmap(told, words) ELSE told
    BY DEF map_coe_soe, map_coe
<1>2. Kept(v, ca)
    BY SizesKeep, KeptSelf
<1> HIDE DEF ca
<1>3. DOMAIN ca = SlaveFields
    BY <1>2 DEF Kept
<1>4. Kept(v, coe)
  <2>1. Kept(ca, readPDOmap(ca, d, l))
      BY <1>3, SizesKeep
  <2> QED
      BY <1>2, <2>1, KeptTwice
<1> HIDE DEF coe
<1>5. Kept(v, told)
    BY <1>4, KeptSelf
<1> HIDE DEF told
<1>6. DOMAIN told = SlaveFields
    BY <1>5 DEF Kept
<1>7. Kept(told, readIDNmap(told, words))
    BY <1>6, SizesKeep
<1>8. Kept(v, readIDNmap(told, words))
    BY <1>5, <1>7, KeptTwice
<1> QED
    BY <1>1, <1>5, <1>8

LEMMA MappingKeeps ==
  ASSUME NEW v, DOMAIN v = SlaveFields, NEW s, NEW data
  PROVE  Kept(v, MappingOf(v, s, data))
<1> DEFINE found == IF Nothing(v) THEN FirstTwin(v, s) ELSE v
           full == IF Nothing(found) THEN FromSii(found, data) ELSE found
<1>1. MappingOf(v, s, data) = map_sm(full)
    BY DEF MappingOf
<1>2. ASSUME NEW t PROVE Kept(v, FromSlave(v, t))
    BY DEF Kept, FromSlave, SlaveFields, NoSlave
<1>3. Kept(v, found)
    BY <1>2, KeptSelf DEF FirstTwin
<1> HIDE DEF found
<1>4. DOMAIN found = SlaveFields
    BY <1>3 DEF Kept
<1>5. Kept(found, FromSii(found, data))
    BY <1>4 DEF Kept, FromSii, SlaveFields, NoSlave
<1>6. Kept(v, full)
    BY <1>3, <1>5, KeptTwice
<1> HIDE DEF full
<1>7. DOMAIN full = SlaveFields
    BY <1>6 DEF Kept
<1>8. Kept(full, map_sm(full))
    BY <1>7 DEF Kept, map_sm, SlaveFields, NoSlave
<1> QED
    BY <1>1, <1>6, <1>8, KeptTwice

(* What a step that writes one record leaves behind. *)
LEMMA OneRecord ==
  ASSUME Shape, pc.at # "detect", NEW s \in Slaves, NEW v, list' = [list EXCEPT ![s] = v], Kept(list[s], v)
  PROVE  DOMAIN list' = 0 .. Count /\ \A t \in Slaves : Kept(list[t], list'[t])
<1>1. DOMAIN list = 0 .. Count /\ Slaves \subseteq 0 .. Count /\ \A t \in Slaves : DOMAIN list[t] = SlaveFields
  <2>1. Slaves = 1 .. Count /\ Count \in Nat
      BY SceneIs DEF Shape
  <2>2. DOMAIN list = 0 .. Count /\ \A t \in Slaves : DOMAIN list[t] = SlaveFields
      BY DEF Shape
  <2> QED
      BY <2>1, <2>2
<1>2. ASSUME NEW t \in Slaves PROVE Kept(list[t], list'[t])
  <2>1. CASE t = s
      BY <1>1, <2>1
  <2>2. CASE t # s
    <3>1. list'[t] = list[t]
        BY <1>1, <2>2
    <3> QED
        BY <1>1, <3>1, KeptSelf
  <2> QED
      BY <2>1, <2>2
<1> QED
    BY <1>1, <1>2

(* The step's part of Quiet and Shape. *)
LEMMA LateShape ==
  ASSUME Shape, pc.at \in AfterScan, scene' = scene, lost' \in Seq(Nat), Missed \subseteq Missed',
         DOMAIN dev' = Slaves,
         \A s \in Slaves : DOMAIN dev'[s] = DeviceFields /\ dev'[s].adr = dev[s].adr,
         DOMAIN list' = 0 .. Count, \A s \in Slaves : Kept(list[s], list'[s]),
         pc'.at \in AfterScan, pc'.at \in Walks => pc'.slave \in Slaves
  PROVE  Quiet /\ Shape'
<1>1. Quiet
    BY DEF Quiet, Kept
<1>2. Slaves' = Slaves /\ Count' = Count
    BY <1>1, SoundBefore
<1>3. pc.at # "detect" /\ \A s \in Slaves : list[s].ident = [w \in 1 .. 3 |-> list[s].ident[w]]
    BY DEF Shape, AfterScan
<1>4. \A s \in Slaves : list'[s].ident = [w \in 1 .. 3 |-> list'[s].ident[w]]
    BY <1>3 DEF Kept
<1>5. \A s \in Slaves : DOMAIN list'[s] = SlaveFields
    BY DEF Kept
<1>6. scene' \in Scenes
    BY DEF Shape
<1>7. pc'.at \in Walks \cup Later \cup {"detect", "failed", "crashed"} /\ pc'.at # "word"
    BY DEF AfterScan, Later, Walks
<1>8. Count > 0
  <2>1. pc.at \in Later
      BY DEF AfterScan, Later, Walks
  <2> QED
      BY <2>1 DEF Shape
<1> QED
    BY <1>1, <1>2, <1>4, <1>5, <1>6, <1>7, <1>8 DEF Shape

(* The end of the process leaves nothing to be promised but addresses.     *)
LEMMA CrashStep ==
  ASSUME BringupInv, pc.at = "map", pc'.at = "crashed", scene' = scene, list' = list, lost' \in Seq(Nat),
         DOMAIN dev' = Slaves,
         \A t \in Slaves : DOMAIN dev'[t] = DeviceFields /\ dev'[t].adr = dev[t].adr /\ dev'[t].pulse = dev[t].pulse
  PROVE  BringupInv'
<1>0. Shape /\ PulseInv
    BY DEF BringupInv
<1>1. Slaves' = Slaves /\ Count' = Count
    BY DEF Slaves, Count
<1>2. pc'.at \notin Walks /\ pc'.at \notin Later /\ pc'.at \notin {"detect", "address", "word", "configure"}
    BY DEF Later, Walks
<1>3. Shape'
  <2>1. scene \in Scenes /\ DOMAIN list = 0 .. Count
        /\ \A s \in Slaves : DOMAIN list[s] = SlaveFields /\ list[s].ident = [w \in 1 .. 3 |-> list[s].ident[w]]
      BY <1>0 DEF Shape
  <2> QED
      BY <1>1, <1>2, <2>1 DEF Shape
<1>4. AddressInv' /\ OwnInv' /\ WordInv' /\ BlankInv'
    BY <1>2 DEF AddressInv, Addressed, OwnInv, WordInv, BlankInv
<1>5. SettingsInv'
    BY <1>2 DEF SettingsInv, Scanned, Configured
<1>6. PulseInv'
    BY <1>0, <1>1, NoPulseYet
<1> QED
    BY <1>3, <1>4, <1>5, <1>6 DEF BringupInv

LEMMA CoeSoeStep ==
  ASSUME BringupInv, MapCoeSoe
  PROVE  BringupInv'
<1> DEFINE s == pc.slave
<1>0. Shape /\ PulseInv /\ pc.at = "map" /\ pc.at \in AfterScan
    BY DEF BringupInv, MapCoeSoe, Step, AfterScan
<1>1. s \in Slaves /\ s \in Nat
    BY <1>0, SceneIs DEF Shape, Walks
<1>2. DOMAIN list[s] = SlaveFields
    BY <1>0, <1>1 DEF Shape
<1>3. /\ DOMAIN dev' = Slaves /\ lost' \in Seq(Nat) /\ Missed \subseteq Missed'
      /\ \A t \in Slaves : DOMAIN dev'[t] = DeviceFields /\ dev'[t].adr = dev[t].adr /\ dev'[t].pulse = dev[t].pulse
      /\ \/ NextSlave(Goto("sii", 1, 0)) /\ \E v : list' = [list EXCEPT ![s] = v] /\ Kept(list[s], v)
         \/ list' = list /\ Goto("crashed", 0, 0)
  <2>1. CASE ~Reachable(list[s])
    <3>1. /\ list' = [list EXCEPT ![s] = map_coe_soe(list[s], Silent, {}, {})]
          /\ dev' = dev /\ lost' = lost /\ NextSlave(Goto("sii", 1, 0))
        BY <2>1 DEF MapCoeSoe
    <3>2. Kept(list[s], map_coe_soe(list[s], Silent, {}, {}))
        BY <1>2, CoeSoeKeeps
    <3>3. Missed' = Missed
        BY <3>1 DEF Missed
    <3> QED
        BY <1>0, <3>1, <3>2, <3>3 DEF Shape
  <2>2. CASE Reachable(list[s])
    <3> DEFINE a == Answer(list[s].adr)
               cmds == Commands(scene.eni, s, list[s], "PS")
               dic(x) == mbxENIinitcmds(Dictionary(a), cmds, x)
    <3>0. PICK l \in Losses(Reads(Dictionary(a), cmds)) :
            /\ dev' = [dev EXCEPT ![a].assign = dic(l).assign]
            /\ Lose(l, s)
            /\ \/ \E words \in SUBSET Told(list[s], dic(l), l) :
                    /\ \A r \in Told(list[s], dic(l), l) : FindsOld(dic(l), r, l)
                    /\ list' = [list EXCEPT ![s] = map_coe_soe(list[s], dic(l), l, words)]
                    /\ NextSlave(Goto("sii", 1, 0))
               \/ Told(list[s], dic(l), l) # {} /\ list' = list /\ Goto("crashed", 0, 0)
        BY <2>2 DEF MapCoeSoe
    <3> DEFINE d == dic(l)
    <3> HIDE DEF a, cmds, dic
    <3>1. /\ dev' = [dev EXCEPT ![a].assign = d.assign]
          /\ Lose(l, s)
          /\ \/ /\ \E words : list' = [list EXCEPT ![s] = map_coe_soe(list[s], d, l, words)]
                /\ NextSlave(Goto("sii", 1, 0))
             \/ list' = list /\ Goto("crashed", 0, 0)
        BY <3>0
    <3> HIDE DEF d
    <3>2. \A words : Kept(list[s], map_coe_soe(list[s], d, l, words))
        BY <1>2, CoeSoeKeeps
    <3>3. lost' \in Seq(Nat) /\ Missed \subseteq Missed'
        BY <1>0, <1>1, <3>1, LoseIs DEF Shape
    <3>4. DOMAIN dev = Slaves /\ \A t \in Slaves : DOMAIN dev[t] = DeviceFields
        BY <1>0 DEF Shape
    <3>5. DOMAIN dev' = Slaves /\ \A t \in Slaves : /\ DOMAIN dev'[t] = DeviceFields
                                                   /\ dev'[t].adr = dev[t].adr /\ dev'[t].pulse = dev[t].pulse
        BY <3>1, <3>4 DEF DeviceFields
    <3>6. \/ NextSlave(Goto("sii", 1, 0)) /\ \E v : list' = [list EXCEPT ![s] = v] /\ Kept(list[s], v)
          \/ list' = list /\ Goto("crashed", 0, 0)
        BY <3>1, <3>2
    <3> QED
        BY <3>3, <3>5, <3>6
  <2> QED
      BY <2>1, <2>2
<1>5. scene' = scene
    BY DEF MapCoeSoe
<1>6. CASE list' = list /\ Goto("crashed", 0, 0)
  <2>1. pc'.at = "crashed"
      BY <1>6 DEF Goto
  <2> QED
      BY <1>0, <1>3, <1>5, <1>6, <2>1, CrashStep
<1>7. CASE NextSlave(Goto("sii", 1, 0)) /\ \E v : list' = [list EXCEPT ![s] = v] /\ Kept(list[s], v)
  <2>1. DOMAIN list' = 0 .. Count /\ \A t \in Slaves : Kept(list[t], list'[t])
    <3>1. PICK v : list' = [list EXCEPT ![s] = v] /\ Kept(list[s], v)
        BY <1>7
    <3> QED
        BY <1>0, <1>1, <3>1, OneRecord
  <2>2. pc'.at \in AfterScan /\ (pc'.at \in Walks => pc'.slave \in Slaves)
    <3>1. \/ s < Count /\ pc' = [at |-> "map", slave |-> s + 1, word |-> pc.word]
          \/ ~(s < Count) /\ pc' = [at |-> "sii", slave |-> 1, word |-> 0]
        BY <1>0, <1>7 DEF NextSlave, Goto
    <3>2. Slaves = 1 .. Count /\ Count \in Nat
        BY <1>0, SceneIs DEF Shape
    <3> QED
        BY <1>1, <3>1, <3>2 DEF AfterScan
  <2>3. Quiet /\ Shape'
      BY <1>0, <1>3, <1>5, <2>1, <2>2, LateShape
  <2>4. AddressInv' /\ OwnInv' /\ WordInv' /\ BlankInv' /\ SettingsInv'
      BY <1>0, <2>1, <2>2, <2>3, LateStep
  <2>5. PulseInv'
      BY <1>0, <1>3, <2>3, SoundBefore, NoPulseYet
  <2> QED
      BY <2>3, <2>4, <2>5 DEF BringupInv
<1> QED
    BY <1>3, <1>6, <1>7

LEMMA SiiStep ==
  ASSUME BringupInv, MapSii
  PROVE  BringupInv'
<1> DEFINE s == pc.slave
<1>0. Shape /\ PulseInv /\ pc.at = "sii" /\ pc.at \in AfterScan
    BY DEF BringupInv, MapSii, Step, AfterScan
<1>1. s \in Slaves /\ s \in Nat
    BY <1>0, SceneIs DEF Shape, Walks
<1>2. DOMAIN list[s] = SlaveFields
    BY <1>0, <1>1 DEF Shape
<1>3. PICK l, data :
        /\ list' = [list EXCEPT ![s] = MappingOf(list[s], s, data)]
        /\ dev' = [t \in Slaves |->
                     IF t \notin At(MappingOf(list[s], s, data).adr) THEN dev[t]
                     ELSE [dev[t] EXCEPT
                            !.sm = IF "sm" \in l THEN @ ELSE (@ \ SetSMs(MappingOf(list[s], s, data))) \cup OnSMs(MappingOf(list[s], s, data)),
                            !.fmmu = IF "fmmu" \in l THEN @ ELSE @ \cup UsedFmmus(MappingOf(list[s], s, data))]]
        /\ Lose(l, s)
    BY DEF MapSii
<1>4. DOMAIN list' = 0 .. Count /\ \A t \in Slaves : Kept(list[t], list'[t])
  <2>1. Kept(list[s], MappingOf(list[s], s, data))
      BY <1>2, MappingKeeps
  <2> QED
      BY <1>0, <1>1, <1>3, <2>1, OneRecord
<1>5. scene' = scene /\ lost' \in Seq(Nat) /\ Missed \subseteq Missed'
    BY <1>0, <1>1, <1>3, LoseIs DEF MapSii, Shape
<1>6. DOMAIN dev' = Slaves /\ \A t \in Slaves : /\ DOMAIN dev'[t] = DeviceFields
                                               /\ dev'[t].adr = dev[t].adr /\ dev'[t].pulse = dev[t].pulse
  <2>1. \A t \in Slaves : DOMAIN dev[t] = DeviceFields
      BY <1>0 DEF Shape
  <2> QED
      BY <1>3, <2>1 DEF DeviceFields
<1>7. pc'.at \in AfterScan /\ (pc'.at \in Walks => pc'.slave \in Slaves)
  <2>1. \/ s < Count /\ pc' = [at |-> "sii", slave |-> s + 1, word |-> pc.word]
        \/ ~(s < Count) /\ pc' = [at |-> "latch", slave |-> 0, word |-> 0]
      BY <1>0 DEF MapSii, NextSlave, Goto
  <2>2. Slaves = 1 .. Count /\ Count \in Nat
      BY <1>0, SceneIs DEF Shape
  <2> QED
      BY <1>1, <2>1, <2>2 DEF AfterScan, Walks
<1>8. Quiet /\ Shape'
    BY <1>0, <1>4, <1>5, <1>6, <1>7, LateShape
<1>9. AddressInv' /\ OwnInv' /\ WordInv' /\ BlankInv' /\ SettingsInv'
    BY <1>0, <1>4, <1>7, <1>8, LateStep
<1>10. PulseInv'
    BY <1>0, <1>6, <1>8, SoundBefore, NoPulseYet
<1> QED
    BY <1>8, <1>9, <1>10 DEF BringupInv

LEMMA LatchStep ==
  ASSUME BringupInv, Latch
  PROVE  BringupInv'
<1>0. Shape /\ PulseInv /\ pc.at = "latch" /\ pc.at \in AfterScan
    BY DEF BringupInv, Latch, Step, AfterScan
<1>1. PICK l : /\ dev' = [s \in Slaves |-> IF l = {} THEN [dev[s] EXCEPT !.rt = PortTimes(scene.tree, s, scene.start[s])]
                                           ELSE dev[s]]
               /\ Lose(l, 0)
    BY DEF Latch
<1>2. scene' = scene /\ list' = list /\ pc' = [at |-> "clock", slave |-> 1, word |-> 0]
    BY DEF Latch, Goto
<1>3. lost' \in Seq(Nat) /\ Missed \subseteq Missed'
    BY <1>0, <1>1, LoseIs DEF Shape
<1>4. DOMAIN dev' = Slaves /\ \A t \in Slaves : /\ DOMAIN dev'[t] = DeviceFields
                                               /\ dev'[t].adr = dev[t].adr /\ dev'[t].pulse = dev[t].pulse
  <2>1. \A t \in Slaves : DOMAIN dev[t] = DeviceFields
      BY <1>0 DEF Shape
  <2> QED
      BY <1>1, <2>1 DEF DeviceFields
<1>5. DOMAIN list' = 0 .. Count /\ \A t \in Slaves : Kept(list[t], list'[t])
  <2>1. DOMAIN list = 0 .. Count /\ \A t \in Slaves : DOMAIN list[t] = SlaveFields
      BY <1>0 DEF Shape
  <2> QED
      BY <1>2, <2>1, KeptSelf
<1>6. pc'.at \in AfterScan /\ pc'.slave \in Slaves
  <2>1. Count \in Nat /\ Count > 0 /\ Slaves = 1 .. Count
    <3>1. pc.at \in Later
        BY <1>0 DEF Later
    <3> QED
        BY <1>0, <3>1, SceneIs DEF Shape
  <2> QED
      BY <1>2, <2>1 DEF AfterScan
<1>7. Quiet /\ Shape'
    BY <1>0, <1>2, <1>3, <1>4, <1>5, <1>6, LateShape
<1>8. AddressInv' /\ OwnInv' /\ WordInv' /\ BlankInv' /\ SettingsInv'
    BY <1>0, <1>5, <1>6, <1>7, LateStep
<1>9. PulseInv'
    BY <1>0, <1>4, <1>7, SoundBefore, NoPulseYet
<1> QED
    BY <1>7, <1>8, <1>9 DEF BringupInv

(* The clocks: ports, times and delays. *)
ListKept(a, b) == DOMAIN b = DOMAIN a /\ \A s \in Slaves : Kept(a[s], b[s])

LEMMA ListKeptTwice ==
  ASSUME NEW a, NEW b, NEW c, ListKept(a, b), ListKept(b, c)
  PROVE  ListKept(a, c)
<1>1. DOMAIN c = DOMAIN a
    BY DEF ListKept
<1>2. ASSUME NEW s \in Slaves PROVE Kept(a[s], c[s])
  <2>1. Kept(a[s], b[s]) /\ Kept(b[s], c[s])
      BY DEF ListKept
  <2> QED
      BY <2>1, KeptTwice
<1> QED
    BY <1>1, <1>2 DEF ListKept

IsList(a) == DOMAIN a = 0 .. Count /\ \A s \in Slaves : DOMAIN a[s] = SlaveFields

LEMMA KeptIsList ==
  ASSUME NEW a, NEW b, IsList(a), ListKept(a, b)
  PROVE  IsList(b)
BY DEF IsList, ListKept, Kept

LEMMA ClockFieldsKeep ==
  ASSUME scene \in Scenes, NEW a, IsList(a), NEW i, NEW x
  PROVE  /\ ListKept(a, [a EXCEPT ![i].consumed = x]) /\ ListKept(a, [a EXCEPT ![i].entry = x])
         /\ ListKept(a, [a EXCEPT ![i].pport = x]) /\ ListKept(a, [a EXCEPT ![i].delay = x])
         /\ ListKept(a, [a EXCEPT ![i].rt = x]) /\ ListKept(a, [a EXCEPT ![i].cycle = x])
         /\ ListKept(a, [a EXCEPT ![i].next = x]) /\ ListKept(a, [a EXCEPT ![i].prev = x])
         /\ ListKept(a, [a EXCEPT ![0].hasdc = x])
<1>1. DOMAIN a = 0 .. Count /\ \A s \in Slaves : s \in DOMAIN a /\ s # 0 /\ DOMAIN a[s] = SlaveFields
    BY SceneIs DEF IsList
<1>2. ListKept(a, [a EXCEPT ![i].consumed = x])
    BY <1>1 DEF ListKept, Kept, SlaveFields, NoSlave
<1>3. ListKept(a, [a EXCEPT ![i].entry = x])
    BY <1>1 DEF ListKept, Kept, SlaveFields, NoSlave
<1>4. ListKept(a, [a EXCEPT ![i].pport = x])
    BY <1>1 DEF ListKept, Kept, SlaveFields, NoSlave
<1>5. ListKept(a, [a EXCEPT ![i].delay = x])
    BY <1>1 DEF ListKept, Kept, SlaveFields, NoSlave
<1>6. ListKept(a, [a EXCEPT ![i].rt = x])
    BY <1>1 DEF ListKept, Kept, SlaveFields, NoSlave
<1>7. ListKept(a, [a EXCEPT ![i].cycle = x])
    BY <1>1 DEF ListKept, Kept, SlaveFields, NoSlave
<1>8. ListKept(a, [a EXCEPT ![i].next = x])
    BY <1>1 DEF ListKept, Kept, SlaveFields, NoSlave
<1>9. ListKept(a, [a EXCEPT ![i].prev = x])
    BY <1>1 DEF ListKept, Kept, SlaveFields, NoSlave
<1>10. ListKept(a, [a EXCEPT ![0].hasdc = x])
    BY <1>1 DEF ListKept, Kept, SlaveFields, NoSlave
<1> QED
    BY <1>2, <1>3, <1>4, <1>5, <1>6, <1>7, <1>8, <1>9, <1>10

LEMMA ConsumeKeeps ==
  ASSUME scene \in Scenes, NEW a, IsList(a), NEW i
  PROVE  ListKept(a, Consume(a, i))
<1> DEFINE left == a[i].consumed \ {parentport(a[i].consumed)}
<1>1. Consume(a, i) = [a EXCEPT ![i].consumed = left]
    BY DEF Consume
<1> HIDE DEF left
<1>2. ListKept(a, [a EXCEPT ![i].consumed = left])
    BY ClockFieldsKeep
<1> QED
    BY <1>1, <1>2, Zenon

LEMMA ChainKeeps ==
  ASSUME scene \in Scenes, NEW a, IsList(a), NEW c, NEW i
  PROVE  ListKept(a, ChainClock(a, c, i))
<1>1. CASE ~a[0].hasdc
  <2> DEFINE b == [a EXCEPT ![0].hasdc = TRUE]
             d == [b EXCEPT ![0].next = i]
  <2>1. ChainClock(a, c, i) = [d EXCEPT ![i].prev = 0]
      BY <1>1 DEF ChainClock
  <2>2. ListKept(a, b)
      BY ClockFieldsKeep
  <2> HIDE DEF b
  <2>3. IsList(b)
      BY <2>2, KeptIsList
  <2>4. ListKept(b, d)
      BY <2>3, ClockFieldsKeep
  <2> HIDE DEF d
  <2>5. IsList(d)
      BY <2>3, <2>4, KeptIsList
  <2>6. ListKept(d, [d EXCEPT ![i].prev = 0])
      BY <2>5, ClockFieldsKeep
  <2> QED
      BY <2>1, <2>2, <2>4, <2>6, ListKeptTwice
<1>2. CASE a[0].hasdc
  <2> DEFINE b == [a EXCEPT ![c.last].next = i]
  <2>1. ChainClock(a, c, i) = [b EXCEPT ![i].prev = c.last]
      BY <1>2 DEF ChainClock
  <2>2. ListKept(a, b)
      BY ClockFieldsKeep
  <2> HIDE DEF b
  <2>3. IsList(b)
      BY <2>2, KeptIsList
  <2>4. ListKept(b, [b EXCEPT ![i].prev = c.last])
      BY <2>3, ClockFieldsKeep
  <2> QED
      BY <2>1, <2>2, <2>4, ListKeptTwice
<1> QED
    BY <1>1, <1>2

LEMMA MeasuredKeeps ==
  ASSUME scene \in Scenes, NEW a, IsList(a), NEW i, NEW junk
  PROVE  ListKept(a, Measured(a, i, junk))
<1> DEFINE in == EntryPort(a[i], junk)
           b == [a EXCEPT ![i].entry = in]
           entered == [b EXCEPT ![i].consumed = @ \ {in}]
           d == DcParent(a, i)
           port == IF Topology(a[d.parent]) = 1 THEN a[d.parent].entry ELSE parentport(entered[d.parent].consumed)
           taken == Consume(entered, d.parent)
           hung == [taken EXCEPT ![i].pport = port]
           last == [hung EXCEPT ![i].delay = Delay(hung, i, d.parent, d.child)]
<1>1. Measured(a, i, junk) = IF d.parent = 0 THEN entered ELSE last
    BY DEF Measured
<1> HIDE DEF in
<1>2. ListKept(a, b)
    BY ClockFieldsKeep
<1> HIDE DEF b
<1>3. IsList(b)
    BY <1>2, KeptIsList
<1>4. ListKept(b, entered)
    BY <1>3, ClockFieldsKeep
<1>5. ListKept(a, entered)
    BY <1>2, <1>4, ListKeptTwice
<1> HIDE DEF entered, d, port
<1>6. IsList(entered)
    BY <1>5, KeptIsList
<1>7. ListKept(entered, taken)
    BY <1>6, ConsumeKeeps
<1>8. ListKept(a, taken)
    BY <1>5, <1>7, ListKeptTwice
<1> HIDE DEF taken
<1>9. IsList(taken)
    BY <1>8, KeptIsList
<1>10. ListKept(taken, hung)
    BY <1>9, ClockFieldsKeep
<1>11. ListKept(a, hung)
    BY <1>8, <1>10, ListKeptTwice
<1> HIDE DEF hung
<1>12. IsList(hung)
    BY <1>11, KeptIsList
<1>13. ListKept(hung, last)
    BY <1>12, ClockFieldsKeep
<1>14. ListKept(a, last)
    BY <1>11, <1>13, ListKeptTwice
<1> HIDE DEF last
<1> QED
    BY <1>1, <1>5, <1>14

LEMMA PassByKeeps ==
  ASSUME scene \in Scenes, NEW a, IsList(a), NEW c, NEW i
  PROVE  ListKept(a, PassBy(a, c, i).list)
<1> DEFINE p == a[i].parent
           hold == IF p > 0 /\ Topology(a[p]) > 2 THEN p ELSE c.hold
           ends == hold > 0 /\ Topology(a[i]) = 1
           still == [a EXCEPT ![i].rt = [q \in Ports |-> 0]]
<1>1. PassBy(a, c, i).list = IF ends THEN Consume(still, hold) ELSE still
    BY DEF PassBy
<1> HIDE DEF hold, ends
<1>2. ListKept(a, still)
    BY ClockFieldsKeep
<1> HIDE DEF still
<1>3. IsList(still)
    BY <1>2, KeptIsList
<1>4. ListKept(still, Consume(still, hold))
    BY <1>3, ConsumeKeeps
<1> QED
    BY <1>1, <1>2, <1>4, ListKeptTwice

LEMMA ClockStep ==
  ASSUME BringupInv, SetClock
  PROVE  BringupInv'
<1> DEFINE s == pc.slave
           open == [list EXCEPT ![s].consumed = list[s].active]
           passed == PassBy(open, clock, s)
<1>0. Shape /\ PulseInv /\ pc.at = "clock" /\ pc.at \in AfterScan /\ scene \in Scenes
    BY DEF BringupInv, SetClock, Step, AfterScan, Shape
<1>1. s \in Slaves /\ s \in Nat
    BY <1>0, SceneIs DEF Shape, Walks
<1>2. IsList(list)
    BY <1>0 DEF Shape, IsList
<1>3. ListKept(list, open)
    BY <1>0, <1>2, ClockFieldsKeep
<1>4. IsList(open)
    BY <1>2, <1>3, KeptIsList
<1>5. \A t \in Slaves : DOMAIN dev[t] = DeviceFields
    BY <1>0 DEF Shape
<1>6. /\ DOMAIN dev' = Slaves /\ lost' \in Seq(Nat) /\ Missed \subseteq Missed'
      /\ \A t \in Slaves : DOMAIN dev'[t] = DeviceFields /\ dev'[t].adr = dev[t].adr /\ dev'[t].pulse = dev[t].pulse
      /\ ListKept(list, list')
  <2>1. CASE list[s].hasdc
    <3> DEFINE hung == DcParent(list, s).parent > 0
               times(l) == ReadTimes(list[s], l, clock.ht)
    <3>0. PICK l, junk :
            /\ list' = Measured([ChainClock(open, clock, s) EXCEPT ![s].rt = times(l)], s, junk)
            /\ dev' = [t \in Slaves |->
                         IF t \in At(list[s].adr) /\ hung /\ "delay" \notin l
                           THEN [dev[t] EXCEPT !.delay = list'[s].delay] ELSE dev[t]]
            /\ Lose(l, s)
        BY <2>1 DEF SetClock
    <3> DEFINE rt == times(l)
    <3> HIDE DEF hung, rt
    <3>1. /\ list' = Measured([ChainClock(open, clock, s) EXCEPT ![s].rt = rt], s, junk)
          /\ dev' = [t \in Slaves |->
                       IF t \in At(list[s].adr) /\ hung /\ "delay" \notin l
                         THEN [dev[t] EXCEPT !.delay = list'[s].delay] ELSE dev[t]]
          /\ Lose(l, s)
        BY <3>0 DEF rt
    <3> DEFINE chained == ChainClock(open, clock, s)
               timed == [chained EXCEPT ![s].rt = rt]
    <3> HIDE DEF open
    <3>2. ListKept(open, chained)
        BY <1>0, <1>4, ChainKeeps
    <3>3. IsList(chained)
        BY <1>4, <3>2, KeptIsList
    <3> HIDE DEF chained
    <3>4. ListKept(chained, timed)
        BY <1>0, <3>3, ClockFieldsKeep
    <3>5. IsList(timed)
        BY <3>3, <3>4, KeptIsList
    <3>6. list' = Measured(timed, s, junk)
        BY <3>1 DEF chained, open
    <3> HIDE DEF timed
    <3>7. ListKept(timed, list')
        BY <1>0, <3>5, <3>6, MeasuredKeeps
    <3>8. ListKept(open, timed)
        BY <3>2, <3>4, ListKeptTwice
    <3>9. ListKept(list, timed)
        BY <1>3, <3>8, ListKeptTwice
    <3>10. ListKept(list, list')
        BY <3>7, <3>9, ListKeptTwice
    <3>11. lost' \in Seq(Nat) /\ Missed \subseteq Missed'
        BY <1>0, <1>1, <3>1, LoseIs DEF Shape
    <3>12. DOMAIN dev' = Slaves /\ \A t \in Slaves : /\ DOMAIN dev'[t] = DeviceFields
                                                    /\ dev'[t].adr = dev[t].adr /\ dev'[t].pulse = dev[t].pulse
        BY <1>5, <3>1 DEF DeviceFields
    <3> QED
        BY <3>10, <3>11, <3>12
  <2>2. CASE ~list[s].hasdc
    <3>1. list' = passed.list /\ dev' = dev /\ lost' = lost
        BY <2>2 DEF SetClock
    <3> HIDE DEF open
    <3>2. ListKept(open, list')
        BY <1>0, <1>4, <3>1, PassByKeeps
    <3>3. ListKept(list, list')
        BY <1>3, <3>2, ListKeptTwice
    <3>4. Missed' = Missed
        BY <3>1 DEF Missed
    <3> QED
        BY <1>0, <3>1, <3>3, <3>4 DEF Shape
  <2> QED
      BY <2>1, <2>2
<1>7. DOMAIN list' = 0 .. Count /\ \A t \in Slaves : Kept(list[t], list'[t])
    BY <1>2, <1>6 DEF ListKept, IsList
<1>8. scene' = scene
    BY DEF SetClock
<1>9. pc'.at \in AfterScan /\ (pc'.at \in Walks => pc'.slave \in Slaves)
  <2>1. \/ s < Count /\ pc' = [at |-> "clock", slave |-> s + 1, word |-> pc.word]
        \/ ~(s < Count) /\ pc' = [at |-> "sync", slave |-> 1, word |-> 0]
      BY <1>0 DEF SetClock, NextSlave, Goto
  <2>2. Slaves = 1 .. Count /\ Count \in Nat
      BY <1>0, SceneIs
  <2> QED
      BY <1>1, <2>1, <2>2 DEF AfterScan
<1>10. Quiet /\ Shape'
    BY <1>0, <1>6, <1>7, <1>8, <1>9, LateShape
<1>11. AddressInv' /\ OwnInv' /\ WordInv' /\ BlankInv' /\ SettingsInv'
    BY <1>0, <1>7, <1>9, <1>10, LateStep
<1>12. PulseInv'
    BY <1>0, <1>6, <1>10, SoundBefore, NoPulseYet
<1> QED
    BY <1>10, <1>11, <1>12 DEF BringupInv

(***************************************************************************)
(* The pulses.                                                             *)
(***************************************************************************)
LEMMA Division ==
  ASSUME NEW x \in Nat, NEW c \in Nat, c > 0
  PROVE  x \div c \in Nat /\ (x \div c) * c <= x /\ x < (x \div c) * c + c
OBVIOUS

LEMMA WholeCycles ==
  ASSUME NEW k \in Int, NEW c \in Nat, c > 0
  PROVE  (k * c) % c = 0
OBVIOUS

LEMMA TriggerIs ==
  ASSUME NEW x \in Nat, NEW c \in Nat, NEW shift \in Int
  PROVE  /\ FirstTrigger(x, c, shift) \in Int
         /\ FirstTrigger(x, c, shift) >= x + SyncDelay + shift
         /\ c > 0 => \E k \in Int : FirstTrigger(x, c, shift) = k * c + shift
<1>1. CASE c > 0
  <2> DEFINE y == x + SyncDelay
             q == y \div c
  <2>1. y \in Nat
      BY ClockAssumption
  <2> HIDE DEF y
  <2>2. q \in Nat /\ q * c <= y /\ y < q * c + c
      BY <1>1, <2>1, Division
  <2>3. FirstTrigger(x, c, shift) = q * c + c + shift
      BY <1>1 DEF FirstTrigger, y
  <2> HIDE DEF q
  <2>4. q * c + c = (q + 1) * c /\ q * c \in Int
      BY <2>2
  <2>5. q + 1 \in Int
      BY <2>2
  <2>6. FirstTrigger(x, c, shift) = (q + 1) * c + shift
      BY <2>3, <2>4
  <2> DEFINE z == q * c
  <2>7. z \in Int /\ y < z + c /\ FirstTrigger(x, c, shift) = z + c + shift
      BY <2>2, <2>3, <2>4
  <2> HIDE DEF z
  <2>8. FirstTrigger(x, c, shift) \in Int /\ FirstTrigger(x, c, shift) >= y + shift
      BY <2>1, <2>7
  <2> QED
      BY <2>5, <2>6, <2>8 DEF y
<1>2. CASE ~(c > 0)
    BY <1>2, ClockAssumption DEF FirstTrigger
<1> QED
    BY <1>1, <1>2

LEMMA CycleIs ==
  ASSUME scene \in Scenes
  PROVE  Cycle(scene.sync) \in Nat /\ scene.sync.shift \in Int
<1> DEFINE c0 == scene.sync.cycle0
           c1 == scene.sync.cycle1
<1>1. c0 \in Nat /\ c1 \in Nat /\ scene.sync.shift \in Int /\ (scene.sync.two => c0 > 0)
    BY SceneAssumption
<1>2. CASE scene.sync.two
  <2>1. c1 \div c0 \in Nat
      BY <1>1, <1>2, Division
  <2>2. (c1 \div c0 + 1) * c0 \in Nat
    <3> DEFINE q == c1 \div c0
    <3> HIDE DEF q
    <3>1. q \in Nat
        BY <2>1 DEF q
    <3>2. (q + 1) * c0 \in Nat
        BY <1>1, <3>1
    <3> QED
        BY <3>2 DEF q
  <2> QED
      BY <1>1, <1>2, <2>2 DEF Cycle, TrueCycle
<1>3. CASE ~scene.sync.two
    BY <1>1, <1>3 DEF Cycle
<1> QED
    BY <1>1, <1>2, <1>3

LEMMA PulseStep ==
  ASSUME BringupInv, SetPulse
  PROVE  BringupInv'
<1> DEFINE s == pc.slave
           v == list[s]
<1>0. Shape /\ AddressInv /\ PulseInv /\ pc.at = "sync" /\ pc.at \in AfterScan /\ scene \in Scenes /\ pc.at \in Later
    BY DEF BringupInv, SetPulse, Step, AfterScan, Shape, Later, Walks
<1>1. s \in Slaves /\ s \in Nat
    BY <1>0, SceneIs DEF Shape, Walks
<1> DEFINE read(now, l) == IF "now" \in l \/ At(v.adr) = {} THEN 0 ELSE now
           start(now, l) == FirstTrigger(read(now, l), Cycle(scene.sync), scene.sync.shift)
<1>2. PICK now, l :
        /\ now \in Nows
        /\ dev' = [t \in Slaves |->
                     IF v.hasdc /\ t \in At(v.adr) /\ "start" \notin l
                       THEN [dev[t] EXCEPT !.pulse = [set |-> TRUE, at |-> start(now, l), now |-> now]] ELSE dev[t]]
        /\ list' = [list EXCEPT ![s].cycle = IF v.hasdc THEN scene.sync.cycle0 ELSE @]
        /\ Lose(l, s)
    BY DEF SetPulse
<1>3. scene' = scene /\ lost' \in Seq(Nat) /\ Missed \subseteq Missed' /\ (l # {} => s \in Missed')
    BY <1>0, <1>1, <1>2, LoseIs DEF SetPulse, Shape
<1>4. DOMAIN dev' = Slaves /\ \A t \in Slaves : DOMAIN dev'[t] = DeviceFields /\ dev'[t].adr = dev[t].adr
  <2>1. \A t \in Slaves : DOMAIN dev[t] = DeviceFields
      BY <1>0 DEF Shape
  <2> QED
      BY <1>2, <2>1 DEF DeviceFields
<1>5. DOMAIN list' = 0 .. Count /\ \A t \in Slaves : Kept(list[t], list'[t])
  <2>1. IsList(list)
      BY <1>0 DEF Shape, IsList
  <2>2. ListKept(list, list')
      BY <1>0, <1>2, <2>1, ClockFieldsKeep
  <2> QED
      BY <2>1, <2>2 DEF ListKept, IsList
<1>6. pc'.at \in {"sync", "done"} /\ pc'.at \in AfterScan /\ (pc'.at \in Walks => pc'.slave \in Slaves)
  <2>1. \/ s < Count /\ pc' = [at |-> "sync", slave |-> s + 1, word |-> pc.word]
        \/ ~(s < Count) /\ pc' = [at |-> "done", slave |-> 0, word |-> 0]
      BY <1>0 DEF SetPulse, NextSlave, Goto
  <2>2. Slaves = 1 .. Count /\ Count \in Nat
      BY <1>0, SceneIs
  <2> QED
      BY <1>1, <2>1, <2>2 DEF AfterScan, Walks
<1>7. Quiet /\ Shape'
    BY <1>0, <1>3, <1>4, <1>5, <1>6, LateShape
<1>8. AddressInv' /\ OwnInv' /\ WordInv' /\ BlankInv' /\ SettingsInv'
    BY <1>0, <1>5, <1>6, <1>7, LateStep
<1>9. now \in Nat /\ Cycle(scene.sync) \in Nat /\ scene.sync.shift \in Int /\ SyncDelay \in Nat
    BY <1>0, <1>2, CycleIs, ClockAssumption, BringupAssumption
<1>10. read(now, l) \in Nat
    BY <1>9
<1>11. ASSUME NEW t \in Slaves, dev'[t].pulse.set
       PROVE  /\ dev'[t].pulse.at \in Int /\ dev'[t].pulse.now \in Int
              /\ Cycle(scene.sync) > 0 =>
                   \E k \in Int : dev'[t].pulse.at = k * Cycle(scene.sync) + scene.sync.shift
              /\ t \notin Missed' /\ At(t) = {t} => dev'[t].pulse.at >= dev'[t].pulse.now + SyncDelay + scene.sync.shift
  <2>1. CASE v.hasdc /\ t \in At(v.adr) /\ "start" \notin l
    <3>1. DOMAIN dev[t] = DeviceFields
        BY <1>0 DEF Shape
    <3>2. dev'[t].pulse = [set |-> TRUE, at |-> start(now, l), now |-> now]
        BY <1>2, <2>1, <3>1 DEF DeviceFields
    <3>3. dev'[t].pulse.at = start(now, l) /\ dev'[t].pulse.now = now
        BY <3>2
    <3> HIDE DEF read
    <3>4. /\ start(now, l) \in Int /\ start(now, l) >= read(now, l) + SyncDelay + scene.sync.shift
          /\ Cycle(scene.sync) > 0 => \E k \in Int : start(now, l) = k * Cycle(scene.sync) + scene.sync.shift
        BY <1>9, <1>10, TriggerIs
    <3> HIDE DEF start
    <3>5. ASSUME t \notin Missed', At(t) = {t} PROVE read(now, l) = now
      <4>1. t \notin Missed
          BY <1>3, <3>5
      <4>2. s = t
          BY <1>0, <1>1, <2>1, <3>5, <4>1, SoundAlone
      <4>3. l = {}
          BY <1>3, <3>5, <4>2
      <4> QED
          BY <2>1, <4>3 DEF read
    <3> QED
        BY <1>9, <3>3, <3>4, <3>5
  <2>2. CASE ~(v.hasdc /\ t \in At(v.adr) /\ "start" \notin l)
    <3>1. dev'[t] = dev[t]
        BY <1>2, <2>2
    <3>2. t \notin Missed' => t \notin Missed
        BY <1>3
    <3> QED
        BY <1>0, <1>11, <3>1, <3>2 DEF PulseInv
  <2> QED
      BY <2>1, <2>2
<1>12. PulseInv'
  <2>1. Slaves' = Slaves /\ \A a : At(a)' = At(a)
      BY <1>7, SoundBefore
  <2> HIDE DEF s, v, read, start
  <2> QED
      BY <1>3, <1>6, <1>11, <2>1 DEF PulseInv
<1> QED
    BY <1>7, <1>8, <1>12 DEF BringupInv

-----------------------------------------------------------------------------
(***************************************************************************)
(* The scan: addresses, words, settings.                                   *)
(***************************************************************************)
LEMMA InitHolds ==
  ASSUME Init
  PROVE  BringupInv
<1>1. scene \in Scenes /\ lost = <<>> /\ pc.at = "detect"
    BY DEF Init
<1>2. /\ DOMAIN dev = Slaves
      /\ \A s \in Slaves : /\ DOMAIN dev[s] = DeviceFields /\ dev[s].adr = scene.old[s].adr
                           /\ ~dev[s].pulse.set
    BY DEF Init, DeviceFields, NoPulse
<1>3. pc.at \notin Walks /\ pc.at \notin Later /\ ~Configured
    BY <1>1 DEF Walks, Later, Configured
<1>4. Shape
    BY <1>1, <1>2, <1>3 DEF Shape
<1>5. AddressInv
    BY <1>1, <1>2, <1>3 DEF AddressInv, Addressed
<1>6. OwnInv /\ WordInv /\ BlankInv
    BY <1>1, <1>3 DEF OwnInv, WordInv, BlankInv
<1>7. SettingsInv
    BY <1>1, <1>3 DEF SettingsInv, Scanned
<1>8. PulseInv
    BY <1>2 DEF PulseInv
<1> QED
    BY <1>4, <1>5, <1>6, <1>7, <1>8 DEF BringupInv

LEMMA DetectStep ==
  ASSUME BringupInv, Detect
  PROVE  BringupInv'
<1>0. Shape /\ AddressInv /\ PulseInv /\ pc.at = "detect" /\ scene \in Scenes
    BY DEF BringupInv, Detect, Step, Shape
<1>1. PICK l : /\ Lose(l, 0)
               /\ LET reset(d) == [Reset(d) EXCEPT !.fmmu = IF "fmmu" \in l THEN d.fmmu ELSE @,
                                                   !.sm = IF "sm" \in l THEN d.sm ELSE @,
                                                   !.pdi = IF "eeprom" \in l THEN d.pdi ELSE @]
                  IN  IF "count" \in l \/ Count = 0 \/ Count >= MaxSlave
                        THEN Goto("failed", 0, 0) /\ UNCHANGED dev
                        ELSE Goto("address", 1, 0) /\ dev' = [s \in Slaves |-> reset(dev[s])]
    BY DEF Detect
<1>2. scene' = scene /\ list' = [s \in 0 .. Count |-> NoSlave]
    BY DEF Detect
<1>3. lost' \in Seq(Nat) /\ Missed \subseteq Missed' /\ (l # {} => 0 \in Missed')
    BY <1>0, <1>1, LoseIs DEF Shape
<1>4. Slaves' = Slaves /\ Count' = Count /\ Slaves = 1 .. Count /\ Count \in Nat
    BY <1>0, <1>2, SceneIs DEF Slaves, Count
<1>5. /\ \A s \in Slaves : DOMAIN dev[s] = DeviceFields
      /\ \A s \in Slaves : dev[s].adr = scene.old[s].adr
      /\ \A s \in Slaves : ~dev[s].pulse.set
      /\ DOMAIN dev = Slaves
  <2>1. \A s \in Slaves : ~Addressed(s)
      BY <1>0 DEF Addressed, Later, Walks
  <2> QED
      BY <1>0, <2>1 DEF Shape, AddressInv, PulseInv
<1>6. \/ pc'.at = "failed" /\ dev' = dev
      \/ /\ pc'.at = "address" /\ pc'.slave = 1 /\ Count > 0
         /\ DOMAIN dev' = Slaves
         /\ \A s \in Slaves : /\ DOMAIN dev'[s] = DeviceFields /\ dev'[s].adr = dev[s].adr
                              /\ dev'[s].pulse = dev[s].pulse
                              /\ l = {} => dev'[s].pdi = FALSE
  <2>1. CASE "count" \in l \/ Count = 0 \/ Count >= MaxSlave
    <3>1. Goto("failed", 0, 0) /\ UNCHANGED dev
        BY <1>1, <2>1
    <3> QED
        BY <3>1 DEF Goto
  <2>2. CASE ~("count" \in l \/ Count = 0 \/ Count >= MaxSlave)
    <3>1. pc' = [at |-> "address", slave |-> 1, word |-> 0]
        BY <1>1, <2>2 DEF Goto
    <3>0. Count > 0
        BY <1>4, <2>2
    <3>2. \A s \in Slaves :
            dev'[s] = [Reset(dev[s]) EXCEPT !.fmmu = IF "fmmu" \in l THEN dev[s].fmmu ELSE @,
                                            !.sm = IF "sm" \in l THEN dev[s].sm ELSE @,
                                            !.pdi = IF "eeprom" \in l THEN dev[s].pdi ELSE @]
        BY <1>1, <2>2
    <3>3. DOMAIN dev' = Slaves
        BY <1>1, <2>2
    <3>4. ASSUME NEW s \in Slaves
          PROVE  /\ DOMAIN dev'[s] = DeviceFields /\ dev'[s].adr = dev[s].adr /\ dev'[s].pulse = dev[s].pulse
                 /\ l = {} => dev'[s].pdi = FALSE
      <4>1. DOMAIN dev[s] = DeviceFields
          BY <1>5
      <4>2. /\ DOMAIN Reset(dev[s]) = DeviceFields /\ Reset(dev[s]).adr = dev[s].adr
            /\ Reset(dev[s]).pulse = dev[s].pulse /\ Reset(dev[s]).pdi = FALSE
          BY <4>1 DEF Reset, DeviceFields
      <4> QED
          BY <3>2, <4>2 DEF DeviceFields
    <3> QED
        BY <3>0, <3>1, <3>3, <3>4
  <2> QED
      BY <2>1, <2>2
<1>7. /\ DOMAIN dev' = Slaves
      /\ \A s \in Slaves : DOMAIN dev'[s] = DeviceFields /\ dev'[s].adr = scene'.old[s].adr /\ ~dev'[s].pulse.set
    BY <1>2, <1>5, <1>6
<1>8. DOMAIN list' = 0 .. Count /\ \A s \in Slaves : list'[s] = NoSlave
    BY <1>2, <1>4
<1>9. Shape'
  <2>1. \A s \in Slaves : DOMAIN list'[s] = SlaveFields /\ list'[s].ident = [w \in 1 .. 3 |-> list'[s].ident[w]]
    <3>1. NoSlave.ident = <<0, 0, 0>>
        BY DEF NoSlave
    <3>2. <<0, 0, 0>> = [w \in 1 .. 3 |-> <<0, 0, 0>>[w]]
        OBVIOUS
    <3> QED
        BY <1>8, <3>1, <3>2 DEF SlaveFields
  <2>2. pc'.at \in {"failed", "address"} /\ (pc'.at = "address" => pc'.slave \in Slaves /\ Count > 0)
      BY <1>4, <1>6
  <2> QED
      BY <1>0, <1>2, <1>3, <1>4, <1>7, <1>8, <2>1, <2>2 DEF Shape, Walks, Later
<1>10. \A s \in Slaves : ~Addressed(s)'
  <2>1. pc'.at \notin Later /\ (pc'.at = "address" => pc'.slave = 1)
      BY <1>6 DEF Later, Walks
  <2> QED
      BY <1>4, <2>1 DEF Addressed
<1>11. AddressInv'
    BY <1>4, <1>7, <1>10 DEF AddressInv
<1>12. OwnInv'
  <2>1. pc'.at # "configure" /\ pc'.at # "word"
      BY <1>6
  <2>2. pc'.at = "address" /\ 0 \notin Missed' => \A s \in Slaves : dev'[s].pdi = FALSE
      BY <1>3, <1>6
  <2> QED
      BY <1>4, <2>1, <2>2 DEF OwnInv
<1>13. WordInv' /\ SettingsInv'
    BY <1>6 DEF WordInv, SettingsInv, Scanned, Configured, Later, Walks
<1>14. BlankInv'
  <2>1. NoSlave.ca = FALSE /\ NoSlave.block = FALSE
      BY DEF NoSlave
  <2> QED
      BY <1>4, <1>8, <2>1 DEF BlankInv
<1>15. PulseInv'
    BY <1>4, <1>7 DEF PulseInv
<1> QED
    BY <1>9, <1>11, <1>12, <1>13, <1>14, <1>15 DEF BringupInv

LEMMA GreatestIs ==
  ASSUME NEW n \in Nat, NEW S \in SUBSET (1 .. n), NEW s \in S, \A t \in S : s >= t
  PROVE  Max(S) = s
<1>1. \A x \in S : (\A y \in S : x >= y) => x = s
    OBVIOUS
<1> QED
    BY <1>1 DEF Max

LEMMA AddressStep ==
  ASSUME BringupInv, Address
  PROVE  BringupInv'
<1> DEFINE s == pc.slave
<1>0. Shape /\ AddressInv /\ OwnInv /\ BlankInv /\ PulseInv /\ pc.at = "address" /\ scene \in Scenes
    BY DEF BringupInv, Address, Step, Shape
<1>1. s \in Slaves /\ s \in Nat /\ Slaves = 1 .. Count /\ Count \in Nat
    BY <1>0, SceneIs DEF Shape, Walks
<1> DEFINE adr(l) == IF "back" \in l THEN 0 ELSE dev'[s].adr
           wired(l) == {t \in Slaves : dev'[t].adr = adr(l)}
           alias(l, old) == IF "alias" \in l \/ wired(l) = {} THEN old ELSE Kind(Max(wired(l))).alias
<1>2. PICK l, old :
        /\ dev' = [dev EXCEPT ![s].adr = IF "write" \in l THEN @ ELSE s]
        /\ list' = [list EXCEPT ![s].adr = adr(l), ![s].alias = alias(l, old)]
        /\ Lose(l, s)
    BY DEF Address
<1> DEFINE a == adr(l)
           b == alias(l, old)
<1>3. scene' = scene /\ lost' \in Seq(Nat) /\ Missed \subseteq Missed' /\ (l # {} => s \in Missed')
    BY <1>0, <1>1, <1>2, LoseIs DEF Address, Shape
<1>4. Slaves' = Slaves /\ Count' = Count
    BY <1>3 DEF Slaves, Count
<1>5. DOMAIN dev = Slaves /\ \A t \in Slaves : DOMAIN dev[t] = DeviceFields
    BY <1>0 DEF Shape
<1>6. /\ DOMAIN dev' = Slaves /\ \A t \in Slaves : /\ DOMAIN dev'[t] = DeviceFields
                                                  /\ dev'[t].pulse = dev[t].pulse /\ dev'[t].pdi = dev[t].pdi
      /\ \A t \in Slaves : t # s => dev'[t].adr = dev[t].adr
      /\ dev'[s].adr = IF "write" \in l THEN dev[s].adr ELSE s
    BY <1>1, <1>2, <1>5 DEF DeviceFields
<1>7. DOMAIN list = 0 .. Count /\ \A t \in Slaves : /\ DOMAIN list[t] = SlaveFields
                                                   /\ list[t].ident = [w \in 1 .. 3 |-> list[t].ident[w]]
    BY <1>0 DEF Shape
<1>8. /\ DOMAIN list' = 0 .. Count
      /\ \A t \in Slaves : t # s => list'[t] = list[t]
      /\ DOMAIN list'[s] = SlaveFields
      /\ list'[s].adr = a /\ list'[s].alias = b /\ list'[s].ident = list[s].ident
      /\ list'[s].ca = list[s].ca /\ list'[s].block = list[s].block
  <2>1. list' = [list EXCEPT ![s].adr = a, ![s].alias = b]
      BY <1>2
  <2> HIDE DEF a, b, s
  <2>2. DOMAIN list' = 0 .. Count /\ \A t \in Slaves : t # s => list'[t] = list[t]
      BY <1>1, <1>7, <2>1
  <2>3. s \in DOMAIN list /\ DOMAIN list[s] = SlaveFields
    <3>1. s \in 0 .. Count
        BY <1>1
    <3>2. DOMAIN list = 0 .. Count /\ \A t \in Slaves : DOMAIN list[t] = SlaveFields
        BY <1>7
    <3>3. s \in Slaves
        BY <1>1
    <3> QED
        BY <3>1, <3>2, <3>3
  <2>4. list'[s] = [list[s] EXCEPT !.adr = a, !.alias = b]
      BY <2>1, <2>3
  <2>5. {"adr", "alias", "ident", "ca", "block"} \subseteq SlaveFields
      BY DEF SlaveFields, NoSlave
  <2>6. /\ DOMAIN list'[s] = SlaveFields /\ list'[s].adr = a /\ list'[s].alias = b
        /\ list'[s].ident = list[s].ident /\ list'[s].ca = list[s].ca /\ list'[s].block = list[s].block
      BY <2>3, <2>4, <2>5
  <2> QED
      BY <2>2, <2>6
<1> HIDE DEF alias, adr, wired
<1>9. \/ s < Count /\ pc' = [at |-> "address", slave |-> s + 1, word |-> pc.word]
      \/ ~(s < Count) /\ pc' = [at |-> "word", slave |-> 1, word |-> 1]
    BY <1>0 DEF Address, NextSlave, Goto
<1>10. Shape'
  <2>1. \A t \in Slaves : DOMAIN list'[t] = SlaveFields /\ list'[t].ident = [w \in 1 .. 3 |-> list'[t].ident[w]]
      BY <1>1, <1>7, <1>8
  <2>2. pc'.at \in {"address", "word"} /\ pc'.slave \in Slaves /\ (pc'.at = "word" => pc'.word \in 1 .. Words) /\ Count > 0
      BY <1>1, <1>9 DEF Words
  <2> QED
      BY <1>0, <1>3, <1>4, <1>6, <1>8, <2>1, <2>2 DEF Shape, Walks, Later
<1>11. ASSUME NEW t \in Slaves PROVE Addressed(t)' <=> t <= s
  <2>1. CASE s < Count /\ pc' = [at |-> "address", slave |-> s + 1, word |-> pc.word]
      BY <1>1, <2>1 DEF Addressed, Later, Walks
  <2>2. CASE ~(s < Count) /\ pc' = [at |-> "word", slave |-> 1, word |-> 1]
      BY <1>1, <2>2 DEF Addressed, Later, Walks
  <2> QED
      BY <1>9, <2>1, <2>2
<1>12. ASSUME NEW t \in Slaves PROVE Addressed(t) <=> t < s
    BY <1>0, <1>1 DEF Addressed, Later, Walks
<1>13. AddressInv'
  <2>1. ASSUME NEW t \in Slaves, ~(t <= s) PROVE dev'[t].adr = scene'.old[t].adr
    <3>1. ~Addressed(t) /\ t # s
        BY <1>1, <1>12, <2>1
    <3>2. dev[t].adr = scene.old[t].adr
        BY <1>0, <3>1 DEF AddressInv
    <3> QED
        BY <1>3, <1>6, <3>1, <3>2
  <2>2. ASSUME NEW t \in Slaves, t <= s
        PROVE  /\ list'[t].adr \in {0, dev'[t].adr}
               /\ t \notin Missed' => /\ dev'[t].adr = t /\ list'[t].adr = t
                                      /\ ~Shadowed(t)' => list'[t].alias = Kind(t)'.alias
    <3>1. Shadowed(t)' = Shadowed(t) /\ Kind(t)' = Kind(t)
        BY <1>3, <1>4 DEF Shadowed, Kind
    <3>2. CASE t < s
      <4>1. Addressed(t) /\ t # s
          BY <1>1, <1>12, <3>2
      <4>2. /\ list[t].adr \in {0, dev[t].adr}
            /\ t \notin Missed => dev[t].adr = t /\ list[t].adr = t /\ (~Shadowed(t) => list[t].alias = Kind(t).alias)
          BY <1>0, <4>1 DEF AddressInv
      <4>3. list'[t] = list[t] /\ dev'[t].adr = dev[t].adr /\ (t \notin Missed' => t \notin Missed)
          BY <1>3, <1>6, <1>8, <4>1
      <4> QED
          BY <3>1, <4>2, <4>3
    <3>3. CASE t = s
      <4>1. list'[s].adr \in {0, dev'[s].adr}
          BY <1>8 DEF adr
      <4>2. ASSUME s \notin Missed' PROVE dev'[s].adr = s /\ list'[s].adr = s /\ l = {}
        <5>1. l = {}
            BY <1>3, <4>2
        <5> QED
            BY <1>6, <1>8, <5>1 DEF adr
      <4>3. ASSUME s \notin Missed', ~Shadowed(s) PROVE list'[s].alias = Kind(s).alias
        <5>1. dev'[s].adr = s /\ a = s /\ l = {}
            BY <1>8, <4>2, <4>3
        <5>2. wired(l) \in SUBSET (1 .. Count) /\ s \in wired(l)
            BY <1>1, <5>1 DEF wired
        <5>3. ASSUME NEW u \in wired(l) PROVE s >= u
          <6>1. u \in Slaves /\ dev'[u].adr = s
              BY <5>1 DEF wired
          <6>2. u > s => scene.old[u].adr = s
              BY <1>1, <1>3, <2>1, <6>1
          <6>3. ~(u > s)
              BY <4>3, <6>1, <6>2 DEF Shadowed
          <6> QED
              BY <1>1, <6>1, <6>3
        <5>4. Max(wired(l)) = s
            BY <1>1, <5>2, <5>3, GreatestIs
        <5>5. b = Kind(s).alias
            BY <5>1, <5>2, <5>4 DEF alias
        <5> QED
            BY <1>8, <5>5
      <4> QED
          BY <3>1, <3>3, <4>1, <4>2, <4>3
    <3> QED
        BY <1>1, <2>2, <3>2, <3>3
  <2> QED
      BY <1>4, <1>11, <2>1, <2>2 DEF AddressInv
<1>14. OwnInv'
  <2>1. pc'.at # "configure"
      BY <1>9
  <2>2. 0 \notin Missed' => \A t \in Slaves : dev'[t].pdi = FALSE
    <3>1. 0 \notin Missed' => 0 \notin Missed
        BY <1>3
    <3>2. 0 \notin Missed => \A t \in Slaves : dev[t].pdi = FALSE
        BY <1>0 DEF OwnInv
    <3> QED
        BY <1>6, <3>1, <3>2
  <2> QED
      BY <1>4, <2>1, <2>2 DEF OwnInv
<1>15. WordInv'
  <2>1. ASSUME pc'.at \in Later, NEW t \in Slaves, NEW w \in 1 .. 4 PROVE ~HasWord(t, w)'
    <3>1. pc'.at = "word" /\ pc'.word = 1 /\ pc'.slave = 1
        BY <1>9, <2>1 DEF Later, Walks
    <3> QED
        BY <1>1, <3>1 DEF HasWord
  <2> QED
      BY <1>4, <2>1 DEF WordInv, Words
<1>16. BlankInv'
  <2>1. \A t \in Slaves : list[t].ca = FALSE /\ list[t].block = FALSE
      BY <1>0 DEF BlankInv
  <2>2. \A t \in Slaves : list'[t].ca = FALSE /\ list'[t].block = FALSE
      BY <1>8, <2>1
  <2> QED
      BY <1>4, <2>2 DEF BlankInv
<1>17. SettingsInv'
    BY <1>9 DEF SettingsInv, Scanned, Configured
<1>18. PulseInv'
    BY <1>0, <1>4, <1>6, NoPulseYet
<1> QED
    BY <1>10, <1>13, <1>14, <1>15, <1>16, <1>17, <1>18 DEF BringupInv

(* The walks for the words and for the settings: what does not change.     *)
LEMMA ScanShape ==
  ASSUME Shape, pc.at \in Later, Quiet, pc'.at \in Later,
         pc'.at \in Walks => pc'.slave \in Slaves, pc'.at = "word" => pc'.word \in 1 .. Words,
         \A t \in Slaves : list'[t].ident = [w \in 1 .. 3 |-> list'[t].ident[w]]
  PROVE  Shape'
<1>1. Slaves' = Slaves /\ Count' = Count /\ scene' = scene
    BY SoundBefore DEF Quiet
<1>2. Count > 0 /\ scene \in Scenes
    BY DEF Shape
<1> QED
    BY <1>1, <1>2 DEF Shape, Quiet, Later, Walks

LEMMA WordStep ==
  ASSUME BringupInv, ReadWord
  PROVE  BringupInv'
<1> DEFINE s == pc.slave
           w == pc.word
<1>0. /\ Shape /\ AddressInv /\ OwnInv /\ WordInv /\ BlankInv /\ PulseInv
      /\ pc.at = "word" /\ pc.at \in Later /\ scene \in Scenes
    BY DEF BringupInv, ReadWord, Step, Shape, Later, Walks
<1>1. s \in Slaves /\ s \in Nat /\ Slaves = 1 .. Count /\ Count \in Nat /\ w \in 1 .. 4
    BY <1>0, SceneIs DEF Shape, Walks, Words
<1>2. PICK l :
        /\ list' = [list EXCEPT ![s] = WithWord(s, w, Seen(list[s].adr), l \cup IF Shut(list[s].adr) THEN {"word"} ELSE {})]
        /\ Lose(l, s)
    BY DEF ReadWord
<1> DEFINE k == Seen(list[s].adr)
           m == l \cup IF Shut(list[s].adr) THEN {"word"} ELSE {}
           v == WithWord(s, w, k, m)
<1>3. /\ scene' = scene /\ dev' = dev /\ lost' \in Seq(Nat) /\ Missed \subseteq Missed' /\ (l # {} => s \in Missed')
    BY <1>0, <1>1, <1>2, LoseIs DEF ReadWord, Shape
<1>4. DOMAIN list = 0 .. Count /\ \A t \in Slaves : DOMAIN list[t] = SlaveFields
    BY <1>0 DEF Shape
<1>5. \A t \in Slaves : list[t].ident = [q \in 1 .. 3 |-> list[t].ident[q]]
    BY <1>0 DEF Shape
<1>6. /\ DOMAIN v = SlaveFields /\ v.adr = list[s].adr /\ v.alias = list[s].alias
      /\ v.ca = list[s].ca /\ v.block = list[s].block
      /\ v.ident = [q \in 1 .. 3 |-> v.ident[q]]
      /\ \A q \in 1 .. 3 : q # w => v.ident[q] = list[s].ident[q]
      /\ w \in 1 .. 3 /\ m = {} => v.ident[w] = k.ident[w]
      /\ w = 4 /\ m = {} => v.wo = k.mbx.wo /\ v.l = k.mbx.l
      /\ w # 4 => v.wo = list[s].wo /\ v.l = list[s].l
  <2> HIDE DEF s, w, k, m
  <2>0. DOMAIN list[s] = SlaveFields /\ list[s].ident = [q \in 1 .. 3 |-> list[s].ident[q]]
      BY <1>1, <1>4, <1>5
  <2>1. CASE w <= 3
    <3> DEFINE x == IF m = {} THEN k.ident[w] ELSE 0
    <3>1. v = [list[s] EXCEPT !.ident[w] = x]
        BY <2>1 DEF WithWord
    <3> HIDE DEF v, x
    <3>2. /\ DOMAIN v = SlaveFields /\ v.adr = list[s].adr /\ v.alias = list[s].alias
          /\ v.ca = list[s].ca /\ v.block = list[s].block /\ v.wo = list[s].wo /\ v.l = list[s].l
          /\ v.ident = [list[s].ident EXCEPT ![w] = x]
        BY <2>0, <3>1 DEF SlaveFields, NoSlave
    <3>3. w \in 1 .. 3 /\ w # 4
        BY <1>1, <2>1
    <3>4. v.ident = [q \in 1 .. 3 |-> v.ident[q]] /\ v.ident[w] = x
          /\ \A q \in 1 .. 3 : q # w => v.ident[q] = list[s].ident[q]
        BY <2>0, <3>2, <3>3
    <3> QED
        BY <3>2, <3>3, <3>4 DEF x
  <2>2. CASE ~(w <= 3)
    <3>1. w = 4
        BY <1>1, <2>2
    <3>2. v = [list[s] EXCEPT !.wo = IF m = {} THEN k.mbx.wo ELSE 0, !.l = IF m = {} THEN k.mbx.l ELSE 0]
        BY <3>1 DEF WithWord
    <3> HIDE DEF v
    <3>3. /\ DOMAIN v = SlaveFields /\ v.adr = list[s].adr /\ v.alias = list[s].alias
          /\ v.ca = list[s].ca /\ v.block = list[s].block /\ v.ident = list[s].ident
          /\ m = {} => v.wo = k.mbx.wo /\ v.l = k.mbx.l
        BY <2>0, <3>2 DEF SlaveFields, NoSlave
    <3> QED
        BY <2>0, <3>1, <3>3
  <2> QED
      BY <2>1, <2>2
<1>7. list' = [list EXCEPT ![s] = v]
    BY <1>2
<1> HIDE DEF v, m, k
<1>8. list'[s] = v /\ DOMAIN list' = 0 .. Count /\ \A t \in Slaves : t # s => list'[t] = list[t]
    BY <1>1, <1>4, <1>7
<1>9. Quiet
    BY <1>0, <1>3, <1>4, <1>6, <1>8 DEF Quiet, Shape
<1>10. \/ s < Count /\ pc' = [at |-> "word", slave |-> s + 1, word |-> w]
       \/ ~(s < Count) /\ w < 4 /\ pc' = [at |-> "word", slave |-> 1, word |-> w + 1]
       \/ ~(s < Count) /\ ~(w < 4) /\ pc' = [at |-> "configure", slave |-> 1, word |-> 0]
  <2>1. NextSlave(IF w < 4 THEN Goto("word", 1, w + 1) ELSE Goto("configure", 1, 0))
      BY DEF ReadWord, Words
  <2> QED
      BY <1>0, <2>1 DEF NextSlave, Goto
<1>11. pc'.at \in {"word", "configure"} /\ pc'.at \in Later /\ pc'.slave \in Slaves /\ (pc'.at = "word" => pc'.word \in 1 .. Words)
    BY <1>1, <1>10 DEF Later, Walks, Words
<1>12. Shape'
  <2>1. \A t \in Slaves : list'[t].ident = [q \in 1 .. 3 |-> list'[t].ident[q]]
      BY <1>5, <1>6, <1>8
  <2> QED
      BY <1>0, <1>9, <1>11, <2>1, ScanShape
<1>13. AddressInv'
    BY <1>0, <1>9, <1>11, AddressStays
<1>14. /\ Slaves' = Slaves /\ \A t \in Slaves : Sound(t)' => Sound(t)
       /\ \A t \in Slaves : Kind(t)' = Kind(t)
    BY <1>9, SoundBefore
<1>15. 0 \notin Missed => \A t \in Slaves : dev[t].pdi = FALSE
    BY <1>0 DEF OwnInv
<1>16. OwnInv'
  <2>1. \A t \in Slaves : Sound(t)' => 0 \notin Missed'
      BY DEF Sound
  <2>2. 0 \notin Missed' => \A t \in Slaves : dev'[t].pdi = FALSE
      BY <1>3, <1>15
  <2> QED
      BY <1>14, <2>1, <2>2 DEF OwnInv
<1>17. WordInv'
  <2>1. ASSUME NEW t \in Slaves, NEW q \in 1 .. 4, HasWord(t, q)' PROVE HasWord(t, q) \/ (t = s /\ q = w)
    <3>1. pc'.at # "word" => pc'.at = "configure"
        BY <1>11
    <3>2. CASE s < Count /\ pc' = [at |-> "word", slave |-> s + 1, word |-> w]
        BY <1>1, <2>1, <3>2 DEF HasWord
    <3>3. CASE ~(s < Count) /\ w < 4 /\ pc' = [at |-> "word", slave |-> 1, word |-> w + 1]
        BY <1>1, <2>1, <3>3 DEF HasWord
    <3>4. CASE ~(s < Count) /\ ~(w < 4) /\ pc' = [at |-> "configure", slave |-> 1, word |-> 0]
        BY <1>1, <2>1, <3>4 DEF HasWord
    <3> QED
        BY <1>10, <3>2, <3>3, <3>4
  <2>2. ASSUME NEW t \in Slaves, Sound(t)'
        PROVE  /\ \A q \in 1 .. 3 : HasWord(t, q)' => list'[t].ident[q] = Kind(t).ident[q]
               /\ HasWord(t, 4)' => list'[t].wo = Kind(t).mbx.wo /\ list'[t].l = Kind(t).mbx.l
    <3>1. Sound(t)
        BY <1>14, <2>2
    <3>2. /\ \A q \in 1 .. 3 : HasWord(t, q) => list[t].ident[q] = Kind(t).ident[q]
          /\ HasWord(t, 4) => list[t].wo = Kind(t).mbx.wo /\ list[t].l = Kind(t).mbx.l
        BY <1>0, <3>1 DEF WordInv, Words
    <3>3. CASE t # s
        BY <1>8, <2>1, <3>2, <3>3
    <3>4. CASE t = s
      <4>1. list[s].adr = s /\ At(list[s].adr) = {s} /\ 0 \notin Missed
          BY <1>0, <3>1, <3>4, SoundIs
      <4>2. ~Shut(list[s].adr) /\ k = Kind(s)
          BY <1>0, <1>1, <1>15, <4>1, OneAnswers DEF k
      <4>3. s \notin Missed'
          BY <2>2, <3>4 DEF Sound
      <4>4. m = {}
          BY <1>3, <4>2, <4>3 DEF m
      <4>5. ASSUME NEW q \in 1 .. 3, HasWord(t, q)' PROVE v.ident[q] = Kind(s).ident[q]
        <5>1. CASE q = w
            BY <1>6, <4>2, <4>4, <5>1
        <5>2. CASE q # w
          <6>1. HasWord(t, q)
            <7>1. q \in 1 .. 4
                OBVIOUS
            <7> QED
                BY <2>1, <4>5, <5>2, <7>1
          <6> QED
              BY <1>6, <3>2, <3>4, <5>2, <6>1
        <5> QED
            BY <5>1, <5>2
      <4>6. ASSUME HasWord(t, 4)' PROVE v.wo = Kind(s).mbx.wo /\ v.l = Kind(s).mbx.l
        <5>1. CASE w = 4
            BY <1>6, <4>2, <4>4, <5>1
        <5>2. CASE w # 4
          <6>1. HasWord(t, 4)
            <7>1. 4 \in 1 .. 4
                OBVIOUS
            <7> QED
                BY <2>1, <4>6, <5>2, <7>1
          <6> QED
              BY <1>6, <3>2, <3>4, <5>2, <6>1
        <5> QED
            BY <5>1, <5>2
      <4>7. list'[t] = v /\ Kind(t) = Kind(s)
          BY <1>8, <3>4
      <4> QED
          BY <4>5, <4>6, <4>7
    <3> QED
        BY <3>3, <3>4
  <2> QED
      BY <1>14, <2>2 DEF WordInv, Words
<1>18. BlankInv'
  <2>1. \A t \in Slaves : list[t].ca = FALSE /\ list[t].block = FALSE
      BY <1>0 DEF BlankInv
  <2>2. \A t \in Slaves : list'[t].ca = FALSE /\ list'[t].block = FALSE
      BY <1>6, <1>8, <2>1
  <2> QED
      BY <1>14, <2>2 DEF BlankInv
<1>19. SettingsInv'
  <2>1. \A t \in Slaves : ~Scanned(t)'
    <3>1. pc'.at = "configure" => pc'.slave = 1
        BY <1>10
    <3> QED
        BY <1>1, <1>11, <3>1 DEF Scanned, Configured
  <2> QED
      BY <1>14, <2>1 DEF SettingsInv
<1>20. PulseInv'
    BY <1>0, <1>3, <1>14, NoPulseYet
<1> QED
    BY <1>12, <1>13, <1>16, <1>17, <1>18, <1>19, <1>20 DEF BringupInv

(* What becomes of a record when its slave is configured. *)
Before(x, s, k, l, data) == WithSii(WithMailbox(WithLinks(WithTx(x, k, l), s, l), k, l), s, data)
ScanOf(x, s, k, l, data) == WithDefaults(Before(x, s, k, l, data))

Basics(v) == <<v.adr, v.alias, v.ident, v.wo, v.l>>
Links(v) == <<v.hasdc, v.active, v.parent>>
Blank(v) == v.ca = FALSE /\ v.block = FALSE

ScanLinks(x, s, l) ==
  LET a == Answer(x.adr)
  IN  <<a > 0 /\ a \in scene.dc /\ "clock" \notin l,
        IF a = 0 \/ "links" \in l THEN {} ELSE ActivePorts(scene.tree, a),
        IF s = 1 THEN 0 ELSE FindParent(list, s)>>

ScanSettings(x, s, data) ==
  IF Twins(x, s) = {} THEN Settings(FromSections(NoSlave, data)) ELSE Settings(list[Min(Twins(x, s))])

LEMMA TxIs ==
  ASSUME NEW x, DOMAIN x = SlaveFields, NEW k, NEW l
  PROVE  DOMAIN WithTx(x, k, l) = SlaveFields /\ Basics(WithTx(x, k, l)) = Basics(x)
         /\ WithTx(x, k, l).ca = x.ca /\ WithTx(x, k, l).block = x.block
BY DEF WithTx, Basics, SlaveFields, NoSlave

LEMMA MailboxIs ==
  ASSUME NEW x, DOMAIN x = SlaveFields, NEW k, NEW l
  PROVE  DOMAIN WithMailbox(x, k, l) = SlaveFields /\ Basics(WithMailbox(x, k, l)) = Basics(x)
         /\ Links(WithMailbox(x, k, l)) = Links(x)
         /\ WithMailbox(x, k, l).ca = x.ca /\ WithMailbox(x, k, l).block = x.block
BY DEF WithMailbox, Basics, Links, SlaveFields, NoSlave

LEMMA DefaultsAre ==
  ASSUME NEW x, DOMAIN x = SlaveFields
  PROVE  DOMAIN WithDefaults(x) = SlaveFields /\ Basics(WithDefaults(x)) = Basics(x)
         /\ Links(WithDefaults(x)) = Links(x) /\ Settings(WithDefaults(x)) = Settings(x)
BY DEF WithDefaults, Basics, Links, Settings, SlaveFields, NoSlave

LEMMA LinksAre ==
  ASSUME NEW x, DOMAIN x = SlaveFields, NEW s, NEW l
  PROVE  /\ DOMAIN WithLinks(x, s, l) = SlaveFields /\ Basics(WithLinks(x, s, l)) = Basics(x)
         /\ WithLinks(x, s, l).ca = x.ca /\ WithLinks(x, s, l).block = x.block
         /\ Links(WithLinks(x, s, l)) = ScanLinks(x, s, l)
<1> DEFINE p == IF s = 1 THEN 0 ELSE FindParent(list, s)
           a == Answer(x.adr)
           h == a > 0 /\ a \in scene.dc /\ "clock" \notin l
           c == IF a = 0 \/ "links" \in l THEN {} ELSE ActivePorts(scene.tree, a)
<1>1. WithLinks(x, s, l) = [[x EXCEPT !.hasdc = h, !.active = c] EXCEPT !.parent = p]
    BY DEF WithLinks
<1> HIDE DEF h, c, p
<1>2. /\ DOMAIN WithLinks(x, s, l) = SlaveFields /\ Basics(WithLinks(x, s, l)) = Basics(x)
      /\ WithLinks(x, s, l).ca = x.ca /\ WithLinks(x, s, l).block = x.block
      /\ Links(WithLinks(x, s, l)) = <<h, c, p>>
    BY <1>1 DEF Basics, Links, SlaveFields, NoSlave
<1> QED
    BY <1>2 DEF h, c, p, ScanLinks

LEMMA SectionsAre ==
  ASSUME NEW x, DOMAIN x = SlaveFields, NEW data
  PROVE  /\ DOMAIN FromSections(x, data) = SlaveFields /\ Basics(FromSections(x, data)) = Basics(x)
         /\ Links(FromSections(x, data)) = Links(x)
         /\ x.ca = FALSE /\ x.block = FALSE =>
              Settings(FromSections(x, data)) = Settings(FromSections(NoSlave, data))
<1> DEFINE g == Section(data, "general")
           has == Has(data, "general")
           name == IF Has(data, "strings") THEN siistring(data, 1, "") ELSE "?"
           uses == [k \in DOMAIN siiFMMU(data) |-> IF siiFMMU(data)[k] = UNUSED THEN 0 ELSE siiFMMU(data)[k]]
           sms == siiSM(data)
<1>1. ASSUME NEW y
      PROVE  FromSections(y, data) =
               [y EXCEPT !.ca = IF has THEN g.ca ELSE y.ca, !.block = IF has THEN g.block ELSE y.block,
                         !.name = name, !.uses = uses,
                         !.sm = [k \in SyncManagers |-> IF k < Len(sms) THEN sms[k + 1] ELSE y.sm[k]]]
  <2>1. IF Has(data, "strings") THEN siistring(data, 1, y.name) = siistring(data, 1, "") ELSE TRUE
      BY DEF siistring
  <2> QED
      BY <2>1 DEF FromSections
<1> HIDE DEF g, has, name, uses, sms
<1>2. ASSUME NEW y, DOMAIN y = SlaveFields
      PROVE  /\ DOMAIN FromSections(y, data) = SlaveFields /\ Basics(FromSections(y, data)) = Basics(y)
             /\ Links(FromSections(y, data)) = Links(y)
             /\ Settings(FromSections(y, data)) =
                  <<IF has THEN g.ca ELSE y.ca, IF has THEN g.block ELSE y.block, name, uses>>
  <2> DEFINE fca == IF has THEN g.ca ELSE y.ca
             fblock == IF has THEN g.block ELSE y.block
             fsm == [k \in SyncManagers |-> IF k < Len(sms) THEN sms[k + 1] ELSE y.sm[k]]
             r == [y EXCEPT !.ca = fca, !.block = fblock, !.name = name, !.uses = uses, !.sm = fsm]
  <2>1. FromSections(y, data) = r
      BY <1>1
  <2> HIDE DEF fca, fblock, fsm
  <2>2. DOMAIN r = SlaveFields /\ Basics(r) = Basics(y) /\ Links(r) = Links(y)
        /\ Settings(r) = <<fca, fblock, name, uses>>
      BY <1>2 DEF Basics, Links, Settings, SlaveFields, NoSlave
  <2> HIDE DEF r
  <2> QED
      BY <2>1, <2>2 DEF fca, fblock
<1>3. DOMAIN NoSlave = SlaveFields
    BY DEF SlaveFields
<1>4. NoSlave.ca = FALSE /\ NoSlave.block = FALSE
    BY DEF NoSlave
<1>5. Settings(FromSections(NoSlave, data)) = <<IF has THEN g.ca ELSE FALSE, IF has THEN g.block ELSE FALSE, name, uses>>
    BY <1>2, <1>3, <1>4
<1>6. Settings(FromSections(x, data)) = <<IF has THEN g.ca ELSE x.ca, IF has THEN g.block ELSE x.block, name, uses>>
    BY <1>2
<1>7. ASSUME x.ca = FALSE, x.block = FALSE
      PROVE  Settings(FromSections(x, data)) = Settings(FromSections(NoSlave, data))
  <2>1. CASE has
    <3>1. Settings(FromSections(x, data)) = <<g.ca, g.block, name, uses>>
        BY <1>6, <2>1
    <3>2. Settings(FromSections(NoSlave, data)) = <<g.ca, g.block, name, uses>>
        BY <1>5, <2>1
    <3> QED
        BY <3>1, <3>2
  <2>2. CASE ~has
    <3>1. Settings(FromSections(x, data)) = <<x.ca, x.block, name, uses>>
        BY <1>6, <2>2
    <3>2. Settings(FromSections(NoSlave, data)) = <<FALSE, FALSE, name, uses>>
        BY <1>5, <2>2
    <3> QED
        BY <1>7, <3>1, <3>2
  <2> QED
      BY <2>1, <2>2
<1>8. DOMAIN FromSections(x, data) = SlaveFields /\ Basics(FromSections(x, data)) = Basics(x)
      /\ Links(FromSections(x, data)) = Links(x)
    BY <1>2
<1> QED
    BY <1>7, <1>8

LEMMA TwinIs ==
  ASSUME NEW x, DOMAIN x = SlaveFields, NEW twin
  PROVE  DOMAIN CopySii(x, twin) = SlaveFields /\ Basics(CopySii(x, twin)) = Basics(x)
         /\ Links(CopySii(x, twin)) = Links(x) /\ Settings(CopySii(x, twin)) = Settings(twin)
BY DEF CopySii, Basics, Links, Settings, SlaveFields, NoSlave

LEMMA ScanOfIs ==
  ASSUME NEW r, NEW i, NEW d, NEW m, NEW bytes, DOMAIN r = SlaveFields, Blank(r)
  PROVE  /\ DOMAIN ScanOf(r, i, d, m, bytes) = SlaveFields /\ Basics(ScanOf(r, i, d, m, bytes)) = Basics(r)
         /\ Basics(Before(r, i, d, m, bytes)) = Basics(r)
         /\ Links(ScanOf(r, i, d, m, bytes)) = ScanLinks(r, i, m)
         /\ Settings(ScanOf(r, i, d, m, bytes)) = ScanSettings(r, i, bytes)
<1> DEFINE y == WithTx(r, d, m)
           z == WithLinks(y, i, m)
           u == WithMailbox(z, d, m)
           v == WithSii(u, i, bytes)
           links == ScanLinks(r, i, m)
<1>1. ScanOf(r, i, d, m, bytes) = WithDefaults(v) /\ Before(r, i, d, m, bytes) = v
    BY DEF ScanOf, Before
<1>2. DOMAIN y = SlaveFields /\ Basics(y) = Basics(r) /\ y.ca = FALSE /\ y.block = FALSE
    BY TxIs DEF Blank
<1> HIDE DEF y
<1>3. y.adr = r.adr /\ ScanLinks(y, i, m) = links
  <2>1. y.adr = r.adr
      BY <1>2 DEF Basics
  <2> QED
      BY <2>1 DEF ScanLinks
<1>4. DOMAIN z = SlaveFields /\ Basics(z) = Basics(r) /\ z.ca = FALSE /\ z.block = FALSE /\ Links(z) = links
  <2>1. DOMAIN z = SlaveFields /\ Basics(z) = Basics(y) /\ z.ca = y.ca /\ z.block = y.block
        /\ Links(z) = ScanLinks(y, i, m)
      BY <1>2, LinksAre
  <2> HIDE DEF z
  <2> QED
      BY <1>2, <1>3, <2>1
<1> HIDE DEF z, links
<1>5. DOMAIN u = SlaveFields /\ Basics(u) = Basics(r) /\ Links(u) = links /\ u.ca = FALSE /\ u.block = FALSE
    BY <1>4, MailboxIs
<1> HIDE DEF u
<1>6. Twins(u, i) = Twins(r, i)
  <2>1. u.ident = r.ident
      BY <1>5 DEF Basics
  <2> QED
      BY <2>1 DEF Twins
<1>7. /\ DOMAIN v = SlaveFields /\ Basics(v) = Basics(r) /\ Links(v) = links
      /\ Settings(v) = ScanSettings(r, i, bytes)
  <2>1. CASE Twins(r, i) = {}
    <3>1. v = FromSections(u, bytes)
        BY <1>6, <2>1 DEF WithSii
    <3> HIDE DEF v
    <3> QED
        BY <1>5, <2>1, <3>1, SectionsAre DEF ScanSettings
  <2>2. CASE Twins(r, i) # {}
    <3>1. v = CopySii(u, list[Min(Twins(r, i))])
        BY <1>6, <2>2 DEF WithSii
    <3> HIDE DEF v
    <3> QED
        BY <1>5, <2>2, <3>1, TwinIs DEF ScanSettings
  <2> QED
      BY <2>1, <2>2
<1> HIDE DEF v
<1>8. DOMAIN WithDefaults(v) = SlaveFields /\ Basics(WithDefaults(v)) = Basics(v)
      /\ Links(WithDefaults(v)) = Links(v) /\ Settings(WithDefaults(v)) = Settings(v)
    BY <1>7, DefaultsAre
<1> QED
    BY <1>1, <1>7, <1>8 DEF links

LEMMA AskedKeeps ==
  ASSUME NEW d, DOMAIN d = DeviceFields, NEW kind, NEW v, NEW l
  PROVE  LET e == Asked(Programmed(d, v, l), kind, l)
         IN  DOMAIN e = DeviceFields /\ e.adr = d.adr /\ e.pulse = d.pulse
<1> DEFINE f == Programmed(d, v, l)
<1>1. DOMAIN f = DeviceFields /\ f.adr = d.adr /\ f.pulse = d.pulse
    BY DEF Programmed, DeviceFields
<1> HIDE DEF f
<1>2. DOMAIN Asked(f, kind, l) = DeviceFields /\ Asked(f, kind, l).adr = f.adr /\ Asked(f, kind, l).pulse = f.pulse
    BY <1>1 DEF Asked, DeviceFields
<1> QED
    BY <1>1, <1>2 DEF f

(* The record the settings come from is that of the first slave that calls *)
(* itself the same.                                                        *)
LEMMA TwinIsSource ==
  ASSUME scene \in Scenes, NEW s \in Slaves
  PROVE  /\ Twins(list[s], s) = {} => Source(s) = s
         /\ Twins(list[s], s) # {} => Min(Twins(list[s], s)) = Source(s) /\ Source(s) \in 1 .. s - 1
<1> DEFINE S == Twins(list[s], s)
<1>1. s \in Nat /\ S = {t \in 1 .. s - 1 : list[t].ident = list[s].ident}
    BY SceneIs DEF Twins
<1>2. /\ Source(s) \in 1 .. s /\ list[Source(s)].ident = list[s].ident
      /\ \A t \in 1 .. s : list[t].ident = list[s].ident => Source(s) <= t
    BY SourceIs
<1>3. Source(s) # s => Source(s) \in S
    BY <1>1, <1>2
<1> HIDE DEF S
<1>4. ASSUME S # {} PROVE Min(S) = Source(s) /\ Source(s) \in 1 .. s - 1
  <2>1. S \in SUBSET Nat
      BY <1>1
  <2>2. Min(S) \in S /\ \A y \in S : Min(S) <= y
      BY <1>4, <2>1, LeastIs
  <2>3. Min(S) \in 1 .. s - 1 /\ list[Min(S)].ident = list[s].ident
      BY <1>1, <2>2
  <2>4. Source(s) <= Min(S)
      BY <1>1, <1>2, <2>3
  <2>5. Source(s) \in 1 .. s - 1
      BY <1>1, <1>2, <2>3, <2>4
  <2>6. Source(s) \in S
      BY <1>1, <1>3, <2>5
  <2>7. Min(S) <= Source(s)
      BY <2>2, <2>6
  <2> QED
      BY <2>3, <2>4, <2>5, <2>7
<1> QED
    BY <1>3, <1>4 DEF S

LEMMA ConfigureStep ==
  ASSUME BringupInv, Configure
  PROVE  BringupInv'
<1> DEFINE s == pc.slave
           x == list[s]
           k == Seen(list[s].adr)
<1>0. /\ Shape /\ AddressInv /\ OwnInv /\ WordInv /\ BlankInv /\ SettingsInv /\ PulseInv
      /\ pc.at = "configure" /\ pc.at \in Later /\ scene \in Scenes
    BY DEF BringupInv, Configure, Step, Shape, Later, Walks
<1>1. s \in Slaves /\ s \in Nat /\ Slaves = 1 .. Count /\ Count \in Nat
    BY <1>0, SceneIs DEF Shape, Walks
<1>2. DOMAIN list = 0 .. Count /\ \A t \in Slaves : DOMAIN list[t] = SlaveFields
    BY <1>0 DEF Shape
<1>3. \A t \in Slaves : list[t].ident = [q \in 1 .. 3 |-> list[t].ident[q]]
    BY <1>0 DEF Shape
<1>4. PICK l, data :
        /\ data \in IF "sii" \in l \/ Shut(list[s].adr) THEN Garbage ELSE {k.sii}
        /\ list' = [list EXCEPT ![s] = ScanOf(x, s, k, l, data)]
        /\ dev' = [t \in Slaves |->
                     IF t \in At(Before(x, s, k, l, data).adr) THEN Asked(Programmed(dev[t], list'[s], l), Kind(t), l)
                       ELSE dev[t]]
        /\ Lose(l, s)
    BY DEF Configure, ScanOf, Before
<1> DEFINE v == ScanOf(x, s, k, l, data)
<1>5. scene' = scene /\ lost' \in Seq(Nat) /\ Missed \subseteq Missed' /\ (l # {} => s \in Missed')
    BY <1>0, <1>1, <1>4, LoseIs DEF Configure, Shape
<1>6. DOMAIN x = SlaveFields /\ Blank(x)
    BY <1>0, <1>1, <1>2 DEF BlankInv, Blank
<1>7. /\ DOMAIN v = SlaveFields /\ Basics(v) = Basics(x)
      /\ Links(v) = ScanLinks(x, s, l) /\ Settings(v) = ScanSettings(x, s, data)
  <2> HIDE DEF x, s, k
  <2> QED
      BY <1>6, ScanOfIs
<1>8. list' = [list EXCEPT ![s] = v]
    BY <1>4
<1> HIDE DEF v
<1>9. list'[s] = v /\ DOMAIN list' = 0 .. Count /\ \A t \in Slaves : t # s => list'[t] = list[t]
    BY <1>1, <1>2, <1>8
<1>10. \A t \in Slaves : Basics(list'[t]) = Basics(list[t]) /\ DOMAIN list'[t] = SlaveFields
    BY <1>2, <1>7, <1>9
<1>11. \A t \in Slaves : /\ list'[t].adr = list[t].adr /\ list'[t].alias = list[t].alias
                         /\ list'[t].ident = list[t].ident /\ list'[t].wo = list[t].wo /\ list'[t].l = list[t].l
    BY <1>10 DEF Basics
<1>12. DOMAIN dev = Slaves /\ \A t \in Slaves : DOMAIN dev[t] = DeviceFields
    BY <1>0 DEF Shape
<1>13. /\ DOMAIN dev' = Slaves
       /\ \A t \in Slaves : /\ DOMAIN dev'[t] = DeviceFields /\ dev'[t].adr = dev[t].adr /\ dev'[t].pulse = dev[t].pulse
                            /\ t \notin At(list[s].adr) => dev'[t] = dev[t]
  <2> DEFINE u == Before(x, s, k, l, data)
  <2>1. u.adr = list[s].adr
    <3> HIDE DEF x, s, k
    <3>1. Basics(u) = Basics(x)
        BY <1>6, ScanOfIs
    <3> QED
        BY <3>1 DEF Basics, x
  <2> HIDE DEF u
  <2>2. dev' = [t \in Slaves |->
                  IF t \in At(list[s].adr) THEN Asked(Programmed(dev[t], list'[s], l), Kind(t), l) ELSE dev[t]]
      BY <1>4, <2>1 DEF u
  <2>3. DOMAIN dev' = Slaves
      BY <2>2
  <2>4. ASSUME NEW t \in Slaves
        PROVE  /\ DOMAIN dev'[t] = DeviceFields /\ dev'[t].adr = dev[t].adr /\ dev'[t].pulse = dev[t].pulse
               /\ t \notin At(list[s].adr) => dev'[t] = dev[t]
    <3>1. CASE t \in At(list[s].adr)
      <4>1. dev'[t] = Asked(Programmed(dev[t], list'[s], l), Kind(t), l)
          BY <2>2, <3>1
      <4> QED
          BY <1>12, <3>1, <4>1, AskedKeeps
    <3>2. CASE t \notin At(list[s].adr)
      <4>1. dev'[t] = dev[t]
          BY <2>2, <3>2
      <4> QED
          BY <1>12, <4>1
    <3> QED
        BY <3>1, <3>2
  <2> QED
      BY <2>3, <2>4
<1>14. Quiet
    BY <1>5, <1>9, <1>10, <1>11, <1>13 DEF Quiet
<1>15. \/ s < Count /\ pc' = [at |-> "configure", slave |-> s + 1, word |-> pc.word]
       \/ ~(s < Count) /\ pc' = [at |-> "map", slave |-> 1, word |-> 0]
    BY <1>0 DEF Configure, NextSlave, Goto
<1>16. pc'.at \in {"configure", "map"} /\ pc'.at \in Later /\ pc'.slave \in Slaves
    BY <1>1, <1>15 DEF Later, Walks
<1>17. Shape'
  <2>1. \A t \in Slaves : list'[t].ident = [q \in 1 .. 3 |-> list'[t].ident[q]]
      BY <1>3, <1>11
  <2> QED
      BY <1>0, <1>14, <1>16, <2>1, ScanShape
<1>18. AddressInv'
    BY <1>0, <1>14, <1>16, AddressStays
<1>19. /\ Slaves' = Slaves /\ \A t \in Slaves : Sound(t)' => Sound(t)
       /\ \A t \in Slaves : Kind(t)' = Kind(t)
    BY <1>14, SoundBefore
<1>20. ASSUME NEW t \in Slaves PROVE Scanned(t)' <=> t <= s
  <2>1. CASE s < Count /\ pc' = [at |-> "configure", slave |-> s + 1, word |-> pc.word]
      BY <1>1, <2>1 DEF Scanned, Configured
  <2>2. CASE ~(s < Count) /\ pc' = [at |-> "map", slave |-> 1, word |-> 0]
      BY <1>1, <2>2 DEF Scanned, Configured
  <2> QED
      BY <1>15, <2>1, <2>2
<1>21. \A t \in Slaves : Scanned(t) <=> t < s
    BY <1>0 DEF Scanned, Configured
<1>22. OwnInv'
  <2>1. ASSUME pc'.at = "configure", NEW t \in Slaves, t >= pc'.slave, Sound(t)' PROVE dev'[t].pdi = FALSE
    <3>1. t > s
        BY <1>1, <1>15, <2>1
    <3>2. Sound(t)
        BY <1>19, <2>1
    <3>3. dev[t].pdi = FALSE
        BY <1>0, <1>1, <3>1, <3>2 DEF OwnInv
    <3>4. t \notin At(list[s].adr)
      <4>1. t \notin Missed /\ At(t) = {t}
          BY <1>0, <3>2, SoundIs
      <4>2. t # s
          BY <1>1, <3>1
      <4> QED
          BY <1>0, <1>1, <4>1, <4>2, SoundAlone
    <3> QED
        BY <1>13, <3>3, <3>4
  <2> QED
      BY <1>16, <1>19, <2>1 DEF OwnInv
<1>23. WordInv'
  <2>1. ASSUME NEW t \in Slaves, Sound(t)'
        PROVE  /\ \A q \in 1 .. 3 : list'[t].ident[q] = Kind(t)'.ident[q]
               /\ list'[t].wo = Kind(t)'.mbx.wo /\ list'[t].l = Kind(t)'.mbx.l
    <3>1. Sound(t) /\ Kind(t)' = Kind(t)
        BY <1>19, <2>1
    <3>2. /\ \A q \in 1 .. 3 : list[t].ident[q] = Kind(t).ident[q]
          /\ list[t].wo = Kind(t).mbx.wo /\ list[t].l = Kind(t).mbx.l
        BY <1>0, <3>1 DEF WordInv, HasWord
    <3> QED
        BY <1>11, <3>1, <3>2
  <2> QED
      BY <1>19, <2>1 DEF WordInv
<1>24. BlankInv'
  <2>1. ASSUME NEW t \in Slaves, pc'.at = "configure", t >= pc'.slave PROVE list'[t].ca = FALSE /\ list'[t].block = FALSE
    <3>1. t > s
        BY <1>1, <1>15, <2>1
    <3>2. t # s /\ t >= s
        BY <1>1, <3>1
    <3> QED
        BY <1>0, <1>9, <3>2 DEF BlankInv
  <2> QED
      BY <1>16, <1>19, <2>1 DEF BlankInv
<1>25. PulseInv'
    BY <1>0, <1>13, <1>19, NoPulseYet
<1>26. \A t \in Slaves : Sound(t) => list[t].ident = Kind(t).ident
  <2> SUFFICES ASSUME NEW t \in Slaves, Sound(t) PROVE list[t].ident = Kind(t).ident
      OBVIOUS
  <2>1. \A q \in 1 .. 3 : list[t].ident[q] = Kind(t).ident[q]
      BY <1>0 DEF WordInv, HasWord
  <2>2. Kind(t).ident = [q \in 1 .. 3 |-> Kind(t).ident[q]]
      BY <1>0, SceneIs
  <2>3. list[t].ident = [q \in 1 .. 3 |-> list[t].ident[q]]
      BY <1>3
  <2> QED
      BY <2>1, <2>2, <2>3
<1>27. ASSUME Sound(s)
       PROVE  Answer(x.adr) = s /\ k = Kind(s) /\ ~Shut(x.adr) /\ s > 0
  <2>1. At(x.adr) = {s} /\ dev[s].pdi = FALSE
      BY <1>0, <1>1, <1>27 DEF Sound, OwnInv
  <2>2. Answer(x.adr) = s /\ Seen(x.adr) = Kind(s) /\ (dev[s].pdi = FALSE => ~Shut(x.adr))
    <3> HIDE DEF s, x
    <3> QED
        BY <1>0, <1>1, <2>1, OneAnswers
  <2>3. k = Seen(x.adr)
      OBVIOUS
  <2> HIDE DEF s, x, k
  <2> QED
      BY <1>1, <2>1, <2>2, <2>3
<1>28. ASSUME NEW t \in Slaves PROVE Source(t)' = Source(t)
  <2>1. 1 .. t \subseteq Slaves
      BY <1>1
  <2>2. \A u \in 1 .. t : list'[u].ident = list[u].ident
      BY <1>11, <2>1
  <2>3. list'[t].ident = list[t].ident
      BY <1>11
  <2> QED
      BY <2>2, <2>3 DEF Source
<1>29. SettingsInv'
  <2> SUFFICES ASSUME NEW t \in Slaves, t <= s, Sound(t)'
               PROVE  /\ list'[t].hasdc = (t \in scene'.dc)
                      /\ list'[t].active = ActivePorts(scene'.tree, t)
                      /\ (\A u \in 1 .. t : Sound(u)') => list'[t].parent = scene'.tree.parent[t]
                      /\ Sound(Source(t))' => Settings(list'[t]) = Settings(FromSections(NoSlave, Kind(t)'.sii))
      BY <1>19, <1>20 DEF SettingsInv
  <2>1. Sound(t) /\ Kind(t)' = Kind(t) /\ scene' = scene
      BY <1>5, <1>19
  <2>2. Source(t) \in Slaves /\ Source(t)' = Source(t) /\ Source(t) \in 1 .. t
      BY <1>0, <1>28, SourceIs
  <2>3. Sound(Source(t))' => Sound(Source(t))
      BY <1>19, <2>2
  <2>4. \A u \in 1 .. t : u \in Slaves
      BY <1>1
  <2>5. CASE t # s
    <3>1. Scanned(t) /\ list'[t] = list[t]
        BY <1>1, <1>9, <1>21, <2>5
    <3>2. /\ list[t].hasdc = (t \in scene.dc) /\ list[t].active = ActivePorts(scene.tree, t)
          /\ (\A u \in 1 .. t : Sound(u)) => list[t].parent = scene.tree.parent[t]
          /\ Sound(Source(t)) => Settings(list[t]) = Settings(FromSections(NoSlave, Kind(t).sii))
        BY <1>0, <2>1, <3>1 DEF SettingsInv
    <3>3. (\A u \in 1 .. t : Sound(u)') => (\A u \in 1 .. t : Sound(u))
        BY <1>19, <2>4
    <3> QED
        BY <2>1, <2>3, <3>1, <3>2, <3>3
  <2>6. CASE t = s
    <3>1. Sound(s) /\ list'[t] = v /\ Kind(t) = Kind(s)
        BY <1>9, <2>1, <2>6
    <3>2. Answer(x.adr) = s /\ k = Kind(s) /\ ~Shut(x.adr) /\ s > 0
        BY <1>27, <3>1
    <3>3. l = {}
      <4>1. t \notin Missed'
          BY DEF Sound
      <4> QED
          BY <1>5, <2>6, <4>1
    <3>4. data = Kind(s).sii
        BY <1>4, <3>2, <3>3
    <3>5. Links(v) = <<s \in scene.dc, ActivePorts(scene.tree, s), IF s = 1 THEN 0 ELSE FindParent(list, s)>>
      <4>1. Links(v) = <<s > 0 /\ s \in scene.dc /\ "clock" \notin l,
                         IF s = 0 \/ "links" \in l THEN {} ELSE ActivePorts(scene.tree, s),
                         IF s = 1 THEN 0 ELSE FindParent(list, s)>>
          BY <1>7, <3>2 DEF ScanLinks
      <4>2. (s > 0 /\ s \in scene.dc /\ "clock" \notin l) = (s \in scene.dc)
          BY <3>2, <3>3
      <4>3. (IF s = 0 \/ "links" \in l THEN {} ELSE ActivePorts(scene.tree, s)) = ActivePorts(scene.tree, s)
          BY <1>1, <3>2, <3>3
      <4> QED
          BY <4>1, <4>2, <4>3
    <3>6. v.hasdc = (s \in scene.dc) /\ v.active = ActivePorts(scene.tree, s)
          /\ v.parent = IF s = 1 THEN 0 ELSE FindParent(list, s)
        BY <3>5 DEF Links
    <3>7. ASSUME \A u \in 1 .. t : Sound(u)' PROVE v.parent = scene.tree.parent[s]
      <4>1. IsTree(scene.tree, Count)
          BY <1>0, SceneIs
      <4>2. CASE s = 1
          BY <1>1, <3>6, <4>1, <4>2 DEF IsTree
      <4>3. CASE s # 1
        <5>1. s \in 2 .. Count
            BY <1>1, <4>3
        <5>2. \A u \in 1 .. s - 1 : list[u].active = ActivePorts(scene.tree, u)
          <6> SUFFICES ASSUME NEW u \in 1 .. s - 1 PROVE list[u].active = ActivePorts(scene.tree, u)
              OBVIOUS
          <6>1. u \in Slaves /\ u \in 1 .. t /\ u < s
              BY <1>1, <2>6
          <6>2. Sound(u) /\ Scanned(u)
              BY <1>19, <1>21, <3>7, <6>1
          <6> QED
              BY <1>0, <6>1, <6>2 DEF SettingsInv
        <5>3. FindParent(list, s) = scene.tree.parent[s]
            BY <1>1, <4>1, <5>1, <5>2, ParentFound
        <5> QED
            BY <3>6, <4>3, <5>3
      <4> QED
          BY <4>2, <4>3
    <3>8. ASSUME Sound(Source(t))' PROVE Settings(v) = Settings(FromSections(NoSlave, Kind(s).sii))
      <4>1. Sound(Source(s)) /\ Source(s) \in Slaves
          BY <2>2, <2>3, <2>6, <3>8
      <4>2. CASE Twins(x, s) = {}
          BY <1>7, <3>4, <4>2 DEF ScanSettings
      <4>3. CASE Twins(x, s) # {}
        <5> DEFINE w == Source(s)
        <5>1. Min(Twins(x, s)) = w /\ w \in 1 .. s - 1
            BY <1>0, <1>1, <4>3, TwinIsSource
        <5>2. Settings(v) = Settings(list[w])
            BY <1>7, <4>3, <5>1 DEF ScanSettings
        <5>3. list[w].ident = list[s].ident /\ \A u \in 1 .. s : list[u].ident = list[s].ident => w <= u
            BY <1>0, <1>1, SourceIs
        <5>4. Kind(w).ident = Kind(s).ident
            BY <1>1, <1>26, <3>1, <4>1, <5>3
        <5>5. Kind(w).sii = Kind(s).sii
            BY <1>0, <1>1, <4>1, <5>4, SceneIs
        <5>6. Scanned(w) /\ w \in Nat /\ w < s
            BY <1>1, <1>21, <4>1, <5>1
        <5>7. Source(w) = w
          <6>1. /\ Source(w) \in 1 .. w /\ list[Source(w)].ident = list[w].ident
              BY <1>0, <4>1, SourceIs
          <6>2. Source(w) \in 1 .. s /\ list[Source(w)].ident = list[s].ident
              BY <1>1, <5>3, <5>6, <6>1
          <6>3. w <= Source(w)
              BY <5>3, <6>2
          <6> HIDE DEF w
          <6> QED
              BY <5>6, <6>1, <6>3
        <5>8. Settings(list[w]) = Settings(FromSections(NoSlave, Kind(w).sii))
            BY <1>0, <4>1, <5>6, <5>7 DEF SettingsInv
        <5> QED
            BY <5>2, <5>5, <5>8
      <4> QED
          BY <4>2, <4>3
    <3> HIDE DEF s, x, k
    <3> QED
        BY <2>1, <2>6, <3>1, <3>6, <3>7, <3>8
  <2> QED
      BY <2>5, <2>6
<1> QED
    BY <1>17, <1>18, <1>22, <1>23, <1>24, <1>25, <1>29 DEF BringupInv

-----------------------------------------------------------------------------
LEMMA BringupStep == BringupInv /\ [Next]_vars => BringupInv'
<1> SUFFICES ASSUME BringupInv, [Next]_vars PROVE BringupInv'
    OBVIOUS
<1>1. CASE Next
    BY <1>1, DetectStep, AddressStep, WordStep, ConfigureStep, CoeSoeStep, SiiStep, LatchStep, ClockStep, PulseStep
       DEF Next, config_init, config_map, configdc
<1>2. CASE UNCHANGED vars
  <2>1. scene' = scene /\ dev' = dev /\ list' = list /\ pc' = pc /\ lost' = lost
      BY <1>2 DEF vars
  <2>2. /\ Slaves' = Slaves /\ Count' = Count /\ Missed' = Missed
        /\ \A a : At(a)' = At(a)
      BY <2>1 DEF Slaves, Count, Missed, At
  <2>3. ASSUME NEW s PROVE /\ Kind(s)' = Kind(s) /\ Shadowed(s)' = Shadowed(s) /\ Sound(s)' = Sound(s)
                           /\ Source(s)' = Source(s) /\ Addressed(s)' = Addressed(s) /\ Scanned(s)' = Scanned(s)
      BY <2>1, <2>2 DEF Kind, Shadowed, Sound, Source, Addressed, Scanned, Configured
  <2>4. Shape' /\ AddressInv' /\ OwnInv'
      BY <2>1, <2>2, <2>3 DEF BringupInv, Shape, AddressInv, OwnInv
  <2>5. WordInv' /\ BlankInv'
      BY <2>1, <2>2, <2>3 DEF BringupInv, WordInv, HasWord, BlankInv
  <2>6. SettingsInv'
      BY <2>1, <2>2, <2>3 DEF BringupInv, SettingsInv
  <2>7. PulseInv'
      BY <2>1, <2>2 DEF BringupInv, PulseInv
  <2> QED
      BY <2>4, <2>5, <2>6, <2>7 DEF BringupInv
<1> QED
    BY <1>1, <1>2

(* Whatever device a slave is taken for is the one in its place: for every *)
(* tree, every set of devices and every pattern of lost datagrams, a slave *)
(* none of whose datagrams was lost, and whose address nobody else kept,   *)
(* has the identity, mailbox, clock, links and settings of its device, and *)
(* the parent if all before it are such slaves.                            *)
THEOREM ScanCorrect == Spec => []ScanIsRight
<1>1. BringupInv => ScanIsRight
  <2> SUFFICES ASSUME BringupInv, Configured, NEW s \in Slaves, Sound(s)
               PROVE  /\ Info(s).ident = Kind(s).ident
                      /\ ~Shadowed(s) => Info(s).alias = Kind(s).alias
                      /\ Info(s).configadr = s
                      /\ <<list[s].wo, list[s].l>> = <<Kind(s).mbx.wo, Kind(s).mbx.l>>
                      /\ Status(s).hasdc = (s \in scene.dc)
                      /\ Status(s).activeports = ActivePorts(scene.tree, s)
                      /\ (\A t \in 1 .. s : Sound(t)) => list[s].parent = scene.tree.parent[s]
                      /\ Sound(Source(s)) =>
                           LET own == FromSections(NoSlave, Kind(s).sii)
                           IN  <<Status(s).coe, Status(s).blocklrw, Info(s).name, list[s].uses>>
                               = <<own.ca, own.block, own.name, own.uses>>
      BY DEF ScanIsRight
  <2>1. Shape /\ AddressInv /\ WordInv /\ SettingsInv /\ scene \in Scenes
      BY DEF BringupInv, Shape
  <2>2. pc.at \in Later /\ pc.at # "word" /\ pc.at # "failed" /\ Scanned(s)
      BY DEF Configured, Later, Walks, Scanned
  <2>3. Known(s)
      BY <2>1, <2>2, SceneIs DEF Known, slavecount, Step
  <2>4. /\ Info(s).ident = list[s].ident /\ Info(s).alias = list[s].alias /\ Info(s).configadr = list[s].adr
        /\ Info(s).name = list[s].name
      BY <2>3 DEF Info, soem_get_slave_info
  <2>5. /\ Status(s).hasdc = list[s].hasdc /\ Status(s).activeports = list[s].active
        /\ Status(s).coe = list[s].ca /\ Status(s).blocklrw = list[s].block
      BY <2>3 DEF Status, soem_get_slave_status
  <2>6. s \notin Missed /\ list[s].adr = s
      BY <2>1, <2>2, SoundIs
  <2>7. ~Shadowed(s) => list[s].alias = Kind(s).alias
      BY <2>1, <2>2, <2>6 DEF AddressInv, Addressed
  <2>8. /\ \A q \in 1 .. 3 : list[s].ident[q] = Kind(s).ident[q]
        /\ list[s].wo = Kind(s).mbx.wo /\ list[s].l = Kind(s).mbx.l
      BY <2>1, <2>2 DEF WordInv, HasWord
  <2>9. list[s].ident = Kind(s).ident
    <3>1. list[s].ident = [q \in 1 .. 3 |-> list[s].ident[q]]
        BY <2>1, <2>2 DEF Shape, Later, Walks
    <3>2. Kind(s).ident = [q \in 1 .. 3 |-> Kind(s).ident[q]]
        BY <2>1, SceneIs
    <3> QED
        BY <2>8, <3>1, <3>2
  <2>10. /\ list[s].hasdc = (s \in scene.dc) /\ list[s].active = ActivePorts(scene.tree, s)
         /\ (\A t \in 1 .. s : Sound(t)) => list[s].parent = scene.tree.parent[s]
         /\ Sound(Source(s)) => Settings(list[s]) = Settings(FromSections(NoSlave, Kind(s).sii))
      BY <2>1, <2>2 DEF SettingsInv
  <2> DEFINE own == FromSections(NoSlave, Kind(s).sii)
  <2> HIDE DEF own
  <2>11. Sound(Source(s)) =>
           <<Status(s).coe, Status(s).blocklrw, Info(s).name, list[s].uses>> = <<own.ca, own.block, own.name, own.uses>>
      BY <2>4, <2>5, <2>10 DEF Settings, own
  <2> QED
      BY <2>4, <2>5, <2>6, <2>7, <2>8, <2>9, <2>10, <2>11 DEF own
<1> QED
    BY <1>1, InitHolds, BringupStep, PTL DEF Spec

(* The pulses of all slaves keep the same phase, and a slave that lost no  *)
(* datagram and has its address to itself has the head start it was given. *)
THEOREM PulsesCorrect == Spec => []PulsesInPhase
<1>1. BringupInv => PulsesInPhase
  <2> SUFFICES ASSUME BringupInv, NEW s \in Slaves, NEW t \in Slaves, dev[s].pulse.set, dev[t].pulse.set
               PROVE  /\ Cycle(scene.sync) > 0 => (dev[s].pulse.at - dev[t].pulse.at) % Cycle(scene.sync) = 0
                      /\ s \notin Missed /\ At(s) = {s} => dev[s].pulse.at >= dev[s].pulse.now + SyncDelay + scene.sync.shift
      BY DEF PulsesInPhase
  <2>1. PulseInv /\ scene \in Scenes
      BY DEF BringupInv, Shape
  <2>2. s \notin Missed /\ At(s) = {s} => dev[s].pulse.at >= dev[s].pulse.now + SyncDelay + scene.sync.shift
      BY <2>1 DEF PulseInv
  <2>3. ASSUME Cycle(scene.sync) > 0 PROVE (dev[s].pulse.at - dev[t].pulse.at) % Cycle(scene.sync) = 0
    <3> DEFINE c == Cycle(scene.sync)
               d == scene.sync.shift
    <3>1. c \in Nat /\ c > 0 /\ d \in Int
        BY <2>1, <2>3, CycleIs
    <3>2. PICK j \in Int : dev[s].pulse.at = j * c + d
        BY <2>1, <2>3 DEF PulseInv
    <3>3. PICK k \in Int : dev[t].pulse.at = k * c + d
        BY <2>1, <2>3 DEF PulseInv
    <3> HIDE DEF c, d
    <3>4. dev[s].pulse.at - dev[t].pulse.at = (j - k) * c
        BY <3>1, <3>2, <3>3
    <3>5. j - k \in Int
        OBVIOUS
    <3>6. ((j - k) * c) % c = 0
        BY <3>1, <3>5, WholeCycles
    <3> QED
        BY <3>4, <3>6 DEF c
  <2> QED
      BY <2>2, <2>3
<1> QED
    BY <1>1, InitHolds, BringupStep, PTL DEF Spec
=============================================================================
