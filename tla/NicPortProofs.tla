---------------------------- MODULE NicPortProofs ----------------------------
(***************************************************************************)
(* The port keeps indexes and answers apart for any number of threads and  *)
(* buffers, whatever the ring loses, as long as no send fails and the      *)
(* stray frames have not used the spare indexes up.  In redundant mode a   *)
(* line of any length, cut anywhere, answers like the whole one.           *)
(***************************************************************************)
EXTENDS NicPort, RedundantPort, FiniteSetTheorems, WellFoundedInduction, TLAPS

-----------------------------------------------------------------------------
(* Types. *)
Tags == Threads \X Nat \X Nat
Frames == [idx : Indexes, tag : Tags \cup {Null}]
Requests == [idx : Indexes, tag : Tags]
Points == {"idle", "out", "poll", "again", "locked", "store", "done"}

PortType ==
  /\ lastidx \in Indexes
  /\ stat \in [Indexes -> {"empty", "alloc", "tx", "rcvd", "complete"}]
  /\ txbuf \in [Indexes -> Tags \cup {Null}] /\ DOMAIN rxbuf = Indexes
  /\ wire \in Seq(Frames) /\ strays \in Nat
ThreadType ==
  /\ pc \in [Threads -> Points] /\ own \in [Threads -> Seq(Requests)]
  /\ round \in [Threads -> Nat] /\ DOMAIN hand = Threads /\ DOMAIN answer = Threads

(* A thread has no more requests under way than it may: one, or the frames *)
(* of a cycle; and it waits for an answer only when it has one.            *)
Cap(t) == IF t \in Cyclic THEN Burst ELSE 1
PcInv ==
  \A t \in Threads :
    /\ IF pc[t] = "idle" THEN Len(own[t]) < Cap(t) ELSE Len(own[t]) \in 1 .. Cap(t)
    /\ answer[t] = "frame" => pc[t] = "done"
    /\ pc[t] = "store" => hand[t] \in Frames

(* What the buffers, the ring and the threads hold for an index that is in *)
(* use belongs to the request that uses it.                                *)
UseInv ==
  \A t \in Threads : \A n \in DOMAIN own[t] :
    LET i == own[t][n].idx IN
    /\ stat[i] # "empty" /\ txbuf[i] = own[t][n].tag
    /\ stat[i] = "rcvd" => rxbuf[i] = own[t][n].tag
WireInv ==
  \A k \in DOMAIN wire, t \in Threads : \A n \in DOMAIN own[t] :
    wire[k].idx = own[t][n].idx => wire[k].tag = own[t][n].tag
HandInv ==
  \A u, t \in Threads : \A n \in DOMAIN own[t] :
    pc[u] = "store" /\ hand[u].idx = own[t][n].idx => hand[u].tag = own[t][n].tag

(* Every index that is in use for nobody was lost to a stray frame. *)
InUse(i) == \E t \in Threads : i \in Owned(t)
Leaked == {i \in Indexes : stat[i] # "empty" /\ ~InUse(i)}
LeakInv == Cardinality(Leaked) <= strays

Sound == failed = {} /\ strays <= Spare
Apart == OneOwner /\ OwnAnswer /\ UseInv /\ WireInv /\ HandInv /\ LeakInv
PortInv == PortType /\ ThreadType /\ PcInv /\ (Sound => Apart)

-----------------------------------------------------------------------------
(* The least element of a set of naturals. *)
LEMMA LeastExists ==
  ASSUME NEW S \in SUBSET Nat, S # {}
  PROVE  \E x \in S : \A y \in S : x <= y
<1>1. PICK x \in S : \A y \in S : ~(<<y, x>> \in OpToRel(<, Nat))
    BY NatLessThanWellFounded, WFMin
<1>2. \A y \in S : ~(y < x)
    BY <1>1 DEF OpToRel
<1> QED
    BY <1>2

(* What is left of the ring when a frame is taken out of it. *)
LEMMA RemoveKeeps ==
  ASSUME NEW S, NEW s \in Seq(S), NEW n \in DOMAIN s
  PROVE  /\ RemoveAt(s, n) \in Seq(S)
         /\ \A k \in DOMAIN RemoveAt(s, n) : \E m \in DOMAIN s : RemoveAt(s, n)[k] = s[m]
<1> DEFINE a == SubSeq(s, 1, n - 1)
           b == SubSeq(s, n + 1, Len(s))
<1>1. n \in 1 .. Len(s) /\ Len(s) \in Nat
    OBVIOUS
<1>2. a \in Seq(S) /\ Len(a) = n - 1 /\ \A k \in 1 .. n - 1 : a[k] = s[k]
    BY <1>1
<1>3. b \in Seq(S) /\ Len(b) = Len(s) - n /\ \A k \in 1 .. Len(s) - n : b[k] = s[k + n]
    BY <1>1
<1>4. RemoveAt(s, n) = a \o b
    BY DEF RemoveAt
<1> HIDE DEF a, b
<1>5. a \o b \in Seq(S) /\ Len(a \o b) = Len(s) - 1
    BY <1>1, <1>2, <1>3
<1>6. ASSUME NEW k \in 1 .. Len(s) - 1 PROVE \E m \in DOMAIN s : (a \o b)[k] = s[m]
  <2>1. CASE k < n
      BY <1>1, <1>2, <1>3, <2>1
  <2>2. CASE k >= n
    <3>1. (a \o b)[k] = b[k - (n - 1)] /\ k - (n - 1) \in 1 .. Len(s) - n
        BY <1>1, <1>2, <1>3, <2>2
    <3>2. b[k - (n - 1)] = s[k - (n - 1) + n] /\ k - (n - 1) + n \in 1 .. Len(s)
        BY <1>1, <1>3, <2>2, <3>1
    <3> QED
        BY <3>1, <3>2
  <2>3. k < n \/ k >= n
      BY <1>1
  <2> QED
      BY <2>1, <2>2, <2>3
<1>7. DOMAIN (a \o b) = 1 .. Len(s) - 1
    BY <1>5
<1> QED
    BY <1>4, <1>5, <1>6, <1>7

LEMMA CapIs == \A t \in Threads : Cap(t) \in Nat /\ Cap(t) >= 1
BY PortAssumption DEF Cap

(* The scan of ecx_getindex finds a free index when there is one. *)
LEMMA NextIndexIs ==
  ASSUME PortType
  PROVE  /\ NextIndex \in Indexes
         /\ (\E i \in Indexes : stat[i] = "empty") => stat[NextIndex] = "empty"
<1>0. MaxBuf \in Nat /\ MaxBuf # 0 /\ lastidx \in Indexes /\ Indexes = 0 .. MaxBuf - 1
    BY PortAssumption DEF PortType, Indexes
<1> DEFINE nth(k) == (lastidx + k) % MaxBuf
           free == {k \in 1 .. MaxBuf : stat[nth(k)] = "empty"}
           first == CHOOSE k \in free : \A j \in free : k <= j
<1>1. \A k \in 1 .. MaxBuf : nth(k) \in Indexes
    BY <1>0
<1>2. NextIndex = IF free = {} THEN nth(1) ELSE nth(first)
    BY DEF NextIndex
<1>3. CASE free = {}
  <2>1. ASSUME NEW i \in Indexes, stat[i] = "empty" PROVE FALSE
    <3>1. \E k \in 1 .. MaxBuf : nth(k) = i
      <4>1. CASE i > lastidx
        <5>1. i - lastidx \in 1 .. MaxBuf /\ (lastidx + (i - lastidx)) % MaxBuf = i
            BY <1>0, <4>1
        <5> QED
            BY <5>1
      <4>2. CASE i <= lastidx
        <5>1. i - lastidx + MaxBuf \in 1 .. MaxBuf
              /\ (lastidx + (i - lastidx + MaxBuf)) % MaxBuf = i
            BY <1>0, <4>2
        <5> QED
            BY <5>1
      <4> QED
          BY <1>0, <4>1, <4>2
    <3>2. PICK k \in 1 .. MaxBuf : nth(k) = i
        BY <3>1
    <3> HIDE DEF nth
    <3>3. k \in free
        BY <2>1, <3>2
    <3> QED
        BY <1>3, <3>3
  <2>2. 1 \in 1 .. MaxBuf
      BY <1>0
  <2> QED
      BY <1>1, <1>2, <1>3, <2>1, <2>2
<1>4. CASE free # {}
  <2>0. free \in SUBSET Nat
      BY <1>0
  <2>1. \E k \in free : \A j \in free : k <= j
    <3> HIDE DEF free
    <3> QED
        BY <1>4, <2>0, LeastExists
  <2>2. first \in free
    <3> HIDE DEF free
    <3> QED
        BY <2>1
  <2> HIDE DEF first
  <2> QED
      BY <1>1, <1>2, <1>4, <2>2
<1> QED
    BY <1>3, <1>4

(* Pigeonholes: a thread that may begin a request finds a free index, for  *)
(* all the requests under way and all the indexes leaked leave one.        *)
Room == (Blocking \X {1}) \cup (Cyclic \X (1 .. Burst))
LEMMA RoomIs ==
  /\ IsFiniteSet(Room) /\ Cardinality(Room) \in Nat
  /\ Cardinality(Room) <= Cardinality(Blocking) + Burst * Cardinality(Cyclic)
  /\ Cardinality(Blocking) \in Nat /\ Cardinality(Cyclic) \in Nat
<1> DEFINE A == Blocking \X {1}
           B == Cyclic \X (1 .. Burst)
<1>0. IsFiniteSet(Blocking) /\ IsFiniteSet(Cyclic) /\ Burst \in Nat /\ Burst # 0
    BY PortAssumption
<1>1. Cardinality(Blocking) \in Nat /\ Cardinality(Cyclic) \in Nat
    BY <1>0, FS_CardinalityType
<1>2. IsFiniteSet({1}) /\ Cardinality({1}) = 1
    BY FS_Singleton
<1>3. IsFiniteSet(1 .. Burst) /\ Cardinality(1 .. Burst) = Burst
    BY <1>0, FS_Interval
<1>4. IsFiniteSet(A) /\ Cardinality(A) = Cardinality(Blocking) * 1
    BY <1>0, <1>2, FS_Product
<1>5. IsFiniteSet(B) /\ Cardinality(B) = Cardinality(Cyclic) * Burst
    BY <1>0, <1>3, FS_Product
<1> HIDE DEF A, B
<1>6. IsFiniteSet(A \cup B) /\ Cardinality(A \cup B) = Cardinality(A) + Cardinality(B) - Cardinality(A \cap B)
    BY <1>4, <1>5, FS_Union
<1>7. Cardinality(A \cap B) \in Nat /\ Cardinality(A \cup B) \in Nat
    BY <1>4, <1>6, FS_Intersection, FS_CardinalityType
<1>8. Cardinality(Cyclic) * Burst = Burst * Cardinality(Cyclic) /\ Burst * Cardinality(Cyclic) \in Nat
    BY <1>0, <1>1
<1>9. Room = A \cup B
    BY DEF Room, A, B
<1>10. Cardinality(Room) <= Cardinality(Blocking) + Burst * Cardinality(Cyclic)
    BY <1>1, <1>4, <1>5, <1>6, <1>7, <1>8, <1>9
<1> QED
    BY <1>1, <1>6, <1>7, <1>9, <1>10

LEMMA IndexIsFree ==
  ASSUME PortInv, Sound, NEW t \in Threads, pc[t] = "idle"
  PROVE  \E i \in Indexes : stat[i] = "empty"
<1> SUFFICES ASSUME \A i \in Indexes : stat[i] # "empty" PROVE FALSE
    OBVIOUS
<1> DEFINE used == {i \in Indexes : InUse(i)}
           next == <<t, Len(own[t]) + 1>>
           R == Room \ {next}
           Holds(p, i) == p[2] \in DOMAIN own[p[1]] /\ own[p[1]][p[2]].idx = i
           f == [i \in used |-> CHOOSE p \in R : Holds(p, i)]
<1>0. /\ MaxBuf \in Nat /\ strays \in Nat /\ Indexes = 0 .. MaxBuf - 1 /\ MaxBuf # 0
      /\ own \in [Threads -> Seq(Requests)] /\ PcInv /\ OneOwner /\ LeakInv /\ strays <= Spare
    BY PortAssumption DEF PortInv, PortType, ThreadType, Sound, Apart, Indexes
<1>1. \A u \in Threads : Len(own[u]) \in Nat /\ DOMAIN own[u] = 1 .. Len(own[u]) /\ Len(own[u]) <= Cap(u)
    BY <1>0, CapIs DEF PcInv
<1>2. \A u \in Threads : \A n \in 1 .. Cap(u) : <<u, n>> \in Room
    BY PortAssumption DEF Cap, Room, Threads
<1>3. next \in Room
  <2>1. Len(own[t]) < Cap(t)
      BY <1>0 DEF PcInv
  <2>2. Len(own[t]) + 1 \in 1 .. Cap(t)
      BY <1>1, <2>1, CapIs
  <2> QED
      BY <1>2, <2>2
<1>4. ASSUME NEW i \in used PROVE \E p \in R : Holds(p, i)
  <2>0. PICK u \in Threads : \E n \in DOMAIN own[u] : own[u][n].idx = i
      BY <1>4 DEF InUse, Owned
  <2>1. PICK n \in DOMAIN own[u] : own[u][n].idx = i
      BY <2>0
  <2>2. n \in 1 .. Cap(u) /\ n # Len(own[u]) + 1
      BY <1>1, <2>1, CapIs
  <2>3. <<u, n>> \in R
      BY <1>2, <2>2
  <2> QED
      BY <2>1, <2>3
<1>5. \A i \in used : f[i] \in R /\ Holds(f[i], i)
    BY <1>4
<1>6. f \in Injection(used, R)
  <2>1. f \in [used -> R]
      BY <1>5
  <2>2. \A i, j \in used : f[i] = f[j] => i = j
      BY <1>5
  <2> QED
      BY <2>1, <2>2 DEF Injection, IsInjective
<1>7. IsFiniteSet(Room) /\ Cardinality(R) = Cardinality(Room) - 1 /\ IsFiniteSet(R)
    BY <1>3, RoomIs, FS_RemoveElement
<1>8. Cardinality(used) <= Cardinality(R)
    BY <1>6, <1>7, FS_Injection
<1>9. IsFiniteSet(Indexes) /\ Cardinality(Indexes) = MaxBuf
    BY <1>0, FS_Interval
<1>10. used \in SUBSET Indexes /\ Leaked \in SUBSET Indexes /\ used \cup Leaked = Indexes
    BY DEF Leaked
<1>11. IsFiniteSet(used) /\ IsFiniteSet(Leaked)
    BY <1>9, <1>10, FS_Subset
<1>12. Cardinality(used \cup Leaked)
         = Cardinality(used) + Cardinality(Leaked) - Cardinality(used \cap Leaked)
    BY <1>11, FS_Union
<1>13. /\ Cardinality(used) \in Nat /\ Cardinality(Leaked) \in Nat
       /\ Cardinality(used \cap Leaked) \in Nat
    BY <1>11, FS_Intersection, FS_CardinalityType
<1>14. Cardinality(Leaked) <= strays
    BY <1>0 DEF LeakInv
<1>15. PICK c \in Nat : c = Burst * Cardinality(Cyclic)
    BY RoomIs, PortAssumption
<1>16. Cardinality(Room) <= Cardinality(Blocking) + c /\ Cardinality(Room) \in Nat
       /\ Cardinality(Blocking) \in Nat /\ strays <= MaxBuf - (Cardinality(Blocking) + c)
    BY <1>0, <1>15, RoomIs DEF Spare
<1> HIDE DEF used, R
<1>17. MaxBuf <= Cardinality(used) + Cardinality(Leaked)
  <2>1. MaxBuf = Cardinality(used) + Cardinality(Leaked) - Cardinality(used \cap Leaked)
      BY <1>9, <1>10, <1>12
  <2> QED
      BY <1>13, <2>1
<1>18. Cardinality(used) <= Cardinality(Room) - 1
    BY <1>7, <1>8
<1>19. \A r, u, l, b \in Nat : /\ MaxBuf <= u + l /\ u <= r - 1 /\ l <= strays
                              /\ r <= b + c /\ strays <= MaxBuf - (b + c) => FALSE
    BY <1>0
<1> QED
    BY <1>13, <1>14, <1>16, <1>17, <1>18, <1>19

-----------------------------------------------------------------------------
(* The requests of a thread, and the first of one that is not idle. *)
LEMMA OwnIs ==
  ASSUME ThreadType, NEW t \in Threads
  PROVE  /\ own[t] \in Seq(Requests) /\ Len(own[t]) \in Nat /\ DOMAIN own[t] = 1 .. Len(own[t])
         /\ \A n \in DOMAIN own[t] :
              own[t][n] \in Requests /\ own[t][n].idx \in Indexes /\ own[t][n].tag \in Tags
         /\ PcInv /\ pc[t] # "idle" => 1 \in DOMAIN own[t] /\ Len(own[t]) <= Cap(t)
<1>1. own[t] \in Seq(Requests) /\ Len(own[t]) \in Nat /\ DOMAIN own[t] = 1 .. Len(own[t])
    BY DEF ThreadType
<1>2. \A n \in DOMAIN own[t] : own[t][n] \in Requests
    BY <1>1
<1>3. \A r \in Requests : r.idx \in Indexes /\ r.tag \in Tags
    BY DEF Requests
<1>4. PcInv /\ pc[t] # "idle" => 1 \in DOMAIN own[t] /\ Len(own[t]) <= Cap(t)
    BY <1>1, CapIs DEF PcInv
<1> QED
    BY <1>1, <1>2, <1>3, <1>4

(***************************************************************************)
(* What steps have in common.                                              *)
(***************************************************************************)

(* No index is leaked, or one to a stray frame. *)
LEMMA LeakStays ==
  ASSUME PortType, LeakInv, strays' \in Nat, NEW i \in Indexes, Leaked' \subseteq Leaked \cup {i},
         strays' > strays \/ (strays' = strays /\ i \notin Leaked')
  PROVE  LeakInv'
<1>0. strays \in Nat /\ IsFiniteSet(Indexes) /\ Leaked \in SUBSET Indexes
    BY FS_Interval, PortAssumption DEF PortType, Indexes, Leaked
<1>1. IsFiniteSet(Leaked) /\ Cardinality(Leaked) \in Nat /\ Cardinality(Leaked) <= strays
    BY <1>0, FS_Subset, FS_CardinalityType DEF LeakInv
<1>2. CASE i \notin Leaked' /\ strays' = strays
  <2>1. Leaked' \in SUBSET Leaked
      BY <1>2
  <2>2. IsFiniteSet(Leaked') /\ Cardinality(Leaked') <= Cardinality(Leaked)
      BY <1>1, <2>1, FS_Subset
  <2>3. Cardinality(Leaked') \in Nat
      BY <2>2, FS_CardinalityType
  <2> QED
      BY <1>0, <1>1, <1>2, <2>2, <2>3 DEF LeakInv
<1>3. CASE strays' > strays
  <2>1. IsFiniteSet(Leaked \cup {i}) /\ Cardinality(Leaked \cup {i}) <= Cardinality(Leaked) + 1
      BY <1>1, FS_AddElement
  <2>2. Cardinality(Leaked \cup {i}) \in Nat
      BY <2>1, FS_CardinalityType
  <2>3. Leaked' \in SUBSET (Leaked \cup {i})
      OBVIOUS
  <2>4. IsFiniteSet(Leaked') /\ Cardinality(Leaked') <= Cardinality(Leaked \cup {i})
      BY <2>1, <2>3, FS_Subset
  <2>5. Cardinality(Leaked') \in Nat
      BY <2>4, FS_CardinalityType
  <2> QED
      BY <1>0, <1>1, <1>3, <2>1, <2>2, <2>4, <2>5 DEF LeakInv
<1> QED
    BY <1>2, <1>3

(* A frame is right when whoever uses its index built it. *)
Right(f) == \A t \in Threads : \A n \in DOMAIN own[t] : f.idx = own[t][n].idx => f.tag = own[t][n].tag

LEMMA FramesAreRight ==
  ASSUME WireInv, HandInv
  PROVE  /\ \A k \in DOMAIN wire : Right(wire[k])
         /\ \A u \in Threads : pc[u] = "store" => Right(hand[u])
BY DEF WireInv, HandInv, Right

LEMMA FramesStay ==
  ASSUME UNCHANGED own, \A k \in DOMAIN wire' : Right(wire'[k]),
         \A u \in Threads : pc'[u] = "store" => Right(hand'[u])
  PROVE  WireInv' /\ HandInv'
BY DEF WireInv, HandInv, Right

(* Requests and buffers stay; frames are lost, read or taken in hand. *)
LEMMA BuffersStay ==
  ASSUME PortType, Apart, UNCHANGED <<own, stat, txbuf, rxbuf, strays>>,
         \A k \in DOMAIN wire' : \E m \in DOMAIN wire : wire'[k] = wire[m],
         \A u \in Threads : pc'[u] = "store" =>
           \/ pc[u] = "store" /\ hand'[u] = hand[u]
           \/ \E m \in DOMAIN wire : hand'[u] = wire[m],
         \A t \in Threads : answer'[t] = "frame" => answer[t] = "frame"
  PROVE  Apart'
<1>1. WireInv' /\ HandInv'
    BY FramesAreRight, FramesStay DEF Apart
<1>2. OneOwner' /\ OwnAnswer' /\ UseInv'
    BY DEF Apart, OneOwner, OwnAnswer, UseInv, First
<1>3. LeakInv'
    BY DEF Apart, LeakInv, Leaked, InUse, Owned
<1> QED
    BY <1>1, <1>2, <1>3 DEF Apart

(* A buffer is marked, and written or not with what belongs there. *)
LEMMA BufferMarked ==
  ASSUME PortType, ThreadType, PcInv, Apart, UNCHANGED <<own, txbuf>>, strays' \in Nat,
         NEW i \in Indexes, NEW v \in {"tx", "rcvd", "complete"}, stat' = [stat EXCEPT ![i] = v],
         \A j \in Indexes : j # i => rxbuf'[j] = rxbuf[j],
         \/ rxbuf'[i] = rxbuf[i] /\ v # "rcvd"
         \/ \A t \in Threads : \A n \in DOMAIN own[t] : own[t][n].idx = i => rxbuf'[i] = own[t][n].tag,
         \A t \in Threads : answer'[t] = "frame" =>
           answer[t] = "frame" \/ (own[t][1].idx = i /\ rxbuf'[i] = own[t][1].tag),
         (strays' = strays /\ InUse(i)) \/ strays' > strays,
         \A k \in DOMAIN wire' : Right(wire'[k]),
         \A u \in Threads : pc'[u] = "store" => Right(hand'[u])
  PROVE  Apart'
<1>0. /\ stat \in [Indexes -> {"empty", "alloc", "tx", "rcvd", "complete"}]
      /\ own \in [Threads -> Seq(Requests)] /\ strays \in Nat
    BY DEF PortType, ThreadType
<1>1. stat'[i] = v /\ v # "empty" /\ \A j \in Indexes : j # i => stat'[j] = stat[j]
    BY <1>0
<1>2. \A t \in Threads : \A n \in DOMAIN own[t] : own[t][n].idx \in Indexes
    BY OwnIs
<1>3. OneOwner'
    BY DEF Apart, OneOwner
<1>4. UseInv'
  <2> SUFFICES ASSUME NEW t \in Threads, NEW n \in DOMAIN own[t]
               PROVE  LET j == own[t][n].idx IN
                      /\ stat'[j] # "empty" /\ txbuf'[j] = own[t][n].tag
                      /\ stat'[j] = "rcvd" => rxbuf'[j] = own[t][n].tag
      BY DEF UseInv
  <2>1. LET j == own[t][n].idx IN
        /\ stat[j] # "empty" /\ txbuf[j] = own[t][n].tag
        /\ stat[j] = "rcvd" => rxbuf[j] = own[t][n].tag
      BY DEF Apart, UseInv
  <2>2. CASE own[t][n].idx = i
      BY <1>1, <2>1, <2>2
  <2>3. CASE own[t][n].idx # i
      BY <1>1, <1>2, <2>1, <2>3
  <2> QED
      BY <2>2, <2>3
<1>5. OwnAnswer'
  <2> SUFFICES ASSUME NEW t \in Threads, answer'[t] = "frame"
               PROVE  rxbuf'[own[t][1].idx] = own[t][1].tag
      BY DEF OwnAnswer, First
  <2>1. CASE answer[t] = "frame"
    <3>1. 1 \in DOMAIN own[t]
      <4>1. Len(own[t]) \in 1 .. Cap(t) /\ Len(own[t]) \in Nat
          BY <1>0, <2>1, CapIs DEF PcInv
      <4> QED
          BY <1>0, <4>1, CapIs
    <3>2. rxbuf[own[t][1].idx] = own[t][1].tag
        BY <2>1 DEF Apart, OwnAnswer, First
    <3> QED
        BY <1>2, <3>1, <3>2
  <2>2. CASE own[t][1].idx = i /\ rxbuf'[i] = own[t][1].tag
      BY <2>2
  <2> QED
      BY <2>1, <2>2
<1>6. LeakInv'
  <2>1. \A j : InUse(j)' <=> InUse(j)
      BY DEF InUse, Owned
  <2>2. Leaked' \subseteq Leaked \cup {i}
      BY <1>1, <2>1 DEF Leaked
  <2>3. InUse(i) => i \notin Leaked'
      BY <2>1 DEF Leaked
  <2> QED
      BY <2>2, <2>3, LeakStays DEF Apart
<1>7. WireInv' /\ HandInv'
    BY FramesStay
<1> QED
    BY <1>3, <1>4, <1>5, <1>6, <1>7 DEF Apart

-----------------------------------------------------------------------------
(***************************************************************************)
(* The steps of the specification.                                         *)
(***************************************************************************)

(* A request begins: its index was free, and nothing of it is under way. *)
LEMMA GetIndexStep ==
  ASSUME PortInv, NEW t \in Threads, GetIndex(t)
  PROVE  PortInv'
<1>0. /\ PortType /\ ThreadType /\ PcInv /\ pc[t] = "idle"
      /\ stat \in [Indexes -> {"empty", "alloc", "tx", "rcvd", "complete"}]
      /\ own \in [Threads -> Seq(Requests)] /\ round \in [Threads -> Nat] /\ pc \in [Threads -> Points]
      /\ txbuf \in [Indexes -> Tags \cup {Null}]
    BY DEF PortInv, PortType, ThreadType, GetIndex
<1>t. Tag(t) \in Tags
  <2>1. round[t] \in Nat /\ Len(own[t]) \in Nat
      BY <1>0
  <2> QED
      BY <2>1 DEF Tag, Tags
<1> PICK i \in Indexes : i = NextIndex
    BY <1>0, NextIndexIs
<1> PICK tag \in Tags : tag = Tag(t)
    BY <1>t
<1>r. [idx |-> i, tag |-> tag] \in Requests
    BY DEF Requests
<1> PICK r \in Requests : r = [idx |-> i, tag |-> tag] /\ r.idx = i /\ r.tag = tag
    BY <1>r
<1>1. /\ Settled(i) /\ stat' = [stat EXCEPT ![i] = "alloc"] /\ lastidx' = i
      /\ own' = [own EXCEPT ![t] = Append(@, r)] /\ txbuf' = [txbuf EXCEPT ![i] = tag]
      /\ pc' = [pc EXCEPT ![t] = "out"]
      /\ UNCHANGED <<rxbuf, wire, round, hand, answer, failed, strays>>
    BY DEF GetIndex
<1>2. PortType' /\ ThreadType'
    BY <1>0, <1>1 DEF PortType, ThreadType, Points
<1>3. own'[t] = Append(own[t], r) /\ \A u \in Threads : u # t => own'[u] = own[u]
    BY <1>0, <1>1
<1>4. /\ Len(own'[t]) = Len(own[t]) + 1 /\ own'[t][Len(own[t]) + 1] = r
      /\ DOMAIN own'[t] = DOMAIN own[t] \cup {Len(own[t]) + 1}
      /\ \A n \in DOMAIN own[t] : own'[t][n] = own[t][n] /\ n # Len(own[t]) + 1
  <2>1. own[t] \in Seq(Requests) /\ Len(own[t]) \in Nat
      BY <1>0
  <2> QED
      BY <1>3, <2>1
<1>5. PcInv'
  <2>1. pc'[t] = "out" /\ \A u \in Threads : u # t => pc'[u] = pc[u]
      BY <1>0, <1>1
  <2>2. Len(own'[t]) \in 1 .. Cap(t)
      BY <1>0, <1>4, CapIs, OwnIs DEF PcInv
  <2>3. answer[t] # "frame"
      BY <1>0 DEF PcInv
  <2>4. ASSUME NEW u \in Threads
        PROVE  /\ IF pc'[u] = "idle" THEN Len(own'[u]) < Cap(u) ELSE Len(own'[u]) \in 1 .. Cap(u)
               /\ answer'[u] = "frame" => pc'[u] = "done"
               /\ pc'[u] = "store" => hand'[u] \in Frames
    <3>1. CASE u = t
        BY <1>1, <2>1, <2>2, <2>3, <3>1
    <3>2. CASE u # t
        BY <1>0, <1>1, <1>3, <2>1, <3>2 DEF PcInv
    <3> QED
        BY <3>1, <3>2
  <2> QED
      BY <2>4 DEF PcInv
<1>6. ASSUME Sound' PROVE Apart'
  <2>0. Sound /\ Apart
      BY <1>1, <1>6 DEF Sound, PortInv
  <2>1. stat[i] = "empty"
      BY <1>0, <2>0, NextIndexIs, IndexIsFree
  <2>2. \A u \in Threads : \A n \in DOMAIN own[u] : own[u][n].idx \in Indexes /\ own[u][n].idx # i
      BY <1>0, <2>0, <2>1, OwnIs DEF Apart, UseInv
  <2>3. \A u \in Threads : \A n \in DOMAIN own'[u] :
          \/ n \in DOMAIN own[u] /\ own'[u][n] = own[u][n]
          \/ u = t /\ n = Len(own[t]) + 1 /\ own'[u][n] = r
      BY <1>3, <1>4
  <2>4. OneOwner'
      BY <2>0, <2>2, <2>3 DEF Apart, OneOwner
  <2>5. OwnAnswer'
    <3>1. \A u \in Threads : answer[u] = "frame" =>
            u # t /\ 1 \in DOMAIN own[u] /\ rxbuf[own[u][1].idx] = own[u][1].tag
        BY <1>0, <2>0, OwnIs DEF PcInv, Apart, OwnAnswer, First
    <3> QED
        BY <1>1, <1>3, <3>1 DEF OwnAnswer, First
  <2>6. UseInv'
    <3>1. stat'[i] = "alloc" /\ txbuf'[i] = tag
        BY <1>0, <1>1
    <3>2. \A j \in Indexes : j # i => stat'[j] = stat[j] /\ txbuf'[j] = txbuf[j]
        BY <1>0, <1>1
    <3> SUFFICES ASSUME NEW u \in Threads, NEW n \in DOMAIN own'[u]
                 PROVE  LET j == own'[u][n].idx IN
                        /\ stat'[j] # "empty" /\ txbuf'[j] = own'[u][n].tag
                        /\ stat'[j] = "rcvd" => rxbuf'[j] = own'[u][n].tag
        BY DEF UseInv
    <3>3. CASE own'[u][n] = r
        BY <3>1, <3>3
    <3>4. CASE n \in DOMAIN own[u] /\ own'[u][n] = own[u][n]
      <4>1. LET j == own[u][n].idx IN
            /\ stat[j] # "empty" /\ txbuf[j] = own[u][n].tag
            /\ stat[j] = "rcvd" => rxbuf[j] = own[u][n].tag
          BY <2>0, <3>4 DEF Apart, UseInv
      <4> QED
          BY <1>1, <2>2, <3>2, <3>4, <4>1
    <3> QED
        BY <2>3, <3>3, <3>4
  <2>7. WireInv'
    <3>1. \A k \in DOMAIN wire : wire[k].idx # i
        BY <1>1 DEF Settled
    <3> QED
        BY <1>1, <2>0, <2>3, <3>1 DEF Apart, WireInv
  <2>8. HandInv'
    <3>1. \A u \in Threads : pc'[u] = "store" => pc[u] = "store" /\ hand[u].idx # i
        BY <1>0, <1>1 DEF Settled
    <3> QED
        BY <1>1, <2>0, <2>3, <3>1 DEF Apart, HandInv
  <2>9. LeakInv'
    <3>1. \A j \in Indexes : InUse(j) => InUse(j)'
        BY <1>3, <1>4 DEF InUse, Owned
    <3>2. InUse(i)'
        BY <1>3, <1>4 DEF InUse, Owned
    <3>3. Leaked' \subseteq Leaked \cup {i} /\ i \notin Leaked'
        BY <1>0, <1>1, <3>1, <3>2 DEF Leaked
    <3> QED
        BY <1>0, <1>1, <2>0, <3>3, LeakStays DEF Apart, PortType
  <2> QED
      BY <2>4, <2>5, <2>6, <2>7, <2>8, <2>9 DEF Apart
<1> QED
    BY <1>2, <1>5, <1>6 DEF PortInv

(* A request ends: nobody else uses its index. *)
LEMMA ReleaseStep ==
  ASSUME PortInv, NEW t \in Threads, Release(t)
  PROVE  PortInv'
<1>0. /\ PortType /\ ThreadType /\ PcInv /\ pc[t] = "done"
      /\ stat \in [Indexes -> {"empty", "alloc", "tx", "rcvd", "complete"}]
      /\ own \in [Threads -> Seq(Requests)] /\ round \in [Threads -> Nat] /\ pc \in [Threads -> Points]
      /\ DOMAIN answer = Threads
    BY DEF PortInv, PortType, ThreadType, Release
<1>a. 1 \in DOMAIN own[t] /\ own[t] \in Seq(Requests) /\ Len(own[t]) \in Nat /\ Len(own[t]) <= Cap(t)
      /\ DOMAIN own[t] = 1 .. Len(own[t])
    BY <1>0, OwnIs
<1> PICK i \in Indexes : i = First(t)
    BY <1>0, <1>a, OwnIs DEF First
<1>1. /\ stat' = [stat EXCEPT ![i] = "empty"] /\ own' = [own EXCEPT ![t] = Tail(@)]
      /\ answer' = [answer EXCEPT ![t] = "none"]
      /\ UNCHANGED <<lastidx, txbuf, rxbuf, wire, hand, failed, strays>>
    BY DEF Release
<1>2. own'[t] = Tail(own[t]) /\ \A u \in Threads : u # t => own'[u] = own[u]
    BY <1>0, <1>1
<1>3. /\ Len(own'[t]) = Len(own[t]) - 1 /\ own'[t] \in Seq(Requests)
      /\ DOMAIN own'[t] = 1 .. Len(own[t]) - 1
      /\ \A n \in 1 .. Len(own[t]) - 1 : own'[t][n] = own[t][n + 1]
    BY <1>a, <1>2
<1>4. /\ PortType' /\ ThreadType'
  <2>1. PortType'
      BY <1>0, <1>1 DEF PortType
  <2>2. pc' \in [Threads -> Points] /\ round' \in [Threads -> Nat]
    <3>1. CASE Len(own[t]) = 1
      <4>1. pc' = [pc EXCEPT ![t] = "idle"] /\ round' = [round EXCEPT ![t] = @ + 1]
          BY <3>1 DEF Release
      <4> QED
          BY <1>0, <4>1 DEF Points
    <3>2. CASE Len(own[t]) # 1
      <4>1. pc' = [pc EXCEPT ![t] = "poll"] /\ round' = round
          BY <3>2 DEF Release
      <4> QED
          BY <1>0, <4>1 DEF Points
    <3> QED
        BY <3>1, <3>2
  <2>3. own' \in [Threads -> Seq(Requests)]
      BY <1>0, <1>1, <1>2, <1>3
  <2> QED
      BY <1>0, <1>1, <2>1, <2>2, <2>3 DEF ThreadType
<1>5. PcInv'
  <2>1. \A u \in Threads : u # t => pc'[u] = pc[u]
      BY <1>0 DEF Release
  <2>2. pc'[t] = IF Len(own[t]) = 1 THEN "idle" ELSE "poll"
      BY <1>0 DEF Release
  <2>3. IF pc'[t] = "idle" THEN Len(own'[t]) < Cap(t) ELSE Len(own'[t]) \in 1 .. Cap(t)
    <3>1. Cap(t) \in Nat /\ Cap(t) >= 1 /\ Len(own[t]) \in 1 .. Cap(t)
        BY <1>a, CapIs
    <3>2. CASE Len(own[t]) = 1
        BY <1>3, <2>2, <3>1, <3>2
    <3>3. CASE Len(own[t]) # 1
      <4>1. pc'[t] = "poll"
          BY <2>2, <3>3
      <4>2. Len(own'[t]) = Len(own[t]) - 1
          BY <1>3
      <4>3. \A l, c \in Nat : l \in 1 .. c /\ l # 1 => l - 1 \in 1 .. c
          OBVIOUS
      <4>4. Len(own'[t]) \in 1 .. Cap(t)
          BY <1>a, <3>1, <3>3, <4>2, <4>3
      <4> QED
          BY <4>1, <4>4
    <3> QED
        BY <3>2, <3>3
  <2>4. answer'[t] = "none" /\ \A u \in Threads : u # t => answer'[u] = answer[u]
      BY <1>0, <1>1
  <2>5. ASSUME NEW u \in Threads
        PROVE  /\ IF pc'[u] = "idle" THEN Len(own'[u]) < Cap(u) ELSE Len(own'[u]) \in 1 .. Cap(u)
               /\ answer'[u] = "frame" => pc'[u] = "done"
               /\ pc'[u] = "store" => hand'[u] \in Frames
    <3>1. CASE u = t
        BY <2>2, <2>3, <2>4, <3>1
    <3>2. CASE u # t
        BY <1>0, <1>1, <1>2, <2>1, <2>4, <3>2 DEF PcInv
    <3> QED
        BY <3>1, <3>2
  <2> QED
      BY <2>5 DEF PcInv
<1>6. ASSUME Sound' PROVE Apart'
  <2>0. Sound /\ Apart
      BY <1>1, <1>6 DEF Sound, PortInv
  <2>1. \A u \in Threads : \A n \in DOMAIN own'[u] :
          LET m == IF u = t THEN n + 1 ELSE n IN
          /\ m \in DOMAIN own[u] /\ own'[u][n] = own[u][m] /\ (u = t => m # 1) /\ n \in Int
    <3>1. \A n \in DOMAIN own'[t] : n + 1 \in DOMAIN own[t] /\ own'[t][n] = own[t][n + 1] /\ n + 1 # 1
        BY <1>a, <1>3
    <3>2. \A u \in Threads : \A n \in DOMAIN own[u] : n \in Int
        BY <1>0, OwnIs
    <3> SUFFICES ASSUME NEW u \in Threads, NEW n \in DOMAIN own'[u], NEW m,
                        m = IF u = t THEN n + 1 ELSE n
                 PROVE  m \in DOMAIN own[u] /\ own'[u][n] = own[u][m] /\ (u = t => m # 1) /\ n \in Int
        OBVIOUS
    <3>3. CASE u = t
        BY <1>3, <3>1, <3>3
    <3>4. CASE u # t
        BY <1>2, <3>2, <3>4
    <3> QED
        BY <3>3, <3>4
  <2>2. \A u \in Threads : \A n \in DOMAIN own'[u] :
          own'[u][n].idx \in Indexes /\ own'[u][n].idx # i
    <3>1. \A u \in Threads : \A m \in DOMAIN own[u] :
            own[u][m].idx \in Indexes /\ (own[u][m].idx = i => u = t /\ m = 1)
        BY <1>0, <1>a, <2>0, OwnIs DEF Apart, OneOwner, First
    <3> QED
        BY <2>1, <3>1
  <2>3. OneOwner'
    <3> SUFFICES ASSUME NEW u \in Threads, NEW v \in Threads,
                        NEW n \in DOMAIN own'[u], NEW m \in DOMAIN own'[v],
                        own'[u][n].idx = own'[v][m].idx
                 PROVE  u = v /\ n = m
        BY DEF OneOwner
    <3>1. PICK n2 \in DOMAIN own[u] : /\ n2 = (IF u = t THEN n + 1 ELSE n) /\ own'[u][n] = own[u][n2]
                                     /\ n \in Int
        BY <2>1
    <3>2. PICK m2 \in DOMAIN own[v] : /\ m2 = (IF v = t THEN m + 1 ELSE m) /\ own'[v][m] = own[v][m2]
                                     /\ m \in Int
        BY <2>1
    <3>3. u = v /\ n2 = m2
        BY <2>0, <3>1, <3>2 DEF Apart, OneOwner
    <3> QED
        BY <3>1, <3>2, <3>3
  <2>4. OwnAnswer'
    <3>1. \A u \in Threads : answer'[u] = "frame" =>
            u # t /\ own'[u] = own[u] /\ rxbuf[own[u][1].idx] = own[u][1].tag
        BY <1>0, <1>1, <1>2, <2>0 DEF Apart, OwnAnswer, First
    <3> QED
        BY <1>1, <3>1 DEF OwnAnswer, First
  <2>5. UseInv'
    <3>1. \A j \in Indexes : j # i => stat'[j] = stat[j]
        BY <1>0, <1>1
    <3> SUFFICES ASSUME NEW u \in Threads, NEW n \in DOMAIN own'[u]
                 PROVE  LET j == own'[u][n].idx IN
                        /\ stat'[j] # "empty" /\ txbuf'[j] = own'[u][n].tag
                        /\ stat'[j] = "rcvd" => rxbuf'[j] = own'[u][n].tag
        BY DEF UseInv
    <3>2. PICK m \in DOMAIN own[u] : own'[u][n] = own[u][m]
        BY <2>1
    <3>3. LET j == own[u][m].idx IN
          /\ stat[j] # "empty" /\ txbuf[j] = own[u][m].tag
          /\ stat[j] = "rcvd" => rxbuf[j] = own[u][m].tag
        BY <2>0 DEF Apart, UseInv
    <3>4. own'[u][n].idx \in Indexes /\ own'[u][n].idx # i
        BY <2>2
    <3> QED
        BY <1>1, <3>1, <3>2, <3>3, <3>4
  <2>6. WireInv'
    <3> SUFFICES ASSUME NEW k \in DOMAIN wire, NEW v \in Threads, NEW n \in DOMAIN own'[v],
                        wire[k].idx = own'[v][n].idx
                 PROVE  wire[k].tag = own'[v][n].tag
        BY <1>1 DEF WireInv
    <3>1. PICK m \in DOMAIN own[v] : own'[v][n] = own[v][m]
        BY <2>1
    <3> QED
        BY <2>0, <3>1 DEF Apart, WireInv
  <2>7. HandInv'
    <3> SUFFICES ASSUME NEW u \in Threads, NEW v \in Threads, NEW n \in DOMAIN own'[v],
                        pc'[u] = "store", hand[u].idx = own'[v][n].idx
                 PROVE  hand[u].tag = own'[v][n].tag
        BY <1>1 DEF HandInv
    <3>1. pc[u] = "store"
        BY <1>0 DEF Release
    <3>2. PICK m \in DOMAIN own[v] : own'[v][n] = own[v][m]
        BY <2>1
    <3> QED
        BY <2>0, <3>1, <3>2 DEF Apart, HandInv
  <2>8. LeakInv'
    <3>1. \A j \in Indexes : j # i /\ InUse(j) => InUse(j)'
      <4> SUFFICES ASSUME NEW j \in Indexes, j # i, NEW u \in Threads, NEW n \in DOMAIN own[u],
                          own[u][n].idx = j
                   PROVE  \E v \in Threads : \E m \in DOMAIN own'[v] : own'[v][m].idx = j
          BY DEF InUse, Owned
      <4>1. CASE u = t
        <5>1. n # 1 /\ n \in 1 .. Len(own[t])
            BY <1>a, <4>1 DEF First
        <5>2. n - 1 \in DOMAIN own'[t] /\ own'[t][n - 1] = own[t][n]
            BY <1>a, <1>3, <5>1
        <5> QED
            BY <4>1, <5>2
      <4>2. CASE u # t
          BY <1>2, <4>2
      <4> QED
          BY <4>1, <4>2
    <3>2. stat'[i] = "empty" /\ \A j \in Indexes : j # i => stat'[j] = stat[j]
        BY <1>0, <1>1
    <3>3. Leaked' \subseteq Leaked \cup {i} /\ i \notin Leaked'
        BY <3>1, <3>2 DEF Leaked
    <3> QED
        BY <1>0, <1>1, <2>0, <3>3, LeakStays DEF Apart, PortType
  <2> QED
      BY <2>3, <2>4, <2>5, <2>6, <2>7, <2>8 DEF Apart
<1> QED
    BY <1>4, <1>5, <1>6 DEF PortInv

(* A frame goes out: it carries what the buffer was built with. *)
LEMMA SendFrameStep ==
  ASSUME PortInv, NEW t \in Threads, SendFrame(t)
  PROVE  PortInv'
<1>0. /\ PortType /\ ThreadType /\ PcInv /\ pc[t] = "out"
      /\ stat \in [Indexes -> {"empty", "alloc", "tx", "rcvd", "complete"}]
      /\ pc \in [Threads -> Points] /\ txbuf \in [Indexes -> Tags \cup {Null}] /\ wire \in Seq(Frames)
    BY DEF PortInv, PortType, ThreadType, SendFrame
<1>a. 1 \in DOMAIN own[t] /\ own[t] \in Seq(Requests) /\ Len(own[t]) \in Nat
      /\ DOMAIN own[t] = 1 .. Len(own[t]) /\ Len(own[t]) \in DOMAIN own[t]
    BY <1>0, OwnIs
<1>b. Last(own[t]) = own[t][Len(own[t])] /\ own[t][Len(own[t])].idx \in Indexes
    BY <1>0, <1>a, OwnIs DEF Last
<1> PICK i \in Indexes : i = own[t][Len(own[t])].idx
    BY <1>b
<1>1. /\ Outframe(t, i)
      /\ pc' = [pc EXCEPT ![t] = IF t \in Cyclic /\ Len(own[t]) < Burst THEN "idle" ELSE "poll"]
      /\ UNCHANGED <<lastidx, txbuf, rxbuf, own, round, hand, answer, strays>>
    BY <1>b DEF SendFrame
<1>2. [idx |-> i, tag |-> txbuf[i]] \in Frames
    BY <1>0 DEF Frames
<1>3. PortType' /\ ThreadType'
  <2>1. wire' \in Seq(Frames)
      BY <1>0, <1>1, <1>2 DEF Outframe
  <2>2. stat' \in [Indexes -> {"empty", "alloc", "tx", "rcvd", "complete"}]
      BY <1>0, <1>1 DEF Outframe
  <2>3. pc' \in [Threads -> Points]
      BY <1>0, <1>1 DEF Points
  <2> QED
      BY <1>0, <1>1, <2>1, <2>2, <2>3 DEF PortType, ThreadType
<1>4. pc'[t] = (IF t \in Cyclic /\ Len(own[t]) < Burst THEN "idle" ELSE "poll")
      /\ \A u \in Threads : u # t => pc'[u] = pc[u]
    BY <1>0, <1>1
<1>5. PcInv'
  <2>1. Len(own[t]) \in 1 .. Cap(t)
      BY <1>0 DEF PcInv
  <2>2. pc'[t] = "idle" => Len(own[t]) < Cap(t)
      BY <1>4 DEF Cap
  <2>3. answer[t] # "frame" /\ pc'[t] # "store"
      BY <1>0, <1>4 DEF PcInv
  <2>4. ASSUME NEW u \in Threads
        PROVE  /\ IF pc'[u] = "idle" THEN Len(own'[u]) < Cap(u) ELSE Len(own'[u]) \in 1 .. Cap(u)
               /\ answer'[u] = "frame" => pc'[u] = "done"
               /\ pc'[u] = "store" => hand'[u] \in Frames
    <3>1. CASE u = t
        BY <1>1, <2>1, <2>2, <2>3, <3>1
    <3>2. CASE u # t
        BY <1>0, <1>1, <1>4, <3>2 DEF PcInv
    <3> QED
        BY <3>1, <3>2
  <2> QED
      BY <2>4 DEF PcInv
<1>6. ASSUME Sound' PROVE Apart'
  <2>1. failed' = {}
      BY <1>6 DEF Sound
  <2>2. stat' = [stat EXCEPT ![i] = "tx"] /\ wire' = Append(wire, [idx |-> i, tag |-> txbuf[i]])
        /\ failed' = failed
      BY <1>1, <2>1 DEF Outframe
  <2>3. Apart
      BY <1>1, <1>6, <2>2 DEF Sound, PortInv
  <2>4. \A k \in DOMAIN wire' : Right(wire'[k])
    <3>1. Right([idx |-> i, tag |-> txbuf[i]])
        BY <2>3 DEF Right, Apart, UseInv
    <3>2. \A k \in DOMAIN wire' : wire'[k] = [idx |-> i, tag |-> txbuf[i]]
            \/ (k \in DOMAIN wire /\ wire'[k] = wire[k])
      <4> DEFINE f == [idx |-> i, tag |-> txbuf[i]]
      <4>1. f \in Frames /\ wire' = Append(wire, f)
          BY <1>2, <2>2
      <4> HIDE DEF f
      <4>2. \A k \in DOMAIN wire' : wire'[k] = f \/ (k \in DOMAIN wire /\ wire'[k] = wire[k])
          BY <1>0, <4>1
      <4> QED
          BY <4>2 DEF f
    <3>3. \A k \in DOMAIN wire : Right(wire[k])
        BY <2>3, FramesAreRight DEF Apart
    <3> HIDE DEF Right
    <3> QED
        BY <3>1, <3>2, <3>3
  <2>5. \A u \in Threads : pc'[u] = "store" => Right(hand'[u])
    <3>1. \A u \in Threads : pc[u] = "store" => Right(hand[u])
        BY <2>3, FramesAreRight DEF Apart
    <3>2. \A u \in Threads : pc'[u] = "store" => pc[u] = "store"
        BY <1>4
    <3> QED
        BY <1>1, <3>1, <3>2
  <2>6. InUse(i)
      BY <1>a DEF InUse, Owned
  <2>7. strays' \in Nat
      BY <1>0, <1>1 DEF PortType
  <2> QED
      BY <1>0, <1>1, <2>2, <2>3, <2>4, <2>5, <2>6, <2>7, BufferMarked
<1> QED
    BY <1>3, <1>5, <1>6 DEF PortInv

(* A wait ends with an answer that lay in the buffer. *)
LEMMA CompleteStep ==
  ASSUME PortInv, NEW t \in Threads, pc[t] # "idle", stat[First(t)] = "rcvd", Complete(t),
         UNCHANGED <<lastidx, txbuf, rxbuf, wire, own, round, hand, failed, strays>>
  PROVE  PortInv'
<1>0. /\ PortType /\ ThreadType /\ PcInv /\ strays' \in Nat
      /\ stat \in [Indexes -> {"empty", "alloc", "tx", "rcvd", "complete"}]
      /\ pc \in [Threads -> Points] /\ DOMAIN answer = Threads
    BY DEF PortInv, PortType, ThreadType
<1>a. 1 \in DOMAIN own[t]
    BY <1>0, OwnIs
<1> PICK i \in Indexes : i = First(t) /\ i = own[t][1].idx
    BY <1>0, <1>a, OwnIs DEF First
<1>1. /\ stat' = [stat EXCEPT ![i] = "complete"] /\ answer' = [answer EXCEPT ![t] = "frame"]
      /\ pc' = [pc EXCEPT ![t] = "done"] /\ stat[i] = "rcvd"
    BY DEF Complete
<1>2. PortType' /\ ThreadType'
    BY <1>0, <1>1 DEF PortType, ThreadType, Points
<1>3. /\ pc'[t] = "done" /\ answer'[t] = "frame"
      /\ \A u \in Threads : u # t => pc'[u] = pc[u] /\ answer'[u] = answer[u]
    BY <1>0, <1>1
<1>4. PcInv'
    BY <1>0, <1>3 DEF PcInv
<1>5. ASSUME Sound' PROVE Apart'
  <2>1. Apart
      BY <1>5 DEF Sound, PortInv
  <2>2. rxbuf[i] = own[t][1].tag
      BY <1>a, <1>1, <2>1 DEF Apart, UseInv
  <2>3. \A u \in Threads : answer'[u] = "frame" =>
          answer[u] = "frame" \/ (own[u][1].idx = i /\ rxbuf'[i] = own[u][1].tag)
      BY <1>3, <2>2
  <2>4. InUse(i)
      BY <1>a DEF InUse, Owned
  <2>5. \A k \in DOMAIN wire' : Right(wire'[k])
      BY <2>1, FramesAreRight DEF Apart
  <2>6. \A u \in Threads : pc'[u] = "store" => Right(hand'[u])
    <3>1. \A u \in Threads : pc'[u] = "store" => pc[u] = "store"
        BY <1>3
    <3> QED
        BY <2>1, <3>1, FramesAreRight DEF Apart
  <2> QED
      BY <1>0, <1>1, <2>1, <2>3, <2>4, <2>5, <2>6, BufferMarked
<1> QED
    BY <1>2, <1>4, <1>5 DEF PortInv

(* The frame on the ring is the thread's own. *)
LEMMA ReadOwnStep ==
  ASSUME PortInv, NEW t \in Threads, ReadOwnFrame(t)
  PROVE  PortInv'
<1>0. /\ PortType /\ ThreadType /\ PcInv /\ strays' \in Nat /\ pc[t] = "locked"
      /\ stat \in [Indexes -> {"empty", "alloc", "tx", "rcvd", "complete"}]
      /\ pc \in [Threads -> Points] /\ DOMAIN answer = Threads /\ wire \in Seq(Frames) /\ wire # <<>>
      /\ DOMAIN rxbuf = Indexes
    BY DEF PortInv, PortType, ThreadType, ReadOwnFrame
<1>a. 1 \in DOMAIN own[t]
    BY <1>0, OwnIs
<1> PICK i \in Indexes : i = First(t) /\ i = own[t][1].idx
    BY <1>0, <1>a, OwnIs DEF First
<1>1. /\ stat' = [stat EXCEPT ![i] = "complete"] /\ answer' = [answer EXCEPT ![t] = "frame"]
      /\ pc' = [pc EXCEPT ![t] = "done"] /\ rxbuf' = [rxbuf EXCEPT ![i] = Head(wire).tag]
      /\ wire' = Tail(wire) /\ Head(wire).idx = i
      /\ UNCHANGED <<lastidx, txbuf, own, round, hand, failed, strays>>
    BY DEF Complete, ReadOwnFrame
<1>w. /\ wire' \in Seq(Frames) /\ 1 \in DOMAIN wire /\ Head(wire) = wire[1]
      /\ \A k \in DOMAIN wire' : k + 1 \in DOMAIN wire /\ wire'[k] = wire[k + 1]
    BY <1>0, <1>1
<1>2. PortType' /\ ThreadType'
    BY <1>0, <1>1, <1>w DEF PortType, ThreadType, Points
<1>3. /\ pc'[t] = "done" /\ answer'[t] = "frame"
      /\ \A u \in Threads : u # t => pc'[u] = pc[u] /\ answer'[u] = answer[u]
    BY <1>0, <1>1
<1>4. PcInv'
    BY <1>0, <1>1, <1>3 DEF PcInv
<1>5. ASSUME Sound' PROVE Apart'
  <2>1. Apart
      BY <1>1, <1>5 DEF Sound, PortInv
  <2>0. \A k \in DOMAIN wire : Right(wire[k])
      BY <2>1, FramesAreRight DEF Apart
  <2>r. \A j \in Indexes : j # i => rxbuf'[j] = rxbuf[j]
      BY <1>1
  <2>2. /\ rxbuf'[i] = own[t][1].tag
        /\ \A u \in Threads : \A n \in DOMAIN own[u] : own[u][n].idx = i => rxbuf'[i] = own[u][n].tag
    <3>1. rxbuf'[i] = wire[1].tag /\ wire[1].idx = i
        BY <1>0, <1>1, <1>w
    <3> QED
        BY <1>a, <1>w, <2>0, <3>1 DEF Right
  <2>3. \A u \in Threads : answer'[u] = "frame" =>
          answer[u] = "frame" \/ (own[u][1].idx = i /\ rxbuf'[i] = own[u][1].tag)
      BY <1>3, <2>2
  <2>4. InUse(i)
      BY <1>a DEF InUse, Owned
  <2>5. \A k \in DOMAIN wire' : Right(wire'[k])
    <3> HIDE DEF Right
    <3> QED
        BY <1>w, <2>0
  <2>6. \A u \in Threads : pc'[u] = "store" => Right(hand'[u])
    <3>1. \A u \in Threads : pc'[u] = "store" => pc[u] = "store"
        BY <1>3
    <3> QED
        BY <1>1, <2>1, <3>1, FramesAreRight DEF Apart
  <2> QED
      BY <1>0, <1>1, <2>r, <2>1, <2>2, <2>3, <2>4, <2>5, <2>6, BufferMarked
<1> QED
    BY <1>2, <1>4, <1>5 DEF PortInv

(* Another request's frame is stored, or one that no request waits for. *)
LEMMA StoreOtherStep ==
  ASSUME PortInv, NEW t \in Threads, StoreOther(t)
  PROVE  PortInv'
<1>0. /\ PortType /\ ThreadType /\ PcInv /\ pc[t] = "store" /\ hand[t] \in Frames
      /\ stat \in [Indexes -> {"empty", "alloc", "tx", "rcvd", "complete"}] /\ strays \in Nat
      /\ pc \in [Threads -> Points] /\ DOMAIN hand = Threads /\ DOMAIN rxbuf = Indexes
    BY DEF PortInv, PortType, ThreadType, PcInv, StoreOther
<1> PICK i \in Indexes : i = hand[t].idx
    BY <1>0 DEF Frames
<1>1. /\ stat' = [stat EXCEPT ![i] = "rcvd"] /\ rxbuf' = [rxbuf EXCEPT ![i] = hand[t].tag]
      /\ pc' = [pc EXCEPT ![t] = "again"] /\ hand' = [hand EXCEPT ![t] = Null]
      /\ strays' = strays + IF InUse(i) THEN 0 ELSE 1
      /\ UNCHANGED <<lastidx, txbuf, wire, own, round, answer, failed>>
    BY DEF StoreOther, InUse
<1>s. strays' \in Nat /\ ((strays' = strays /\ InUse(i)) \/ strays' > strays)
    BY <1>0, <1>1
<1>2. PortType' /\ ThreadType'
    BY <1>0, <1>1, <1>s DEF PortType, ThreadType, Points
<1>3. pc'[t] = "again" /\ \A u \in Threads : u # t => pc'[u] = pc[u] /\ hand'[u] = hand[u]
    BY <1>0, <1>1
<1>4. PcInv'
    BY <1>0, <1>1, <1>3 DEF PcInv
<1>5. ASSUME Sound' PROVE Apart'
  <2>0. Sound
    <3>1. Spare \in Int /\ Spare' = Spare
        BY RoomIs, PortAssumption DEF Spare
    <3> QED
        BY <1>0, <1>1, <1>s, <1>5, <3>1 DEF Sound
  <2>1. Apart
      BY <2>0 DEF PortInv
  <2>2. \A u \in Threads : \A n \in DOMAIN own[u] : own[u][n].idx = i => rxbuf'[i] = own[u][n].tag
    <3>1. rxbuf'[i] = hand[t].tag
        BY <1>0, <1>1
    <3> QED
        BY <1>0, <2>1, <3>1 DEF Apart, HandInv
  <2>r. \A j \in Indexes : j # i => rxbuf'[j] = rxbuf[j]
      BY <1>1
  <2>5. \A k \in DOMAIN wire' : Right(wire'[k])
      BY <1>1, <2>1, FramesAreRight DEF Apart
  <2>6. \A u \in Threads : pc'[u] = "store" => Right(hand'[u])
    <3>1. \A u \in Threads : pc'[u] = "store" => pc[u] = "store" /\ hand'[u] = hand[u]
        BY <1>3
    <3> QED
        BY <2>1, <3>1, FramesAreRight DEF Apart
  <2> QED
      BY <1>0, <1>1, <1>s, <2>r, <2>1, <2>2, <2>5, <2>6, BufferMarked
<1> QED
    BY <1>2, <1>4, <1>5 DEF PortInv

(* The steps that leave the buffers alone. *)
LEMMA QuietStep ==
  ASSUME PortInv, NEW t \in Threads,
         EnterRx(t) \/ NothingYet(t) \/ ReadOtherFrame(t) \/ Resend(t) \/ GiveUp(t)
  PROVE  PortInv'
<1>0. /\ PortType /\ ThreadType /\ PcInv /\ pc \in [Threads -> Points] /\ DOMAIN hand = Threads
      /\ wire \in Seq(Frames) /\ DOMAIN answer = Threads
    BY DEF PortInv, PortType, ThreadType
<1>1. UNCHANGED <<lastidx, stat, txbuf, rxbuf, own, round, failed, strays>>
    BY DEF EnterRx, NothingYet, ReadOtherFrame, Resend, GiveUp, portVars
<1>2. /\ pc[t] \in {"poll", "again", "locked"} /\ pc'[t] \in {"locked", "again", "out", "done", "store"}
      /\ pc' \in [Threads -> Points] /\ \A u \in Threads : u # t => pc'[u] = pc[u]
  <2>1. CASE EnterRx(t)
      BY <1>0, <2>1 DEF EnterRx, Points, Polling
  <2>2. CASE NothingYet(t)
      BY <1>0, <2>2 DEF NothingYet, Points
  <2>3. CASE ReadOtherFrame(t)
      BY <1>0, <2>3 DEF ReadOtherFrame, Points
  <2>4. CASE Resend(t)
      BY <1>0, <2>4 DEF Resend, Points
  <2>5. CASE GiveUp(t)
      BY <1>0, <2>5 DEF GiveUp, Points
  <2> QED
      BY <2>1, <2>2, <2>3, <2>4, <2>5
<1>3. /\ wire' \in Seq(Frames) /\ \A k \in DOMAIN wire' : \E m \in DOMAIN wire : wire'[k] = wire[m]
  <2>1. CASE wire' = wire
      BY <1>0, <2>1
  <2>2. CASE wire' = Tail(wire) /\ wire # <<>>
    <3>1. wire' \in Seq(Frames) /\ \A k \in DOMAIN wire' : k + 1 \in DOMAIN wire /\ wire'[k] = wire[k + 1]
        BY <1>0, <2>2
    <3> QED
        BY <3>1
  <2> QED
      BY <2>1, <2>2 DEF EnterRx, NothingYet, ReadOtherFrame, Resend, GiveUp, portVars
<1>4. /\ \A u \in Threads : u # t => hand'[u] = hand[u] /\ answer'[u] = answer[u]
      /\ DOMAIN hand' = Threads /\ DOMAIN answer' = Threads
      /\ answer'[t] = "frame" => answer[t] = "frame"
    BY <1>0 DEF EnterRx, NothingYet, ReadOtherFrame, Resend, GiveUp
<1>5. pc'[t] = "store" => \E m \in DOMAIN wire : hand'[t] = wire[m]
  <2>1. CASE ReadOtherFrame(t)
    <3>1. 1 \in DOMAIN wire /\ Head(wire) = wire[1]
        BY <1>0, <2>1 DEF ReadOtherFrame
    <3>2. pc'[t] = "store" => hand'[t] = Head(wire)
        BY <1>0, <2>1 DEF ReadOtherFrame
    <3> QED
        BY <3>1, <3>2
  <2>2. CASE ~ReadOtherFrame(t)
    <3>1. pc'[t] # "store"
        BY <1>0, <2>2 DEF EnterRx, NothingYet, Resend, GiveUp
    <3> QED
        BY <3>1
  <2> QED
      BY <2>1, <2>2
<1>6. PortType' /\ ThreadType'
    BY <1>0, <1>1, <1>2, <1>3, <1>4 DEF PortType, ThreadType
<1>7. PcInv'
  <2>1. \A m \in DOMAIN wire : wire[m] \in Frames
      BY <1>0
  <2>2. answer[t] # "frame"
      BY <1>0, <1>2 DEF PcInv
  <2>3. ASSUME NEW u \in Threads
        PROVE  /\ IF pc'[u] = "idle" THEN Len(own'[u]) < Cap(u) ELSE Len(own'[u]) \in 1 .. Cap(u)
               /\ answer'[u] = "frame" => pc'[u] = "done"
               /\ pc'[u] = "store" => hand'[u] \in Frames
    <3>1. CASE u = t
      <4>1. Len(own[t]) \in 1 .. Cap(t) /\ pc'[t] # "idle"
          BY <1>0, <1>2 DEF PcInv
      <4> QED
          BY <1>1, <1>4, <1>5, <2>1, <2>2, <3>1, <4>1
    <3>2. CASE u # t
        BY <1>0, <1>1, <1>2, <1>4, <3>2 DEF PcInv
    <3> QED
        BY <3>1, <3>2
  <2> QED
      BY <2>3 DEF PcInv
<1>8. ASSUME Sound' PROVE Apart'
  <2>1. Apart
      BY <1>1, <1>8 DEF Sound, PortInv
  <2>2. \A u \in Threads : pc'[u] = "store" =>
           \/ pc[u] = "store" /\ hand'[u] = hand[u]
           \/ \E m \in DOMAIN wire : hand'[u] = wire[m]
      BY <1>2, <1>4, <1>5
  <2>3. \A u \in Threads : answer'[u] = "frame" => answer[u] = "frame"
      BY <1>4
  <2> QED
      BY <1>0, <1>1, <1>3, <2>1, <2>2, <2>3, BuffersStay
<1> QED
    BY <1>6, <1>7, <1>8 DEF PortInv

LEMMA LoseStep ==
  ASSUME PortInv, Lose
  PROVE  PortInv'
<1>0. PortType /\ ThreadType /\ PcInv /\ wire \in Seq(Frames)
    BY DEF PortInv, PortType
<1>1. UNCHANGED <<lastidx, stat, txbuf, rxbuf, own, round, hand, pc, answer, failed, strays>>
    BY DEF Lose, threadVars
<1>2. PICK n \in DOMAIN wire : wire' = RemoveAt(wire, n)
    BY DEF Lose
<1>3. /\ wire' \in Seq(Frames)
      /\ \A k \in DOMAIN wire' : \E m \in DOMAIN wire : wire'[k] = wire[m]
    BY <1>0, <1>2, RemoveKeeps
<1>4. PortType' /\ ThreadType' /\ PcInv'
    BY <1>0, <1>1, <1>3 DEF PortType, ThreadType, PcInv
<1>5. ASSUME Sound' PROVE Apart'
    BY <1>0, <1>1, <1>3, <1>5, BuffersStay DEF Sound, PortInv
<1> QED
    BY <1>4, <1>5 DEF PortInv

-----------------------------------------------------------------------------
(* The port begins with every buffer free. *)
LEMMA InitIsRight == Init => PortInv
<1> SUFFICES ASSUME Init PROVE PortInv
    OBVIOUS
<1>1. MaxBuf \in Nat /\ MaxBuf # 0 /\ 0 \in Indexes
    BY PortAssumption DEF Indexes
<1>2. PortType /\ ThreadType
  <2>1. wire \in Seq(Frames) /\ <<>> \in Seq(Requests)
      BY DEF Init
  <2> QED
      BY <1>1, <2>1 DEF Init, PortType, ThreadType, Points
<1>3. \A t \in Threads : pc[t] = "idle" /\ answer[t] = "none" /\ own[t] = <<>> /\ Len(own[t]) = 0
                        /\ DOMAIN own[t] = {}
    BY DEF Init
<1>4. PcInv
    BY <1>3, CapIs DEF PcInv
<1>5. OneOwner /\ OwnAnswer /\ UseInv /\ WireInv /\ HandInv
    BY <1>3 DEF OneOwner, OwnAnswer, UseInv, WireInv, HandInv
<1>6. LeakInv
  <2>1. Leaked = {} /\ strays = 0
      BY DEF Init, Leaked
  <2> QED
      BY <2>1, FS_EmptySet DEF LeakInv
<1> QED
    BY <1>2, <1>4, <1>5, <1>6 DEF PortInv, Apart

LEMMA NextIsRight == PortInv /\ [Next]_vars => PortInv'
<1> SUFFICES ASSUME PortInv, [Next]_vars PROVE PortInv'
    OBVIOUS
<1>1. CASE Lose
    BY <1>1, LoseStep
<1>2. ASSUME NEW t \in Threads, Step(t) PROVE PortInv'
  <2>1. CASE TakeStored(t)
    <3>1. /\ pc[t] # "idle" /\ stat[First(t)] = "rcvd" /\ Complete(t)
          /\ UNCHANGED <<lastidx, txbuf, rxbuf, wire, own, round, hand, failed, strays>>
        BY <2>1 DEF TakeStored, Polling
    <3> QED
        BY <3>1, CompleteStep
  <2>2. CASE TakeStoredLocked(t)
    <3>1. /\ pc[t] # "idle" /\ stat[First(t)] = "rcvd" /\ Complete(t)
          /\ UNCHANGED <<lastidx, txbuf, rxbuf, wire, own, round, hand, failed, strays>>
        BY <2>2 DEF TakeStoredLocked
    <3> QED
        BY <3>1, CompleteStep
  <2> QED
      BY <1>2, <2>1, <2>2, GetIndexStep, SendFrameStep, ReadOwnStep, StoreOtherStep, QuietStep,
         ReleaseStep DEF Step
<1>3. CASE UNCHANGED vars
  <2>1. UNCHANGED <<lastidx, stat, txbuf, rxbuf, wire, pc, own, round, hand, answer, failed, strays>>
      BY <1>3 DEF vars
  <2>2. PortType' /\ ThreadType' /\ PcInv' /\ (Sound' => Apart')
      BY <2>1 DEF PortInv, PortType, ThreadType, PcInv, Sound, Apart, OneOwner, OwnAnswer, UseInv,
                  WireInv, HandInv, LeakInv, Leaked, InUse, Owned, First
  <2> QED
      BY <2>2 DEF PortInv
<1> QED
    BY <1>1, <1>2, <1>3 DEF Next

(* The invariant of the port holds in every state. *)
THEOREM PortCorrect == Spec => []PortInv
BY InitIsRight, NextIsRight, PTL DEF Spec

(* For any number of threads, buffers, frames and losses: no index has two *)
(* owners and every answer is copied by the request it belongs to, while   *)
(* no send has failed and the strays have not used up the spare indexes.   *)
THEOREM AnswersStayOwn == Spec => []AnswerIsOwn
<1>1. PortInv => AnswerIsOwn
    BY DEF PortInv, Sound, Apart, AnswerIsOwn
<1> QED
    BY <1>1, PortCorrect, PTL

-----------------------------------------------------------------------------
(***************************************************************************)
(* The redundant port.                                                     *)
(***************************************************************************)

(* The frames that there are. *)
Frame(src, a, b) == [src |-> src, seen |-> Slaves(a, b)]

(* What the two sockets receive of one transmission when nothing is lost.  *)
Primary ==
  CASE brk = 0     -> NoRx
    [] brk = N + 1 -> Dummy
    [] OTHER       -> Frame("primary", 1, brk)
Secondary ==
  CASE brk = N     -> NoRx
    [] brk = N + 1 -> Frame("primary", 1, N)
    [] OTHER       -> Frame("secondary", brk + 1, N)

LineType == brk \in 0 .. N + 1 /\ retry \in Nat /\ dropped \in BOOLEAN

(* Nobody has executed what is in the transmit buffer when it goes out of  *)
(* the primary NIC: a half-done request copied back into it always ends    *)
(* with an answer, and is not sent from there again.                       *)
FirstInv == step \in {"send", "wait"} => tx = SetupHeader

WaitInv ==
  step = "wait" =>
    /\ prim \in {NoRx, Primary} /\ sec \in {NoRx, Secondary}
    /\ ~dropped => prim = Primary /\ sec = Secondary

(* Sent again from the secondary NIC, the request meets the slaves behind  *)
(* the cut, and carries those before it when they had executed it.         *)
Begun == IF prim = NoRx THEN brk + 1 ELSE 1
AgainInv ==
  step = "rewait" =>
    /\ brk \in 0 .. N - 1 /\ prim \in {NoRx, Primary} /\ sec \in {NoRx, Frame("primary", Begun, N)}
    /\ ~dropped => prim = Primary /\ sec = Frame("primary", 1, N)
    /\ prim = NoRx => tx = SetupHeader

RedInv == LineType /\ FirstInv /\ WaitInv /\ AgainInv /\ CutIsTransparent

-----------------------------------------------------------------------------
(* A stretch of the line in its order. *)
LEMMA SlavesAre ==
  ASSUME NEW a \in Int, NEW b \in Int, a <= b + 1
  PROVE  /\ Slaves(a, b) \in Seq(Int) /\ Len(Slaves(a, b)) = b - a + 1
         /\ DOMAIN Slaves(a, b) = 1 .. b - a + 1
         /\ \A k \in 1 .. b - a + 1 : Slaves(a, b)[k] = a + k - 1
<1> DEFINE l == IF b < a THEN 0 ELSE b - a + 1
<1>1. l \in Nat /\ Slaves(a, b) = [k \in 1 .. l |-> a + k - 1]
    BY DEF Slaves
<1>2. l = b - a + 1
    OBVIOUS
<1> HIDE DEF l
<1>3. \A k \in 1 .. l : a + k - 1 \in Int
    BY <1>1
<1>4. Slaves(a, b) \in Seq(Int) /\ Len(Slaves(a, b)) = l
    BY <1>1, <1>3
<1> QED
    BY <1>1, <1>2, <1>4

(* Two stretches that meet are one. *)
LEMMA JoinSlaves ==
  ASSUME N \in Nat, NEW b \in 0 .. N
  PROVE  Slaves(1, b) \o Slaves(b + 1, N) = Slaves(1, N)
<1> DEFINE s == Slaves(1, b)
           r == Slaves(b + 1, N)
           w == Slaves(1, N)
<1>0. /\ 1 \in Int /\ N \in Int /\ b \in Int /\ b + 1 \in Int /\ 0 <= b /\ b <= N
      /\ 1 <= b + 1 /\ 1 <= N + 1 /\ b + 1 <= N + 1
    OBVIOUS
<1>1. s \in Seq(Int) /\ Len(s) = b /\ \A k \in 1 .. b : s[k] = k
  <2>1. s \in Seq(Int) /\ Len(s) = b - 1 + 1 /\ \A k \in 1 .. b - 1 + 1 : s[k] = 1 + k - 1
      BY <1>0, SlavesAre
  <2> HIDE DEF s
  <2> QED
      BY <1>0, <2>1
<1>2. r \in Seq(Int) /\ Len(r) = N - b /\ \A k \in 1 .. N - b : r[k] = b + k
  <2>1. /\ r \in Seq(Int) /\ Len(r) = N - (b + 1) + 1
        /\ \A k \in 1 .. N - (b + 1) + 1 : r[k] = (b + 1) + k - 1
      BY <1>0, SlavesAre
  <2> HIDE DEF r
  <2> QED
      BY <1>0, <2>1
<1>3. w \in Seq(Int) /\ Len(w) = N /\ \A k \in 1 .. N : w[k] = k
  <2>1. w \in Seq(Int) /\ Len(w) = N - 1 + 1 /\ \A k \in 1 .. N - 1 + 1 : w[k] = 1 + k - 1
      BY <1>0, SlavesAre
  <2> HIDE DEF w
  <2> QED
      BY <1>0, <2>1
<1> HIDE DEF s, r, w
<1>4. s \o r \in Seq(Int) /\ Len(s \o r) = N
    BY <1>0, <1>1, <1>2
<1>5. \A k \in 1 .. N : (s \o r)[k] = k
  <2> SUFFICES ASSUME NEW k \in 1 .. N PROVE (s \o r)[k] = k
      OBVIOUS
  <2>1. CASE k <= b
    <3>1. (s \o r)[k] = s[k] /\ k \in 1 .. b
        BY <1>0, <1>1, <1>2, <2>1
    <3> QED
        BY <1>1, <3>1
  <2>2. CASE k > b
    <3>1. (s \o r)[k] = r[k - b] /\ k - b \in 1 .. N - b
        BY <1>0, <1>1, <1>2, <2>2
    <3> QED
      <4> DEFINE m == k - b
      <4>1. m \in 1 .. N - b /\ b + m = k /\ (s \o r)[k] = r[m]
          BY <1>0, <3>1
      <4> HIDE DEF m
      <4> QED
          BY <1>2, <4>1
  <2>3. k <= b \/ k > b
      BY <1>0
  <2> HIDE DEF s, r
  <2> QED
      BY <2>1, <2>2, <2>3
<1> DEFINE sr == s \o r
<1>6. sr \in Seq(Int) /\ Len(sr) = N /\ \A k \in 1 .. N : sr[k] = k
    BY <1>4, <1>5
<1> HIDE DEF sr
<1>7. sr = w
    BY <1>3, <1>6
<1> QED
    BY <1>7 DEF s, r, w, sr

LEMMA EmptyJoins ==
  ASSUME NEW a \in Int, NEW b \in Int, a <= b + 1
  PROVE  <<>> \o Slaves(a, b) = Slaves(a, b)
<1> DEFINE s == Slaves(a, b)
<1>1. s \in Seq(Int)
    BY SlavesAre
<1> HIDE DEF s
<1>2. <<>> \o s = s
    BY <1>1
<1> QED
    BY <1>2 DEF s

(* A frame counts the slaves it met, each once. *)
LEMMA FrameIs ==
  ASSUME NEW src, NEW a, NEW b
  PROVE  Frame(src, a, b).src = src /\ Frame(src, a, b).seen = Slaves(a, b)
BY DEF Frame

LEMMA FrameCounts ==
  ASSUME NEW src \in {"primary", "secondary"}, NEW a \in Int, NEW b \in Int, a <= b + 1
  PROVE  /\ Result(Frame(src, a, b)) = b - a + 1 /\ Result(Frame(src, a, b)) # NoFrame
         /\ Result(Frame(src, a, b)) = Len(Slaves(a, b))
         /\ \A j, k \in DOMAIN Slaves(a, b) : j < k => Slaves(a, b)[j] < Slaves(a, b)[k]
<1>1. Frame(src, a, b).src # "none"
    BY FrameIs
<1>2. Result(Frame(src, a, b)) = Len(Slaves(a, b)) /\ Len(Slaves(a, b)) = b - a + 1
  <2>1. Len(Slaves(a, b)) = b - a + 1
      BY SlavesAre
  <2> QED
      BY <1>1, <2>1, FrameIs DEF Result
<1>3. b - a + 1 # NoFrame
    BY DEF NoFrame
<1>4. ASSUME NEW j \in DOMAIN Slaves(a, b), NEW k \in DOMAIN Slaves(a, b), j < k
      PROVE  Slaves(a, b)[j] < Slaves(a, b)[k]
  <2>1. /\ j \in 1 .. b - a + 1 /\ k \in 1 .. b - a + 1
        /\ Slaves(a, b)[j] = a + j - 1 /\ Slaves(a, b)[k] = a + k - 1
      BY SlavesAre
  <2> QED
      BY <1>4, <2>1
<1> QED
    BY <1>2, <1>3, <1>4

LEMMA FixedFrames ==
  /\ SetupHeader.src = "primary" /\ SetupHeader.seen = <<>> /\ SetupHeader # NoRx
  /\ Dummy = [src |-> "secondary", seen |-> <<>>] /\ Dummy # NoRx
  /\ NoRx.src = "none" /\ NoRx.seen = <<>>
  /\ Result(NoRx) = NoFrame /\ Result(Dummy) = 0 /\ DOMAIN Dummy.seen = {}
<1>1. Dummy = [src |-> "secondary", seen |-> <<>>]
    BY DEF Dummy, SetupHeader
<1>2. Dummy.src = "secondary" /\ Dummy.seen = <<>> /\ Len(<<>>) = 0
    BY <1>1
<1> QED
    BY <1>1, <1>2 DEF SetupHeader, NoRx, Result
-----------------------------------------------------------------------------
(* Where the two frames of a transmission come out. *)
LEMMA SentFromPrimary ==
  ASSUME N \in Nat \ {0}, LineType
  PROVE  /\ brk = 0 => FromPrimary(SetupHeader).at = "lost"
         /\ brk = N + 1 => FromPrimary(SetupHeader) = [at |-> "secondary", frame |-> Frame("primary", 1, N)]
         /\ brk \in 1 .. N => FromPrimary(SetupHeader) = [at |-> "primary", frame |-> Frame("primary", 1, brk)]
<1>1. brk \in Int /\ N \in Int /\ N > 0 /\ brk \in 0 .. N + 1
    BY DEF LineType
<1>2. Executed(SetupHeader, Slaves(1, N)) = Frame("primary", 1, N)
    BY <1>1, EmptyJoins DEF Executed, SetupHeader, Frame
<1>3. Executed(SetupHeader, Slaves(1, brk)) = Frame("primary", 1, brk)
    BY <1>1, EmptyJoins DEF Executed, SetupHeader, Frame
<1>4. CASE brk = 0
    BY <1>1, <1>4 DEF FromPrimary
<1>5. CASE brk = N + 1
    BY <1>1, <1>2, <1>5 DEF FromPrimary
<1>6. CASE brk \in 1 .. N
    BY <1>1, <1>3, <1>6 DEF FromPrimary
<1> QED
    BY <1>1, <1>4, <1>5, <1>6

LEMMA SentFromSecondary ==
  ASSUME N \in Nat \ {0}, LineType
  PROVE  /\ brk = N => FromSecondary(Dummy).at = "lost"
         /\ brk = N + 1 => FromSecondary(Dummy) = [at |-> "primary", frame |-> Dummy]
         /\ brk \in 0 .. N - 1 =>
              FromSecondary(Dummy) = [at |-> "secondary", frame |-> Frame("secondary", brk + 1, N)]
<1>1. brk \in Int /\ N \in Int /\ N > 0 /\ brk \in 0 .. N + 1
    BY DEF LineType
<1>2. Executed(Dummy, Slaves(brk + 1, N)) = Frame("secondary", brk + 1, N)
    BY <1>1, EmptyJoins, FixedFrames DEF Executed, Frame
<1>3. CASE brk = N
    BY <1>1, <1>3 DEF FromSecondary
<1>4. CASE brk = N + 1
    BY <1>1, <1>4 DEF FromSecondary
<1>5. CASE brk \in 0 .. N - 1
    BY <1>1, <1>2, <1>5 DEF FromSecondary
<1> QED
    BY <1>1, <1>3, <1>4, <1>5

(* Each step keeps the invariant. *)
LEMMA SendBothStep ==
  ASSUME N \in Nat \ {0}, RedInv, SendBoth
  PROVE  RedInv'
<1>1. /\ brk \in Int /\ N > 0 /\ brk \in 0 .. N + 1 /\ LineType /\ brk' = brk
      /\ tx = SetupHeader /\ tx' = tx /\ step' = "wait"
    BY DEF RedInv, LineType, FirstInv, SendBoth
<1> PICK p \in {FromPrimary(SetupHeader), Lost}, s \in {FromSecondary(Dummy), Lost} :
       /\ prim' = Arrived("primary", p, s) /\ sec' = Arrived("secondary", p, s)
       /\ dropped' = (dropped \/ p # FromPrimary(SetupHeader) \/ s # FromSecondary(Dummy))
    BY <1>1 DEF SendBoth
<1>2. /\ prim' \in {NoRx, Primary} /\ sec' \in {NoRx, Secondary}
      /\ p = FromPrimary(SetupHeader) /\ s = FromSecondary(Dummy) => prim' = Primary /\ sec' = Secondary
  <2>1. CASE brk = 0
      BY <1>1, <2>1, SentFromPrimary, SentFromSecondary DEF Arrived, Lost, Primary, Secondary
  <2>2. CASE brk = N
      BY <1>1, <2>2, SentFromPrimary, SentFromSecondary DEF Arrived, Lost, Primary, Secondary
  <2>3. CASE brk = N + 1
      BY <1>1, <2>3, SentFromPrimary, SentFromSecondary DEF Arrived, Lost, Primary, Secondary
  <2>4. CASE brk \in 1 .. N - 1
      BY <1>1, <2>4, SentFromPrimary, SentFromSecondary DEF Arrived, Lost, Primary, Secondary
  <2> QED
      BY <1>1, <2>1, <2>2, <2>3, <2>4
<1>3. LineType'
    BY DEF RedInv, LineType, SendBoth
<1>4. Primary' = Primary /\ Secondary' = Secondary
    BY <1>1 DEF Primary, Secondary
<1> QED
    BY <1>1, <1>2, <1>3, <1>4 DEF RedInv, FirstInv, WaitInv, AgainInv, CutIsTransparent, Ended

(* A transmission that ends with what the primary buffer now holds. *)
LEMMA LeaveStep ==
  ASSUME N \in Nat \ {0}, RedInv, UNCHANGED <<brk, tx, retry, dropped>>, Leave(Result(prim')),
         prim' = NoRx => tx = SetupHeader /\ dropped,
         \/ prim' = NoRx \/ prim' = Dummy
         \/ \E a, b \in Int : a <= b + 1 /\ prim' = Frame("primary", a, b),
         ~dropped => prim' = Frame("primary", 1, N)
  PROVE  RedInv'
<1>1. LineType'
    BY DEF RedInv, LineType
<1>2. step' \in {"send", "finished"} /\ wkc' = Result(prim')
    BY DEF Leave
<1>3. prim' # NoRx => Result(prim') # NoFrame
  <2>1. Result(Dummy) # NoFrame
      BY FixedFrames DEF NoFrame
  <2> QED
      BY <2>1, FrameCounts
<1>4. FirstInv'
    BY <1>2, <1>3 DEF FirstInv, Leave
<1>5. CASE prim' = NoRx
    BY <1>1, <1>2, <1>4, <1>5, FixedFrames DEF RedInv, WaitInv, AgainInv, CutIsTransparent, Ended
<1>6. CASE prim' = Dummy
  <2>1. dropped
    <3>1. Frame("primary", 1, N).src = "primary" /\ Dummy.src = "secondary"
        BY FrameIs, FixedFrames
    <3> QED
        BY <1>6, <3>1
  <2>2. prim'.seen = <<>> /\ Result(prim') = Len(prim'.seen) /\ DOMAIN prim'.seen = {}
      BY <1>6, FixedFrames
  <2>3. CutIsTransparent'
      BY <1>2, <2>1, <2>2 DEF CutIsTransparent, Ended
  <2> QED
      BY <1>1, <1>2, <1>4, <2>3 DEF RedInv, WaitInv, AgainInv
<1>7. CASE \E a, b \in Int : a <= b + 1 /\ prim' = Frame("primary", a, b)
  <2> PICK a \in Int, b \in Int : a <= b + 1 /\ prim' = Frame("primary", a, b)
      BY <1>7
  <2>1. /\ prim'.seen = Slaves(a, b) /\ Result(prim') = Len(prim'.seen)
        /\ \A j, k \in DOMAIN prim'.seen : j < k => prim'.seen[j] < prim'.seen[k]
    <3>1. prim'.seen = Slaves(a, b)
        BY FrameIs
    <3>2. /\ Result(Frame("primary", a, b)) = Len(Slaves(a, b))
          /\ \A j, k \in DOMAIN Slaves(a, b) : j < k => Slaves(a, b)[j] < Slaves(a, b)[k]
      <4>1. "primary" \in {"primary", "secondary"}
          OBVIOUS
      <4> QED
          BY <4>1, FrameCounts
    <3> QED
        BY <3>1, <3>2
  <2>2. ~dropped => Result(prim') = N /\ prim'.seen = Slaves(1, N)
    <3>0. "primary" \in {"primary", "secondary"} /\ 1 \in Int /\ N \in Int /\ 1 <= N + 1
        OBVIOUS
    <3>1. Result(Frame("primary", 1, N)) = N - 1 + 1
        BY <3>0, FrameCounts
    <3>2. N - 1 + 1 = N /\ Frame("primary", 1, N).seen = Slaves(1, N)
        BY FrameIs
    <3> QED
        BY <3>1, <3>2
  <2>3. CutIsTransparent'
      BY <1>2, <2>1, <2>2 DEF CutIsTransparent, Ended, Slaves
  <2> QED
      BY <1>1, <1>2, <1>4, <2>3 DEF RedInv, WaitInv, AgainInv
<1> QED
    BY <1>5, <1>6, <1>7

LEMMA CrossedStep ==
  ASSUME N \in Nat \ {0}, RedInv, Crossed
  PROVE  RedInv'
<1>1. /\ step = "wait" /\ prim.src = "secondary" /\ sec.src = "primary" /\ prim' = sec
      /\ UNCHANGED <<brk, tx, retry, dropped>> /\ Leave(Result(prim')) /\ tx = SetupHeader
      /\ prim \in {NoRx, Primary} /\ sec \in {NoRx, Secondary} /\ brk \in 0 .. N + 1
      /\ N \in Int /\ brk \in Int /\ N > 0
    BY DEF Crossed, RedInv, WaitInv, FirstInv, LineType
<1>2. brk = N + 1
    BY <1>1, FixedFrames, FrameIs DEF Primary
<1>3. prim' = Frame("primary", 1, N) /\ prim' # NoRx
    BY <1>1, <1>2, FixedFrames, FrameIs DEF Secondary
<1> QED
    BY <1>1, <1>3, LeaveStep

LEMMA TakePrimaryStep ==
  ASSUME N \in Nat \ {0}, RedInv, TakePrimary
  PROVE  RedInv'
<1>1. /\ step = "wait" /\ prim' = prim
      /\ UNCHANGED <<brk, tx, retry, dropped>> /\ Leave(Result(prim')) /\ tx = SetupHeader
      /\ prim \in {NoRx, Primary} /\ sec \in {NoRx, Secondary} /\ brk \in 0 .. N + 1
      /\ ~dropped => prim = Primary /\ sec = Secondary
      /\ N \in Int /\ brk \in Int /\ N > 0
    BY DEF TakePrimary, RedInv, WaitInv, FirstInv, LineType
<1>2. ASSUME ~dropped PROVE prim = Frame("primary", 1, N)
  <2>1. brk # N + 1
    <3> SUFFICES ASSUME brk = N + 1 PROVE FALSE
        OBVIOUS
    <3>1. prim = Dummy /\ sec = Frame("primary", 1, N)
        BY <1>1, <1>2 DEF Primary, Secondary
    <3> QED
        BY <1>1, <3>1, FixedFrames, FrameIs DEF TakePrimary
  <2>2. brk = N
    <3> SUFFICES ASSUME brk \in 0 .. N - 1 PROVE FALSE
        BY <1>1, <2>1
    <3>1. sec = Frame("secondary", brk + 1, N) /\ (prim = NoRx \/ prim = Frame("primary", 1, brk))
        BY <1>1, <1>2 DEF Primary, Secondary
    <3>2. sec.src = "secondary" /\ prim.src \in {"none", "primary"}
        BY <1>1, <3>1, FixedFrames, FrameIs
    <3> QED
        BY <3>2 DEF TakePrimary
  <2> QED
      BY <1>1, <1>2, <2>2 DEF Primary
<1>3. prim = NoRx \/ prim = Dummy \/ \E a, b \in Int : a <= b + 1 /\ prim = Frame("primary", a, b)
  <2>1. brk \notin {0, N + 1} => Primary = Frame("primary", 1, brk) /\ 1 <= brk + 1
      BY <1>1 DEF Primary
  <2>2. brk = 0 => Primary = NoRx
      BY DEF Primary
  <2>3. brk = N + 1 => Primary = Dummy
      BY <1>1 DEF Primary
  <2> QED
      BY <1>1, <2>1, <2>2, <2>3
<1>4. prim = NoRx => dropped
    BY <1>1, <1>2, FixedFrames, FrameIs
<1> QED
    BY <1>1, <1>2, <1>3, <1>4, LeaveStep

LEMMA RejoinedStep ==
  ASSUME N \in Nat \ {0}, RedInv, Rejoined
  PROVE  RedInv'
<1>1. /\ step = "rewait" /\ prim' = (IF sec.src = "none" THEN prim ELSE sec)
      /\ UNCHANGED <<brk, tx, retry, dropped>> /\ Leave(Result(prim'))
      /\ prim \in {NoRx, Primary} /\ sec \in {NoRx, Frame("primary", Begun, N)} /\ brk \in 0 .. N - 1
      /\ ~dropped => prim = Primary /\ sec = Frame("primary", 1, N)
      /\ prim = NoRx => tx = SetupHeader
      /\ N \in Int /\ brk \in Int /\ N > 0 /\ Begun \in Int
    BY DEF Rejoined, RedInv, AgainInv, LineType, Begun
<1>2. prim = NoRx \/ prim = Frame("primary", 1, brk)
    BY <1>1 DEF Primary
<1>3. (sec = NoRx /\ prim' = prim) \/ (sec = Frame("primary", Begun, N) /\ prim' = sec)
    BY <1>1, FixedFrames, FrameIs
<1>4. ~dropped => prim' = Frame("primary", 1, N)
    BY <1>1, <1>3, FixedFrames, FrameIs
<1>5. prim' = NoRx => prim = NoRx /\ dropped
    BY <1>1, <1>3, <1>4, FixedFrames, FrameIs
<1>6. prim' = NoRx \/ \E a, b \in Int : a <= b + 1 /\ prim' = Frame("primary", a, b)
  <2>1. Begun <= N + 1 /\ 1 <= brk + 1 /\ 1 \in Int
      BY <1>1 DEF Begun
  <2> QED
      BY <1>1, <1>2, <1>3, <2>1
<1> QED
    BY <1>1, <1>4, <1>5, <1>6, LeaveStep

LEMMA SendAgainStep ==
  ASSUME N \in Nat \ {0}, RedInv, SendAgain
  PROVE  RedInv'
<1>1. /\ step = "wait" /\ sec.src = "secondary" /\ tx = SetupHeader /\ step' = "rewait"
      /\ UNCHANGED <<brk, prim, retry, wkc>>
      /\ prim \in {NoRx, Primary} /\ sec \in {NoRx, Secondary} /\ brk \in 0 .. N + 1
      /\ ~dropped => prim = Primary /\ sec = Secondary
      /\ N \in Int /\ brk \in Int /\ N > 0 /\ LineType
    BY DEF SendAgain, RedInv, WaitInv, FirstInv, LineType
<1>2. brk \in 0 .. N - 1
  <2>1. sec # NoRx /\ brk # N /\ brk # N + 1
      BY <1>1, FixedFrames, FrameIs DEF Secondary
  <2> QED
      BY <1>1, <2>1
<1>3. prim = NoRx \/ (prim = Frame("primary", 1, brk) /\ brk # 0)
    BY <1>1, <1>2, FixedFrames DEF Primary
<1>b. dropped \in BOOLEAN
    BY <1>1 DEF LineType
<1>4. Executed(tx', Slaves(brk + 1, N)) = Frame("primary", Begun, N)
  <2>1. CASE prim = NoRx
    <3>1. tx' = SetupHeader
        BY <1>1, <2>1, FixedFrames DEF SendAgain
    <3> QED
        BY <1>1, <2>1, <3>1, EmptyJoins DEF Executed, SetupHeader, Frame, Begun
  <2>2. CASE prim = Frame("primary", 1, brk)
    <3>1. tx' = [src |-> "primary", seen |-> Slaves(1, brk)]
        BY <1>1, <2>2, FixedFrames, FrameIs DEF SendAgain, SetupHeader, Frame
    <3>2. Begun = 1
        BY <1>1, <2>2, FixedFrames, FrameIs DEF Begun
    <3> QED
      <4>1. Slaves(1, brk) \o Slaves(brk + 1, N) = Slaves(1, N)
          BY <1>1, <1>2, JoinSlaves
      <4> QED
          BY <3>1, <3>2, <4>1 DEF Executed, Frame
  <2> QED
      BY <1>3, <2>1, <2>2
<1>5. FromSecondary(tx') = [at |-> "secondary", frame |-> Frame("primary", Begun, N)]
      /\ FromSecondary(tx)' = FromSecondary(tx')
    BY <1>1, <1>2, <1>4 DEF FromSecondary
<1> PICK s \in {FromSecondary(tx'), Lost} :
       /\ sec' = Arrived("secondary", s, Lost)
       /\ dropped' = (dropped \/ s # FromSecondary(tx'))
    BY DEF SendAgain
<1>6. sec' \in {NoRx, Frame("primary", Begun, N)} /\ (~dropped' => sec' = Frame("primary", Begun, N) /\ ~dropped)
  <2>1. CASE s = Lost
    <3>1. sec' = NoRx /\ s # FromSecondary(tx')
        BY <1>5, <2>1 DEF Arrived, Lost
    <3>2. dropped' = TRUE
        BY <3>1
    <3> QED
        BY <3>1, <3>2
  <2>2. CASE s = FromSecondary(tx')
    <3>1. sec' = Frame("primary", Begun, N)
        BY <1>5, <2>2 DEF Arrived
    <3>2. dropped' = dropped
        BY <1>b, <2>2
    <3> QED
        BY <3>1, <3>2
  <2> QED
      BY <2>1, <2>2
<1>7. ~dropped' => prim = Primary /\ Begun = 1
  <2>1. brk = 0 => Begun = 1
      BY <1>1 DEF Begun
  <2>2. ~dropped /\ brk # 0 => prim # NoRx
      BY <1>1, <1>2, FixedFrames, FrameIs DEF Primary
  <2> QED
      BY <1>1, <1>6, <2>1, <2>2 DEF Begun
<1>8. prim = NoRx => tx' = SetupHeader
    BY <1>1, FixedFrames DEF SendAgain
<1>9. Begun' = Begun /\ Primary' = Primary /\ Frame("primary", Begun, N)' = Frame("primary", Begun, N)
      /\ LineType'
    BY <1>1 DEF Begun, Primary, LineType, Frame, Slaves
<1>10. AgainInv'
    BY <1>1, <1>2, <1>6, <1>7, <1>8, <1>9 DEF AgainInv
<1> QED
    BY <1>1, <1>9, <1>10 DEF RedInv, FirstInv, WaitInv, CutIsTransparent, Ended

-----------------------------------------------------------------------------
(* Wherever a line of any length is cut, and whatever frames are lost, the *)
(* caller is answered with slaves that executed the frame, each once and   *)
(* in order, and with all of them when no frame is lost.                   *)
THEOREM CutCorrect == RedSpec => []CutIsTransparent
<1>0. N \in Nat \ {0}
    BY LineAssumption DEF LineAssumption
<1>1. RedInit => RedInv
  <2>1. 0 \in Nat /\ FALSE \in BOOLEAN
      OBVIOUS
  <2>2. RedInit => LineType
      BY <1>0, <2>1 DEF RedInit, LineType
  <2> QED
    BY <1>0, <2>2 DEF RedInit, RedInv, FirstInv, WaitInv, AgainInv, CutIsTransparent, Ended
<1>2. RedInv /\ [RedNext]_redVars => RedInv'
  <2> SUFFICES ASSUME RedInv, [RedNext]_redVars PROVE RedInv'
      OBVIOUS
  <2>1. CASE UNCHANGED redVars
      BY <2>1 DEF redVars, RedInv, LineType, FirstInv, WaitInv, AgainInv, CutIsTransparent, Ended,
                  Primary, Secondary, Begun
  <2> QED
      BY <1>0, <2>1, SendBothStep, CrossedStep, SendAgainStep, RejoinedStep, TakePrimaryStep DEF RedNext
<1>3. RedInv => CutIsTransparent
    BY DEF RedInv
<1> QED
    BY <1>1, <1>2, <1>3, PTL DEF RedSpec
=============================================================================
