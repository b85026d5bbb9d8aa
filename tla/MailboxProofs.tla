---------------------------- MODULE MailboxProofs ----------------------------
(***************************************************************************)
(* The mailbox transport for any number of slaves, callers, buffers,       *)
(* requests, losses and alarms: first the pool and the queue, then the     *)
(* order of the messages, then the requests that arrive.                   *)
(***************************************************************************)
EXTENDS MailboxProperties, FiniteSetTheorems, WellFoundedInduction, TLAPS

-----------------------------------------------------------------------------
(* Types. *)
Entry == [state : {"none", "req", "fail", "done"}, slave : Slaves \cup {Null},
          buf : Bufs \cup {Null}, remove : BOOLEAN]
Tickets == Places \cup {-1}

PoolType ==
  /\ mbxpool \in SUBSET Bufs /\ DOMAIN mbx = Bufs
  /\ own \in [Callers -> Bufs \cup {Null}] /\ coembxin \in [Slaves -> Bufs \cup {Null}]
Waiting == {"poll", "expire"}
Active == {"rest", "status", "read", "statex", "toggle", "ack", "full", "drop", "ask", "write",
           "empty", "retry", "slot", "grab", "clear", "add"}
CallType ==
  /\ pc \in [Callers -> Active \cup Waiting]
  /\ DOMAIN asked = Callers /\ ticket \in [Callers -> Tickets]
QueueType ==
  /\ head \in Places /\ tail \in Places /\ count \in Nat /\ count <= EC_MBXPOOLSIZE
  /\ place \in [Places -> Entry] /\ mbxticket \in [Places -> Tickets]
HandlerType ==
  /\ hpc \in {"idle", "in", "out", "pick", "write", "written", "rotate", "remove"}
  /\ loc \in Places /\ found \in Entry /\ listleft \in Nat
MailboxType == PoolType /\ CallType /\ QueueType /\ HandlerType

(***************************************************************************)
(* The parts of the inductive invariant.  Every buffer has one owner; a    *)
(* caller that is to get a buffer has none yet.                            *)
(***************************************************************************)
OneOf(b) ==
  /\ \A c, d \in Callers : own[c] = b /\ own[d] = b => c = d
  /\ \A i, j \in Places : place[i].buf = b /\ place[j].buf = b => i = j
  /\ \A s, t \in Slaves : coembxin[s] = b /\ coembxin[t] = b => s = t
  /\ b \in mbxpool => /\ \A c \in Callers : own[c] # b
                      /\ \A i \in Places : place[i].buf # b
                      /\ \A s \in Slaves : coembxin[s] # b
  /\ \A c \in Callers, i \in Places : own[c] = b => place[i].buf # b
  /\ \A c \in Callers, s \in Slaves : own[c] = b => coembxin[s] # b
  /\ \A i \in Places, s \in Slaves : place[i].buf = b => coembxin[s] # b
SomeOf(b) ==
  \/ b \in mbxpool
  \/ \E c \in Callers : own[c] = b
  \/ \E i \in Places : place[i].buf = b
  \/ \E s \in Slaves : coembxin[s] = b
OwnerInv == \A b \in Bufs : OneOf(b) /\ SomeOf(b)

EmptyAt == {"rest", "ask", "status", "slot", "grab", "clear", "poll", "expire"}
Asked(c, b) == b # Null => mbx[b].by = c /\ mbx[b].id = asked[c]
CallInv ==
  \A c \in Callers :
    /\ pc[c] \in EmptyAt => own[c] = Null
    /\ pc[c] = "add" => Asked(c, own[c])

(* The ring: `count` places from the tail on are in use, the others empty. *)
InUse(i) ==
  IF tail + count <= EC_MBXPOOLSIZE THEN tail <= i /\ i < tail + count
  ELSE tail <= i \/ i < tail + count - EC_MBXPOOLSIZE
RingInv ==
  /\ head = IF tail + count < EC_MBXPOOLSIZE THEN tail + count ELSE tail + count - EC_MBXPOOLSIZE
  /\ \A i \in Places : ~InUse(i) => place[i] = Nowhere

(* A ticket that is given out stands for a place in use that nobody has    *)
(* given back, no two for the same one, and a caller that waits holds one  *)
(* for its own request.                                                    *)
Out(t) == mbxticket[t] # -1
Waits(c) == pc[c] \in Waiting
TicketInv ==
  /\ \A t \in Places : Out(t) => InUse(mbxticket[t]) /\ ~place[mbxticket[t]].remove
  /\ \A t, u \in Places : Out(t) /\ Out(u) /\ mbxticket[t] = mbxticket[u] => t = u
HolderInv ==
  \A c \in Callers :
    IF Waits(c)
    THEN /\ ticket[c] # -1 /\ Out(ticket[c])
         /\ place[mbxticket[ticket[c]]].slave = Target[c]
         /\ Asked(c, place[mbxticket[ticket[c]]].buf)
         /\ \A d \in Callers : ticket[d] = ticket[c] => d = c
    ELSE ticket[c] = -1

(* The handler works on the tail, or on the place the tail was at before   *)
(* the rotation, and the queue has the entries it has still to look at.    *)
After(i) == IF i + 1 = EC_MBXPOOLSIZE THEN 0 ELSE i + 1
HandlerInv ==
  /\ hpc \in {"write", "written", "rotate"} => loc = tail /\ listleft + 1 <= count
  /\ hpc \in {"write", "written"} => found.buf = place[loc].buf
  /\ hpc = "remove" => (tail = loc \/ tail = After(loc)) /\ listleft + 1 <= count
  /\ hpc = "pick" => listleft <= count

(* A caller that empties an in-slot does so alone, and the handler leaves a *)
(* full slot as it is.                                                     *)
SlotInv ==
  /\ DOMAIN pc = Callers /\ DOMAIN coembxin = Slaves /\ DOMAIN inptr = Callers
  /\ \A c \in Callers : pc[c] # "rest" => c \in scene.callers
  /\ \A c \in Callers : pc[c] \in {"grab", "clear"} =>
       Cyclic(Target[c]) /\ coembxin[Target[c]] # Null
  /\ \A c \in Callers : pc[c] = "clear" => inptr[c] = coembxin[Target[c]]

QueueNotFull == count < EC_MBXPOOLSIZE

MailboxInv ==
  MailboxType /\ OwnerInv /\ CallInv /\ RingInv /\ TicketInv /\ HolderInv /\ HandlerInv

-----------------------------------------------------------------------------
(* The least element of a set of naturals, and what ecx_getmbx takes. *)
LEMMA LeastExists ==
  ASSUME NEW S \in SUBSET Nat, S # {}
  PROVE  \E x \in S : \A y \in S : x <= y
<1>1. PICK x \in S : \A y \in S : ~(<<y, x>> \in OpToRel(<, Nat))
    BY NatLessThanWellFounded, WFMin
<1>2. \A y \in S : ~(y < x)
    BY <1>1 DEF OpToRel
<1> QED
    BY <1>2

LEMMA FreeIsInPool ==
  ASSUME PoolType, mbxpool # {}
  PROVE  Free \in mbxpool /\ Free \in Bufs /\ Free # Null
<1>1. mbxpool \in SUBSET Nat
    BY MailboxAssumption DEF PoolType, Bufs
<1>2. \E x \in mbxpool : \A y \in mbxpool : x <= y
    BY <1>1, LeastExists
<1>3. Free \in mbxpool
    BY <1>2 DEF Free
<1> QED
    BY <1>3, MailboxAssumption DEF PoolType, Bufs

(* A buffer given back, with Null for none. *)
LEMMA DropIs ==
  ASSUME PoolType, NEW b \in Bufs \cup {Null}, Drop(b)
  PROVE  /\ b = Null => UNCHANGED <<mbxpool, mbx>>
         /\ b \in Bufs => mbxpool' = mbxpool \cup {b} /\ mbx' = [mbx EXCEPT ![b] = Null]
BY MailboxAssumption DEF PoolType, Drop, Bufs

(* The first place after another one in the ring. *)
LEMMA Next1Is ==
  ASSUME NEW i \in Places
  PROVE  Next1(i) = After(i) /\ Next1(i) \in Places
BY MailboxAssumption DEF Places, Next1, After

(***************************************************************************)
(* How a buffer changes hands, once for each way of doing so.              *)
(***************************************************************************)

(* A caller gives its buffer back (ecx_dropmbx). *)
LEMMA GiveBufferBack ==
  ASSUME PoolType, OwnerInv, NEW c \in Callers,
         Drop(own[c]), own' = [own EXCEPT ![c] = Null],
         UNCHANGED <<place, coembxin>>
  PROVE  OwnerInv' /\ PoolType'
<1>1. own[c] \in Bufs \cup {Null} /\ Null \notin Bufs
    BY MailboxAssumption DEF PoolType, Bufs
<1>2. mbxpool' = mbxpool \cup ({own[c]} \cap Bufs) /\ DOMAIN mbx' = Bufs
    BY <1>1 DEF Drop, PoolType
<1>3. PoolType'
    BY <1>1, <1>2 DEF PoolType
<1>4. /\ own'[c] = Null
      /\ \A d \in Callers : d # c => own'[d] = own[d]
    BY DEF PoolType
<1>5. ASSUME NEW b \in Bufs PROVE OneOf(b)'
    BY <1>1, <1>2, <1>4 DEF OwnerInv, OneOf
<1>6. ASSUME NEW b \in Bufs PROVE SomeOf(b)'
  <2>1. SomeOf(b)
      BY DEF OwnerInv
  <2>2. CASE own[c] = b
      BY <1>2, <2>2 DEF SomeOf
  <2>3. CASE own[c] # b
      BY <1>2, <1>4, <2>1, <2>3 DEF SomeOf
  <2> QED
      BY <2>2, <2>3
<1> QED
    BY <1>3, <1>5, <1>6 DEF OwnerInv

(* A caller without a buffer gets one from the pool (ecx_getmbx). *)
LEMMA GetBuffer ==
  ASSUME PoolType, OwnerInv, NEW c \in Callers, own[c] = Null, mbxpool # {},
         Take, own' = [own EXCEPT ![c] = Free], DOMAIN mbx' = Bufs,
         UNCHANGED <<place, coembxin>>
  PROVE  OwnerInv' /\ PoolType'
<1> PICK f \in Bufs : f = Free
    BY FreeIsInPool
<1>1. f \in mbxpool /\ f # Null /\ Null \notin Bufs /\ mbxpool' = mbxpool \ {f}
    BY FreeIsInPool, MailboxAssumption DEF Bufs, Take
<1>2. PoolType'
    BY <1>1 DEF PoolType
<1>3. own'[c] = f /\ \A d \in Callers : d # c => own'[d] = own[d]
    BY DEF PoolType
<1>4. ASSUME NEW b \in Bufs PROVE OneOf(b)'
  <2>1. CASE b = f
      BY <1>1, <1>3, <2>1 DEF OwnerInv, OneOf
  <2>2. CASE b # f
      BY <1>1, <1>3, <2>2 DEF OwnerInv, OneOf
  <2> QED
      BY <2>1, <2>2
<1>5. ASSUME NEW b \in Bufs PROVE SomeOf(b)'
    BY <1>1, <1>3 DEF OwnerInv, SomeOf
<1> QED
    BY <1>2, <1>4, <1>5 DEF OwnerInv

(* A caller's buffer goes into an empty place (ecx_mbxaddqueue). *)
LEMMA BufferToPlace ==
  ASSUME PoolType, OwnerInv, QueueType, NEW c \in Callers, NEW i \in Places,
         place[i].buf = Null, NEW e \in Entry, e.buf = own[c],
         place' = [place EXCEPT ![i] = e], own' = [own EXCEPT ![c] = Null],
         UNCHANGED <<mbxpool, mbx, coembxin>>
  PROVE  OwnerInv' /\ PoolType'
<1>1. own[c] \in Bufs \cup {Null} /\ Null \notin Bufs
    BY MailboxAssumption DEF PoolType, Bufs
<1>2. PoolType'
    BY <1>1 DEF PoolType
<1>3. /\ own'[c] = Null /\ \A d \in Callers : d # c => own'[d] = own[d]
      /\ place'[i].buf = own[c] /\ \A j \in Places : j # i => place'[j] = place[j]
    BY DEF PoolType, QueueType
<1>4. ASSUME NEW b \in Bufs PROVE OneOf(b)'
  <2>1. CASE b = own[c]
      BY <1>1, <1>3, <2>1 DEF OwnerInv, OneOf
  <2>2. CASE b # own[c]
      BY <1>1, <1>3, <2>2 DEF OwnerInv, OneOf
  <2> QED
      BY <2>1, <2>2
<1>5. ASSUME NEW b \in Bufs PROVE SomeOf(b)'
    BY <1>1, <1>3 DEF OwnerInv, SomeOf
<1> QED
    BY <1>2, <1>4, <1>5 DEF OwnerInv

(* A caller without a buffer takes the answer out of the slave's in-slot. *)
LEMMA BufferFromSlot ==
  ASSUME PoolType, OwnerInv, NEW c \in Callers, NEW s \in Slaves, own[c] = Null,
         own' = [own EXCEPT ![c] = coembxin[s]], coembxin' = [coembxin EXCEPT ![s] = Null],
         UNCHANGED <<mbxpool, mbx, place>>
  PROVE  OwnerInv' /\ PoolType'
<1>1. coembxin[s] \in Bufs \cup {Null} /\ Null \notin Bufs
    BY MailboxAssumption DEF PoolType, Bufs
<1>2. PoolType'
    BY <1>1 DEF PoolType
<1>3. /\ own'[c] = coembxin[s] /\ \A d \in Callers : d # c => own'[d] = own[d]
      /\ coembxin'[s] = Null /\ \A t \in Slaves : t # s => coembxin'[t] = coembxin[t]
    BY DEF PoolType
<1>4. ASSUME NEW b \in Bufs PROVE OneOf(b)'
  <2>1. CASE b = coembxin[s]
      BY <1>1, <1>3, <2>1 DEF OwnerInv, OneOf
  <2>2. CASE b # coembxin[s]
      BY <1>1, <1>3, <2>2 DEF OwnerInv, OneOf
  <2> QED
      BY <2>1, <2>2
<1>5. ASSUME NEW b \in Bufs PROVE SomeOf(b)'
    BY <1>1, <1>3 DEF OwnerInv, SomeOf
<1> QED
    BY <1>2, <1>4, <1>5 DEF OwnerInv

(* The handler reads an answer into a free buffer, for an empty in-slot. *)
LEMMA BufferToSlot ==
  ASSUME PoolType, OwnerInv, NEW s \in Slaves, coembxin[s] = Null, mbxpool # {},
         Take, coembxin' = [coembxin EXCEPT ![s] = Free],
         UNCHANGED <<mbx, own, place>>
  PROVE  OwnerInv' /\ PoolType'
<1> PICK f \in Bufs : f = Free
    BY FreeIsInPool
<1>1. f \in mbxpool /\ f # Null /\ Null \notin Bufs /\ mbxpool' = mbxpool \ {f}
    BY FreeIsInPool, MailboxAssumption DEF Bufs, Take
<1>2. PoolType'
    BY <1>1 DEF PoolType
<1>3. coembxin'[s] = f /\ \A t \in Slaves : t # s => coembxin'[t] = coembxin[t]
    BY DEF PoolType
<1>4. ASSUME NEW b \in Bufs PROVE OneOf(b)'
  <2>1. CASE b = f
      BY <1>1, <1>3, <2>1 DEF OwnerInv, OneOf
  <2>2. CASE b # f
      BY <1>1, <1>3, <2>2 DEF OwnerInv, OneOf
  <2> QED
      BY <2>1, <2>2
<1>5. ASSUME NEW b \in Bufs PROVE SomeOf(b)'
    BY <1>1, <1>3 DEF OwnerInv, SomeOf
<1> QED
    BY <1>2, <1>4, <1>5 DEF OwnerInv

(* The buffer of an entry is given back. *)
LEMMA BufferFromPlace ==
  ASSUME PoolType, OwnerInv, QueueType, NEW i \in Places, NEW e \in Entry, e.buf = Null,
         Drop(place[i].buf), place' = [place EXCEPT ![i] = e],
         UNCHANGED <<own, coembxin>>
  PROVE  OwnerInv' /\ PoolType'
<1> PICK p \in Bufs \cup {Null} : p = place[i].buf
    BY DEF QueueType, Entry
<1>1. Null \notin Bufs
    BY MailboxAssumption DEF Bufs
<1>2. mbxpool' = mbxpool \cup ({p} \cap Bufs) /\ DOMAIN mbx' = Bufs
    BY DEF Drop, PoolType
<1>3. PoolType'
    BY <1>2 DEF PoolType
<1>4. place'[i].buf = Null /\ \A j \in Places : j # i => place'[j] = place[j]
    BY DEF QueueType
<1>5. ASSUME NEW b \in Bufs PROVE OneOf(b)'
  <2>1. CASE b = p
      BY <1>1, <1>2, <1>4, <2>1 DEF OwnerInv, OneOf
  <2>2. CASE b # p
      BY <1>1, <1>2, <1>4, <2>2 DEF OwnerInv, OneOf
  <2> QED
      BY <2>1, <2>2
<1>6. ASSUME NEW b \in Bufs PROVE SomeOf(b)'
  <2>1. SomeOf(b)
      BY DEF OwnerInv
  <2>2. CASE p = b
      BY <1>2, <2>2 DEF SomeOf
  <2>3. CASE p # b
      BY <1>2, <1>4, <2>1, <2>3 DEF SomeOf
  <2> QED
      BY <2>2, <2>3
<1> QED
    BY <1>3, <1>5, <1>6 DEF OwnerInv

(* An entry is carried to an empty place (ecx_mbxrotatequeue). *)
LEMMA BufferCarried ==
  ASSUME PoolType, OwnerInv, QueueType, NEW i \in Places, NEW j \in Places, i # j,
         place[j].buf = Null, Nowhere.buf = Null,
         place' = [place EXCEPT ![i] = Nowhere, ![j] = place[i]],
         UNCHANGED <<mbxpool, mbx, own, coembxin>>
  PROVE  OwnerInv' /\ PoolType'
<1>1. Null \notin Bufs
    BY MailboxAssumption DEF Bufs
<1>2. PoolType'
    BY DEF PoolType
<1>3. /\ place'[i].buf = Null /\ place'[j].buf = place[i].buf
      /\ \A k \in Places : k # i /\ k # j => place'[k] = place[k]
    BY DEF QueueType
<1>4. ASSUME NEW b \in Bufs, place[i].buf = b PROVE OneOf(b)' /\ SomeOf(b)'
  <2>1. OneOf(b) /\ \A k \in Places : place[k].buf = b <=> k = i
      BY <1>4 DEF OwnerInv, OneOf
  <2>2. \A k \in Places : place'[k].buf = b <=> k = j
      BY <1>1, <1>3, <1>4, <2>1
  <2> QED
      BY <1>4, <2>1, <2>2 DEF OneOf, SomeOf
<1>5. ASSUME NEW b \in Bufs, place[i].buf # b PROVE OneOf(b)' /\ SomeOf(b)'
  <2>1. \A k \in Places : place'[k].buf = b <=> place[k].buf = b
      BY <1>1, <1>3, <1>5
  <2>2. OneOf(b) /\ SomeOf(b)
      BY DEF OwnerInv
  <2>3. OneOf(b)'
      BY <2>1, <2>2 DEF OneOf
  <2>4. SomeOf(b)'
      BY <2>1, <2>2 DEF SomeOf
  <2> QED
      BY <2>3, <2>4
<1> QED
    BY <1>2, <1>4, <1>5 DEF OwnerInv

(* No buffer changes hands. *)
LEMMA BuffersStay ==
  ASSUME PoolType, OwnerInv, UNCHANGED <<mbxpool, mbx, own, coembxin>>,
         \A i \in Places : place'[i].buf = place[i].buf
  PROVE  OwnerInv' /\ PoolType'
BY DEF OwnerInv, OneOf, SomeOf, PoolType

(***************************************************************************)
(* The steps of the queue.  Each keeps the ring, the tickets and what the  *)
(* handler has in hand.                                                    *)
(***************************************************************************)
QueueInv == QueueType /\ HandlerType /\ RingInv /\ TicketInv /\ HandlerInv

(* Pigeonholes: while a place is free, a ticket is free. *)
LEMMA TicketIsFree ==
  ASSUME QueueType, RingInv, TicketInv, QueueNotFull
  PROVE  FreeTicket \in Places /\ mbxticket[FreeTicket] = -1
<1>0. EC_MBXPOOLSIZE \in Nat /\ EC_MBXPOOLSIZE # 0
    BY MailboxAssumption
<1>1. head \in Places /\ ~InUse(head) /\ Places \in SUBSET Nat
    BY <1>0 DEF RingInv, QueueType, InUse, QueueNotFull, Places
<1>2. ASSUME \A t \in Places : mbxticket[t] # -1 PROVE FALSE
  <2> DEFINE S == Places \ {head}
  <2>1. ASSUME NEW t \in Places PROVE mbxticket[t] \in S
    <3>1. mbxticket[t] \in Places
        BY <1>2 DEF QueueType, Tickets
    <3>2. InUse(mbxticket[t])
        BY <1>2 DEF TicketInv, Out
    <3> QED
        BY <1>1, <3>1, <3>2
  <2>2. mbxticket \in Injection(Places, S)
      BY <1>2, <2>1 DEF Injection, IsInjective, QueueType, TicketInv, Out
  <2>3. IsFiniteSet(Places) /\ Cardinality(Places) \in Nat
      BY <1>0, FS_Interval, FS_CardinalityType DEF Places
  <2>4. IsFiniteSet(S) /\ Cardinality(S) = Cardinality(Places) - 1
      BY <1>1, <2>3, FS_RemoveElement
  <2>5. Cardinality(Places) <= Cardinality(S)
      BY <2>2, <2>3, <2>4, FS_Injection
  <2> HIDE DEF S
  <2> QED
      BY <2>3, <2>4, <2>5
<1> DEFINE F == {t \in Places : mbxticket[t] = -1}
<1>3. F # {} /\ F \in SUBSET Nat
    BY <1>1, <1>2
<1>4. PICK t \in F : \A u \in F : t <= u
    BY <1>3, LeastExists
<1>5. \A u \in 0 .. t - 1 : u \in Places /\ u \notin F
    BY <1>0, <1>4 DEF Places
<1>6. t \in Places /\ mbxticket[t] < 0 /\ \A u \in 0 .. t - 1 : mbxticket[u] >= 0
    BY <1>0, <1>4, <1>5 DEF QueueType, Tickets, Places
<1>7. FreeTicket \in Places /\ mbxticket[FreeTicket] < 0
    BY <1>6 DEF FreeTicket
<1> QED
    BY <1>0, <1>7 DEF QueueType, Tickets, Places

(* A place is free: the head of the ring, which the handler is not at. *)
LEMMA HeadIsFree ==
  ASSUME QueueInv, QueueNotFull
  PROVE  /\ ~InUse(head) /\ place[head] = Nowhere
         /\ hpc \in {"write", "written", "rotate"} => head # loc
BY MailboxAssumption DEF QueueInv, RingInv, QueueType, HandlerType, HandlerInv, InUse,
   QueueNotFull, Places

(* ecx_mbxaddqueue gives the entry the head of the ring and a free ticket. *)
LEMMA AddKeepsQueue ==
  ASSUME QueueInv, QueueNotFull, NEW t \in Places, mbxticket[t] = -1, NEW e \in Entry,
         ~e.remove, mbxticket' = [mbxticket EXCEPT ![t] = head],
         place' = [place EXCEPT ![head] = e], head' = Next1(head), count' = count + 1,
         UNCHANGED <<tail, hpc, loc, found, listleft>>
  PROVE  QueueInv'
<1>0. EC_MBXPOOLSIZE \in Nat /\ EC_MBXPOOLSIZE # 0 /\ Places = 0 .. EC_MBXPOOLSIZE - 1
    BY MailboxAssumption DEF Places
<1> USE DEF QueueInv
<1>1. /\ head \in Places /\ tail \in Places /\ count \in Nat
      /\ place \in [Places -> Entry] /\ mbxticket \in [Places -> Tickets]
    BY DEF QueueType
<1>2. head' = (IF head + 1 = EC_MBXPOOLSIZE THEN 0 ELSE head + 1) /\ head' \in Places
    BY <1>1, Next1Is DEF After
<1>3. QueueType' /\ HandlerType'
    BY <1>0, <1>1, <1>2 DEF QueueType, HandlerType, Tickets, QueueNotFull
<1>4. \A i \in Places : InUse(i)' <=> InUse(i) \/ i = head
    BY <1>0, <1>1, <1>2 DEF InUse, RingInv, QueueNotFull
<1>5. place'[head] = e /\ \A i \in Places : i # head => place'[i] = place[i]
    BY <1>1
<1>6. RingInv'
  <2>1. head' = IF tail' + count' < EC_MBXPOOLSIZE THEN tail' + count' ELSE tail' + count' - EC_MBXPOOLSIZE
      BY <1>0, <1>1, <1>2 DEF RingInv, QueueNotFull
  <2> QED
      BY <1>4, <1>5, <2>1 DEF RingInv
<1>7. TicketInv'
  <2>1. ~InUse(head)
      BY HeadIsFree
  <2>2. mbxticket'[t] = head /\ \A u \in Places : u # t => mbxticket'[u] = mbxticket[u]
      BY <1>1
  <2>3. \A u \in Places : Out(u) => mbxticket[u] \in Places /\ mbxticket[u] # head
      BY <1>1, <2>1 DEF TicketInv, Out, Tickets
  <2>4. \A u \in Places : u # t => (Out(u)' <=> Out(u))
      BY <2>2 DEF Out
  <2>5. \A u \in Places : Out(u)' => InUse(mbxticket[u])' /\ ~place'[mbxticket'[u]].remove
      BY <1>1, <1>4, <1>5, <2>2, <2>3, <2>4 DEF TicketInv
  <2> QED
      BY <2>2, <2>3, <2>4, <2>5 DEF TicketInv, Out
<1>8. HandlerInv'
  <2>1. hpc \in {"write", "written"} => place'[loc] = place[loc]
    <3>1. loc \in Places /\ (hpc \in {"write", "written"} => head # loc)
        BY HeadIsFree DEF HandlerType
    <3> QED
        BY <1>5, <3>1
  <2> QED
      BY <1>0, <1>1, <2>1 DEF HandlerInv, HandlerType, After
<1> QED
    BY <1>3, <1>6, <1>7, <1>8

(* A ticket given back: its place is marked for removal. *)
LEMMA GiveBackKeepsQueue ==
  ASSUME QueueInv, NEW c \in Callers, ticket[c] \in Places, Out(ticket[c]), GiveBack(c),
         UNCHANGED <<head, tail, count, hpc, loc, found, listleft>>
  PROVE  QueueInv'
<1> USE DEF QueueInv
<1> PICK t \in Places, i \in Places : t = ticket[c] /\ i = mbxticket[t]
    BY DEF QueueType, Tickets, Out
<1>a. place' = [place EXCEPT ![i].remove = TRUE] /\ mbxticket' = [mbxticket EXCEPT ![t] = -1]
    BY DEF GiveBack
<1>b. mbxticket[t] # -1 /\ mbxticket[t] = i
    BY DEF Out
<1>1. place \in [Places -> Entry] /\ mbxticket \in [Places -> Tickets] /\ InUse(i)
    BY <1>b DEF QueueType, TicketInv, Out
<1>2. /\ \A j \in Places : j # i => place'[j] = place[j]
      /\ mbxticket'[t] = -1 /\ \A u \in Places : u # t => mbxticket'[u] = mbxticket[u]
    BY <1>1, <1>a
<1>3. place'[i] \in Entry /\ place'[i].buf = place[i].buf
  <2>1. place[i] \in Entry /\ place'[i] = [place[i] EXCEPT !.remove = TRUE]
      BY <1>1, <1>a
  <2> QED
      BY <2>1 DEF Entry
<1>4. QueueType' /\ HandlerType'
  <2>1. place' \in [Places -> Entry]
      BY <1>1, <1>2, <1>3, <1>a
  <2>2. mbxticket' \in [Places -> Tickets]
      BY <1>1, <1>a DEF Tickets
  <2> QED
      BY <2>1, <2>2 DEF QueueType, HandlerType
<1>5. RingInv'
    BY <1>1, <1>2 DEF RingInv, InUse
<1>6. TicketInv'
  <2>1. \A u \in Places : Out(u)' => u # t /\ Out(u)
      BY <1>2 DEF Out
  <2>2. \A u \in Places : Out(u) => mbxticket[u] \in Places
      BY <1>1 DEF Out, Tickets
  <2>3. \A u \in Places : Out(u)' => mbxticket[u] # i
      BY <1>b, <2>1 DEF TicketInv, Out
  <2>4. ASSUME NEW u \in Places, Out(u)'
        PROVE  InUse(mbxticket[u])' /\ ~place'[mbxticket'[u]].remove
    <3>1. Out(u) /\ mbxticket'[u] = mbxticket[u] /\ mbxticket[u] \in Places /\ mbxticket[u] # i
        BY <1>2, <2>1, <2>2, <2>3, <2>4
    <3>2. InUse(mbxticket[u]) /\ ~place[mbxticket[u]].remove
        BY <3>1 DEF TicketInv
    <3> QED
        BY <1>2, <3>1, <3>2 DEF InUse
  <2> QED
      BY <1>2, <2>1, <2>4 DEF TicketInv
<1>7. HandlerInv'
  <2>1. loc \in Places /\ place'[loc].buf = place[loc].buf
      BY <1>2, <1>3 DEF HandlerType
  <2> QED
      BY <2>1 DEF HandlerInv, After
<1> QED
    BY <1>4, <1>5, <1>6, <1>7

(* The handler takes up the entry at the tail. *)
LEMMA PickKeepsQueue ==
  ASSUME QueueInv, Pick
  PROVE  QueueInv'
<1> USE DEF QueueInv
<1>1. QueueType' /\ RingInv' /\ TicketInv' /\ hpc = "pick"
    BY DEF Pick, Handling, queueVars, QueueType, RingInv, TicketInv, InUse, Out
<1>2. CASE limitcnt <= limit /\ listleft > 0
  <2>1. /\ listleft' = listleft - 1 /\ loc' = tail /\ found' = place[tail]
        /\ hpc' \in {"write", "rotate"} /\ UNCHANGED <<tail, count, place>>
      BY <1>2 DEF Pick, Handling, queueVars
  <2>2. HandlerType'
      BY <1>2, <2>1 DEF HandlerType, QueueType
  <2>3. HandlerInv'
      BY <1>1, <1>2, <2>1 DEF HandlerInv, HandlerType, QueueType
  <2> QED
      BY <1>1, <2>2, <2>3
<1>3. CASE ~(limitcnt <= limit /\ listleft > 0)
  <2>1. hpc' = "idle" /\ listleft' = 0 /\ UNCHANGED <<loc, found>>
      BY <1>3 DEF Pick
  <2> QED
      BY <1>1, <2>1 DEF HandlerType, HandlerInv
<1> QED
    BY <1>2, <1>3

(* What is written or not changes an entry's state, and later its buffer. *)
LEMMA EntryKeepsQueue ==
  ASSUME QueueInv, hpc \in {"write", "written"}, NEW e \in Entry, e.remove = place[loc].remove,
         place' = [place EXCEPT ![loc] = e],
         hpc' \in {"written", "rotate"}, hpc' = "written" => e.buf = place[loc].buf,
         UNCHANGED <<head, tail, count, mbxticket, loc, found, listleft>>
  PROVE  QueueInv'
<1> USE DEF QueueInv
<1>0. EC_MBXPOOLSIZE \in Nat /\ EC_MBXPOOLSIZE # 0 /\ Places = 0 .. EC_MBXPOOLSIZE - 1
    BY MailboxAssumption DEF Places
<1>1. /\ place \in [Places -> Entry] /\ loc \in Places /\ loc = tail /\ listleft + 1 <= count
      /\ found.buf = place[loc].buf /\ count \in Nat /\ tail \in Places /\ listleft \in Nat
    BY DEF QueueType, HandlerType, HandlerInv
<1>2. place'[loc] = e /\ \A j \in Places : j # loc => place'[j] = place[j]
    BY <1>1
<1>3. QueueType' /\ HandlerType'
    BY <1>1 DEF QueueType, HandlerType
<1>4. InUse(loc)
    BY <1>0, <1>1 DEF InUse
<1>5. RingInv'
    BY <1>1, <1>2, <1>4 DEF RingInv, InUse
<1>6. TicketInv'
  <2>1. \A u \in Places : Out(u) => mbxticket[u] \in Places
      BY DEF Out, QueueType, Tickets
  <2>2. \A j \in Places : place'[j].remove = place[j].remove
      BY <1>2
  <2> QED
      BY <2>1, <2>2 DEF TicketInv, InUse, Out
<1>7. HandlerInv'
    BY <1>1, <1>2 DEF HandlerInv
<1> QED
    BY <1>3, <1>5, <1>6, <1>7

(* The entry at the tail is carried to the head with its ticket. *)
LEMMA RotateKeepsQueue ==
  ASSUME QueueInv, Rotate
  PROVE  QueueInv'
<1> USE DEF QueueInv
<1>0. EC_MBXPOOLSIZE \in Nat /\ EC_MBXPOOLSIZE # 0 /\ Places = 0 .. EC_MBXPOOLSIZE - 1
    BY MailboxAssumption DEF Places
<1>1. /\ head \in Places /\ tail \in Places /\ count \in Nat /\ loc = tail /\ listleft + 1 <= count
      /\ place \in [Places -> Entry] /\ mbxticket \in [Places -> Tickets] /\ listleft \in Nat
    BY DEF Rotate, Handling, QueueType, HandlerInv, HandlerType
<1>2. /\ hpc' = "remove" /\ UNCHANGED <<count, loc, found, listleft>>
    BY DEF Rotate
<1>4. CASE ~(head # tail /\ Holders # {})
  <2>1. UNCHANGED <<mbxticket, place, head, tail>>
      BY <1>4 DEF Rotate
  <2> QED
      BY <1>1, <1>2, <2>1 DEF QueueType, HandlerType, RingInv, InUse, TicketInv, Out, HandlerInv
<1>5. CASE head # tail /\ Holders # {}
  <2>a. count < EC_MBXPOOLSIZE
      BY <1>0, <1>1, <1>5 DEF RingInv, QueueType
  <2>b. InUse(tail) /\ ~InUse(head) /\ place[head] = Nowhere /\ head # tail
      BY <1>0, <1>1, <1>5, <2>a DEF RingInv, InUse
  <2>1. /\ mbxticket' = [t \in Places |-> IF mbxticket[t] = tail THEN head ELSE mbxticket[t]]
        /\ place' = [place EXCEPT ![tail] = Nowhere, ![head] = place[tail]]
        /\ head' = Next1(head) /\ tail' = Next1(tail)
      BY <1>1, <2>b, <1>5 DEF Rotate, Carry, Holders
  <2>2. head' = After(head) /\ head' \in Places /\ tail' = After(tail) /\ tail' \in Places
      BY <1>1, <2>1, Next1Is
  <2>3. /\ place'[tail] = Nowhere /\ place'[head] = place[tail]
        /\ \A j \in Places : j # head /\ j # tail => place'[j] = place[j]
      BY <1>1, <2>b, <2>1
  <2>4. /\ \A t \in Places : mbxticket'[t] = IF mbxticket[t] = tail THEN head ELSE mbxticket[t]
        /\ \A t \in Places : mbxticket'[t] \in Tickets
      BY <1>1, <2>1 DEF Tickets
  <2>5. QueueType' /\ HandlerType'
    <3>1. place' \in [Places -> Entry]
        BY <1>1, <2>1 DEF Entry, Nowhere
    <3>2. mbxticket' \in [Places -> Tickets]
        BY <2>1, <2>4
    <3> QED
        BY <1>1, <1>2, <2>2, <3>1, <3>2 DEF QueueType, HandlerType
  <2>6. \A i \in Places : InUse(i)' <=> (InUse(i) /\ i # tail) \/ i = head
      BY <1>0, <1>1, <1>2, <2>a, <2>b, <2>2 DEF InUse, RingInv, After
  <2>7. RingInv'
    <3>1. head' = IF tail' + count' < EC_MBXPOOLSIZE THEN tail' + count'
                  ELSE tail' + count' - EC_MBXPOOLSIZE
        BY <1>0, <1>1, <1>2, <2>a, <2>2 DEF RingInv, After
    <3>2. ASSUME NEW i \in Places, ~InUse(i)' PROVE place'[i] = Nowhere
        BY <1>1, <2>3, <2>6, <3>2 DEF RingInv
    <3> QED
        BY <3>1, <3>2 DEF RingInv
  <2>8. TicketInv'
    <3>1. ASSUME NEW t \in Places, Out(t)'
          PROVE  /\ Out(t) /\ mbxticket[t] \in Places /\ InUse(mbxticket[t])
                 /\ ~place[mbxticket[t]].remove /\ mbxticket[t] # head
        BY <1>0, <1>1, <2>b, <2>4, <3>1 DEF Out, Tickets, TicketInv
    <3>2. ASSUME NEW t \in Places, Out(t)'
          PROVE  InUse(mbxticket[t])' /\ ~place'[mbxticket'[t]].remove
      <4>1. CASE mbxticket[t] = tail
          BY <1>1, <2>3, <2>4, <2>6, <3>1, <3>2, <4>1
      <4>2. CASE mbxticket[t] # tail
          BY <2>3, <2>4, <2>6, <3>1, <3>2, <4>2
      <4> QED
          BY <4>1, <4>2
    <3>3. \A t, u \in Places : Out(t)' /\ Out(u)' /\ mbxticket'[t] = mbxticket'[u] => t = u
        BY <2>4, <3>1 DEF TicketInv
    <3> QED
        BY <3>2, <3>3 DEF TicketInv
  <2>9. HandlerInv'
      BY <1>1, <1>2, <2>2 DEF HandlerInv, After
  <2> QED
      BY <2>5, <2>7, <2>8, <2>9
<1> QED
    BY <1>4, <1>5

(* An entry given back leaves the ring, at the tail. *)
LEMMA DropKeepsQueue ==
  ASSUME QueueInv, DropQueue, hpc' # "astray"
  PROVE  QueueInv'
<1> USE DEF QueueInv
<1>0. EC_MBXPOOLSIZE \in Nat /\ EC_MBXPOOLSIZE # 0 /\ Places = 0 .. EC_MBXPOOLSIZE - 1
    BY MailboxAssumption DEF Places
<1>1. /\ head \in Places /\ tail \in Places /\ count \in Nat /\ loc \in Places
      /\ place \in [Places -> Entry] /\ mbxticket \in [Places -> Tickets] /\ listleft \in Nat
      /\ count <= EC_MBXPOOLSIZE /\ listleft + 1 <= count
    BY DEF DropQueue, Handling, QueueType, HandlerInv, HandlerType
<1>2. hpc' = "pick" /\ loc' = 0 /\ found' = Nowhere /\ UNCHANGED <<head, mbxticket, listleft>>
    BY DEF DropQueue
<1>3. HandlerType'
    BY <1>0, <1>1, <1>2 DEF HandlerType, Entry, Nowhere
<1>4. CASE ~place[loc].remove
  <2>1. UNCHANGED <<place, tail, count>>
      BY <1>4 DEF DropQueue
  <2> QED
      BY <1>1, <1>2, <1>3, <2>1 DEF QueueType, RingInv, InUse, TicketInv, Out, HandlerInv
<1>5. CASE place[loc].remove
  <2>1. loc = tail
      BY <1>5 DEF DropQueue
  <2>2. place' = [place EXCEPT ![tail] = Nowhere] /\ tail' = Next1(tail) /\ count' = count - 1
      BY <1>5, <2>1 DEF DropQueue
  <2>3. tail' = After(tail) /\ tail' \in Places
      BY <1>1, <2>2, Next1Is
  <2>4. place'[tail] = Nowhere /\ \A j \in Places : j # tail => place'[j] = place[j]
      BY <1>1, <2>2
  <2>5. QueueType'
    <3>1. place' \in [Places -> Entry]
        BY <1>1, <2>2 DEF Entry, Nowhere
    <3>2. count' \in Nat /\ count' <= EC_MBXPOOLSIZE
        BY <1>0, <1>1, <2>2
    <3> QED
        BY <1>1, <1>2, <2>3, <3>1, <3>2 DEF QueueType
  <2>6. \A i \in Places : InUse(i)' <=> InUse(i) /\ i # tail
      BY <1>0, <1>1, <2>2, <2>3 DEF InUse, After
  <2>7. RingInv'
    <3>1. head' = IF tail' + count' < EC_MBXPOOLSIZE THEN tail' + count'
                  ELSE tail' + count' - EC_MBXPOOLSIZE
        BY <1>0, <1>1, <1>2, <2>2, <2>3 DEF RingInv, After
    <3>2. ASSUME NEW i \in Places, ~InUse(i)' PROVE place'[i] = Nowhere
        BY <1>1, <2>4, <2>6, <3>2 DEF RingInv
    <3> QED
        BY <3>1, <3>2 DEF RingInv
  <2>8. TicketInv'
    <3>1. ASSUME NEW t \in Places, Out(t)'
          PROVE  Out(t) /\ mbxticket[t] \in Places /\ mbxticket[t] # tail
        BY <1>0, <1>1, <1>2, <1>5, <2>1, <3>1 DEF Out, Tickets, TicketInv
    <3>2. ASSUME NEW t \in Places, Out(t)'
          PROVE  InUse(mbxticket[t])' /\ ~place'[mbxticket'[t]].remove
      <4>1. Out(t) /\ mbxticket[t] \in Places /\ mbxticket[t] # tail
          BY <3>1, <3>2
      <4>2. InUse(mbxticket[t]) /\ ~place[mbxticket[t]].remove
          BY <4>1 DEF TicketInv
      <4> QED
          BY <1>2, <2>4, <2>6, <4>1, <4>2
    <3> QED
        BY <1>2, <3>1, <3>2 DEF TicketInv
  <2>9. HandlerInv'
      BY <1>1, <1>2, <2>2 DEF HandlerInv
  <2> QED
      BY <1>3, <2>5, <2>7, <2>8, <2>9
<1> QED
    BY <1>4, <1>5

(***************************************************************************)
(* The whole invariant, once for each kind of step.                        *)
(***************************************************************************)
queueState == <<head, tail, count, place, mbxticket, hpc, loc, found, listleft>>

(* The requests that are in places and in other callers' hands stay there  *)
(* when a caller gives its buffer back.                                    *)
LEMMA DropLeavesRequests ==
  ASSUME PoolType, OwnerInv, QueueType, NEW c \in Callers, Drop(own[c])
  PROVE  /\ \A d \in Callers : d # c /\ own[d] # Null => mbx'[own[d]] = mbx[own[d]]
         /\ \A i \in Places : place[i].buf # Null => mbx'[place[i].buf] = mbx[place[i].buf]
<1>1. own[c] \in Bufs \cup {Null}
    BY DEF PoolType
<1>2. \A b \in Bufs : b # own[c] => mbx'[b] = mbx[b]
    BY <1>1 DEF PoolType, Drop
<1>3. \A d \in Callers : d # c /\ own[d] # Null => own[d] \in Bufs /\ own[d] # own[c]
    BY DEF PoolType, OwnerInv, OneOf
<1>4. \A i \in Places : place[i].buf # Null => place[i].buf \in Bufs /\ place[i].buf # own[c]
    BY DEF QueueType, Entry, OwnerInv, OneOf
<1> QED
    BY <1>2, <1>3, <1>4

(* Nothing the invariant speaks of changes. *)
LEMMA NothingMoves ==
  ASSUME MailboxInv, UNCHANGED <<mbxpool, mbx, own, coembxin, pc, asked, ticket, queueState>>
  PROVE  MailboxInv'
<1>1. PoolType' /\ CallType' /\ QueueType' /\ HandlerType'
    BY DEF MailboxInv, MailboxType, queueState, PoolType, CallType, QueueType, HandlerType
<1>2. OwnerInv'
    BY DEF MailboxInv, queueState, OwnerInv, OneOf, SomeOf
<1>3. CallInv' /\ HolderInv'
    BY DEF MailboxInv, queueState, CallInv, HolderInv, Asked, Waits, Out
<1>4. RingInv' /\ TicketInv' /\ HandlerInv'
    BY DEF MailboxInv, queueState, RingInv, TicketInv, HandlerInv, InUse, Out
<1> QED
    BY <1>1, <1>2, <1>3, <1>4 DEF MailboxInv, MailboxType

(* A caller that does not wait for its ticket goes on. *)
LEMMA CallerMoves ==
  ASSUME MailboxInv, NEW c \in Callers, ~Waits(c), NEW at \in Active, Goto(c, at),
         OwnerInv', PoolType', DOMAIN asked' = Callers,
         \A d \in Callers : d # c => own'[d] = own[d] /\ asked'[d] = asked[d],
         \A d \in Callers : d # c /\ own[d] # Null => mbx'[own[d]] = mbx[own[d]],
         \A i \in Places : place[i].buf # Null => mbx'[place[i].buf] = mbx[place[i].buf],
         at \in EmptyAt => own'[c] = Null, at = "add" => Asked(c, own[c])',
         UNCHANGED <<queueState, ticket>>
  PROVE  MailboxInv'
<1>1. pc'[c] = at /\ ~Waits(c)' /\ \A d \in Callers : d # c => pc'[d] = pc[d]
    BY DEF MailboxInv, MailboxType, CallType, Goto, Waits, Active, Waiting
<1>2. CallType' /\ QueueType' /\ HandlerType'
    BY DEF MailboxInv, MailboxType, queueState, CallType, QueueType, HandlerType, Goto
<1>3. RingInv' /\ TicketInv' /\ HandlerInv'
    BY DEF MailboxInv, queueState, RingInv, TicketInv, HandlerInv, InUse, Out
<1>4. CallInv'
    BY <1>1 DEF MailboxInv, CallInv, Asked
<1>5. ASSUME NEW d \in Callers
      PROVE  IF Waits(d)'
             THEN /\ ticket'[d] # -1 /\ Out(ticket[d])'
                  /\ place'[mbxticket'[ticket'[d]]].slave = Target[d]
                  /\ Asked(d, place[mbxticket[ticket[d]]].buf)'
                  /\ \A e \in Callers : ticket'[e] = ticket'[d] => e = d
             ELSE ticket'[d] = -1
  <2>1. CASE d = c
      BY <1>1, <2>1 DEF MailboxInv, HolderInv
  <2>2. CASE d # c /\ ~Waits(d)
      BY <1>1, <2>2 DEF MailboxInv, HolderInv, Waits
  <2>3. CASE d # c /\ Waits(d)
    <3>1. ticket[d] \in Places /\ mbxticket[ticket[d]] \in Places
        BY <2>3 DEF MailboxInv, MailboxType, CallType, QueueType, HolderInv, Out, Tickets
    <3> PICK i \in Places : i = mbxticket[ticket[d]]
        BY <3>1
    <3>a. Asked(d, place[i].buf)
        BY <2>3 DEF MailboxInv, HolderInv
    <3>b. place[i].buf # Null => mbx'[place[i].buf] = mbx[place[i].buf]
        OBVIOUS
    <3>c. asked'[d] = asked[d] /\ place'[i] = place[i] /\ mbxticket'[ticket'[d]] = i
        BY <2>3 DEF queueState
    <3>d. place[i].buf # Null => mbx'[place[i].buf].by = d /\ mbx'[place[i].buf].id = asked[d]
        BY <3>a, <3>b DEF Asked
    <3>2. Asked(d, place[mbxticket[ticket[d]]].buf)'
        BY <3>c, <3>d DEF Asked
    <3>3. Waits(d)'
        BY <1>1, <2>3 DEF Waits
    <3>4. UNCHANGED <<place, mbxticket, ticket>>
        BY DEF queueState
    <3>5. /\ ticket[d] # -1 /\ mbxticket[ticket[d]] # -1
          /\ place[mbxticket[ticket[d]]].slave = Target[d]
          /\ \A e \in Callers : ticket[e] = ticket[d] => e = d
        BY <2>3 DEF MailboxInv, HolderInv, Out
    <3> QED
        BY <3>2, <3>3, <3>4, <3>5 DEF Out
  <2> QED
      BY <2>1, <2>2, <2>3
<1>6. HolderInv'
    BY <1>5 DEF HolderInv
<1> QED
    BY <1>2, <1>3, <1>4, <1>6 DEF MailboxInv, MailboxType

(* ... without touching a buffer, *)
LEMMA CallerKeeps ==
  ASSUME MailboxInv, NEW c \in Callers, ~Waits(c), NEW at \in Active, Goto(c, at), at # "add",
         at \in EmptyAt => pc[c] \in EmptyAt,
         UNCHANGED <<mbxpool, mbx, own, coembxin, asked, queueState, ticket>>
  PROVE  MailboxInv'
<1>1. OwnerInv' /\ PoolType'
    BY BuffersStay DEF MailboxInv, MailboxType, queueState
<1>2. at \in EmptyAt => own'[c] = Null
    BY DEF MailboxInv, CallInv
<1> QED
    BY <1>1, <1>2, CallerMoves DEF MailboxInv, MailboxType, CallType

(* ... giving its buffer back, *)
LEMMA CallerDrops ==
  ASSUME MailboxInv, NEW c \in Callers, ~Waits(c), NEW at \in Active, Goto(c, at), at # "add",
         Drop(own[c]), own' = [own EXCEPT ![c] = Null],
         UNCHANGED <<coembxin, asked, queueState, ticket>>
  PROVE  MailboxInv'
<1>1. OwnerInv' /\ PoolType'
    BY GiveBufferBack DEF MailboxInv, MailboxType, queueState
<1>2. own'[c] = Null /\ \A d \in Callers : d # c => own'[d] = own[d] /\ asked'[d] = asked[d]
    BY DEF MailboxInv, MailboxType, PoolType
<1>3. /\ \A d \in Callers : d # c /\ own[d] # Null => mbx'[own[d]] = mbx[own[d]]
      /\ \A i \in Places : place[i].buf # Null => mbx'[place[i].buf] = mbx[place[i].buf]
    BY DropLeavesRequests DEF MailboxInv, MailboxType
<1>4. DOMAIN asked' = Callers
    BY DEF MailboxInv, MailboxType, CallType
<1> QED
    BY <1>1, <1>2, <1>3, <1>4, CallerMoves

(* ... or with a buffer from the pool. *)
LEMMA CallerTakes ==
  ASSUME MailboxInv, NEW c \in Callers, ~Waits(c), NEW at \in Active, Goto(c, at),
         at \notin EmptyAt, at = "add" => Asked(c, own[c])',
         own[c] = Null, mbxpool # {}, Take, own' = [own EXCEPT ![c] = Free],
         DOMAIN mbx' = Bufs, \A b \in Bufs : b # Free => mbx'[b] = mbx[b],
         DOMAIN asked' = Callers, \A d \in Callers : d # c => asked'[d] = asked[d],
         UNCHANGED <<coembxin, queueState, ticket>>
  PROVE  MailboxInv'
<1>1. OwnerInv' /\ PoolType'
    BY GetBuffer DEF MailboxInv, MailboxType, queueState
<1>2. \A d \in Callers : d # c => own'[d] = own[d]
    BY DEF MailboxInv, MailboxType, PoolType
<1>3. Free \in mbxpool /\ Free \in Bufs /\ PoolType /\ QueueType /\ OwnerInv
    BY FreeIsInPool DEF MailboxInv, MailboxType
<1>4. \A d \in Callers : own[d] # Null => own[d] \in Bufs /\ own[d] # Free
    BY <1>3 DEF PoolType, OwnerInv, OneOf
<1>5. \A i \in Places : place[i].buf # Null => place[i].buf \in Bufs /\ place[i].buf # Free
    BY <1>3 DEF QueueType, Entry, OwnerInv, OneOf
<1> QED
    BY <1>1, <1>2, <1>4, <1>5, CallerMoves

-----------------------------------------------------------------------------
(***************************************************************************)
(* The steps of the specification.                                         *)
(***************************************************************************)

(* The conversation of a caller. *)
LEMMA TalkStep ==
  ASSUME MailboxInv, NEW c \in Callers, Talk(c) \/ Expire(c),
         UNCHANGED <<statex, queueVars, inVars, handlerVars>>
  PROVE  MailboxInv'
<1>0. UNCHANGED <<queueState, ticket, coembxin>>
    BY DEF queueVars, inVars, handlerVars, queueState
<1>1. CASE Begin(c, Receive(c))
  <2>1. pc[c] = "rest" /\ Goto(c, Receive(c)) /\ UNCHANGED <<mbxpool, mbx, own, asked>>
      BY <1>1 DEF Begin, poolVars
  <2>2. /\ Receive(c) \in Active /\ Receive(c) # "add" /\ ~Waits(c)
        /\ Receive(c) \in EmptyAt => pc[c] \in EmptyAt
      BY <2>1 DEF Receive, Active, Waits, Waiting, EmptyAt
  <2> QED
      BY <1>0, <2>1, <2>2, CallerKeeps
<1>2. CASE Release(c)
  <2>1. PICK at \in {"ask", "rest"} : Goto(c, at)
      BY <1>2 DEF Release
  <2>2. pc[c] = "drop" /\ Drop(own[c]) /\ own' = [own EXCEPT ![c] = Null] /\ UNCHANGED asked
      BY <1>2 DEF Release
  <2>3. at \in Active /\ at # "add" /\ ~Waits(c)
      BY <2>2 DEF Active, Waits, Waiting
  <2> QED
      BY <1>0, <2>1, <2>2, <2>3, CallerDrops
<1>3. CASE Ask(c, Send(c))
  <2>1. /\ pc[c] = "ask" /\ own[c] = Null /\ ~Waits(c)
        /\ asked' = asked \/ asked' = [asked EXCEPT ![c] = @ + 1]
        /\ DOMAIN asked = Callers
      BY <1>3 DEF Ask, MailboxInv, CallInv, EmptyAt, MailboxType, CallType, Waits, Waiting
  <2>2. DOMAIN asked' = Callers /\ \A d \in Callers : d # c => asked'[d] = asked[d]
      BY <2>1
  <2>3. CASE mbxpool = {}
    <3>1. Goto(c, "rest") /\ UNCHANGED <<mbxpool, mbx, own>>
        BY <1>3, <2>3 DEF Ask, poolVars
    <3>2. OwnerInv' /\ PoolType'
        BY <1>0, <3>1, BuffersStay DEF MailboxInv, MailboxType, queueState
    <3>3. "rest" \in Active /\ "rest" # "add"
        BY DEF Active
    <3> QED
        BY <1>0, <2>1, <2>2, <3>1, <3>2, <3>3, CallerMoves
  <2>4. CASE mbxpool # {}
    <3>1. /\ Goto(c, Send(c)) /\ Take /\ own' = [own EXCEPT ![c] = Free]
          /\ asked' = [asked EXCEPT ![c] = asked[c] + 1]
          /\ mbx' = [mbx EXCEPT ![Free] = Request(c, asked[c] + 1, mbxcnt'[Target[c]])]
        BY <1>3, <2>4 DEF Ask
    <3>2. Send(c) \in Active /\ Send(c) \notin EmptyAt
        BY DEF Send, Active, EmptyAt
    <3>3. Free \in Bufs /\ DOMAIN mbx = Bufs /\ own'[c] = Free
        BY <2>4, <3>1, FreeIsInPool DEF MailboxInv, MailboxType, PoolType
    <3>4. DOMAIN mbx' = Bufs /\ \A b \in Bufs : b # Free => mbx'[b] = mbx[b]
        BY <3>1, <3>3
    <3>5. mbx'[own'[c]].by = c /\ mbx'[own'[c]].id = asked'[c]
        BY <2>1, <3>1, <3>3 DEF Request
    <3> QED
        BY <1>0, <2>1, <2>2, <2>4, <3>1, <3>2, <3>4, <3>5, CallerTakes DEF Asked
  <2> QED
      BY <2>3, <2>4
<1>4. CASE Expire(c)
    BY <1>0, <1>4, NothingMoves DEF Expire, poolVars
<1> QED
    BY <1>1, <1>2, <1>3, <1>4 DEF Talk

(* A request that was sent, or not, is given back. *)
LEMMA GiveUpStep ==
  ASSUME MailboxInv, NEW c \in Callers, ~Waits(c), NEW wkc \in {0, 1}, GiveUp(c, wkc),
         UNCHANGED <<queueState, ticket, coembxin>>
  PROVE  MailboxInv'
<1>1. Drop(own[c]) /\ own' = [own EXCEPT ![c] = Null] /\ UNCHANGED asked
    BY DEF GiveUp, Sent
<1>2. PICK at \in {"status", "rest"} : Goto(c, at)
    BY DEF GiveUp, Sent
<1>3. at \in Active /\ at # "add"
    BY DEF Active
<1> QED
    BY <1>1, <1>2, <1>3, CallerDrops

(* A caller that serves itself. *)
LEMMA DirectSteps ==
  ASSUME MailboxInv, Running', NEW c \in Callers, DirectStep(c) \/ Turn(c),
         UNCHANGED <<queueVars, inVars, handlerVars>>
  PROVE  MailboxInv'
<1>0. UNCHANGED <<queueState, ticket, coembxin>>
    BY DEF queueVars, inVars, handlerVars, queueState
<1> USE DEF Active, Waits, Waiting, EmptyAt, poolVars, Timeless
<1>1. CASE Refuse(c)
    BY <1>0, <1>1, GiveUpStep DEF Refuse
<1>2. CASE Write(c)
  <2>1. PICK wkc \in {0, 1} :
          IF wkc = 0 /\ pc[c] = "write"
          THEN Goto(c, "empty") /\ UNCHANGED <<mbxpool, mbx, own, asked>>
          ELSE GiveUp(c, wkc)
      BY <1>2 DEF Write
  <2>2. pc[c] \in {"write", "retry"}
      BY <1>2 DEF Write
  <2> QED
      BY <1>0, <2>1, <2>2, GiveUpStep, CallerKeeps
<1>3. CASE Empty(c)
  <2>1. \/ Goto(c, "retry") /\ UNCHANGED <<mbxpool, mbx, own, asked>>
        \/ GiveUp(c, 0)
      BY <1>3 DEF Empty
  <2>2. pc[c] = "empty"
      BY <1>3 DEF Empty
  <2> QED
      BY <1>0, <2>1, <2>2, GiveUpStep, CallerKeeps
<1>4. CASE Status(c)
  <2>1. pc[c] = "status" /\ UNCHANGED <<mbx, asked>> /\ own[c] = Null
      BY <1>4 DEF Status, MailboxInv, CallInv
  <2>2. \/ Goto(c, "read") /\ IF mbxpool = {} THEN UNCHANGED <<mbxpool, own>>
                              ELSE Take /\ own' = [own EXCEPT ![c] = Free]
        \/ Received(c, Null) /\ UNCHANGED mbxpool
      BY <1>4 DEF Status
  <2>3. CASE Goto(c, "read") /\ mbxpool # {} /\ Take /\ own' = [own EXCEPT ![c] = Free]
      BY <1>0, <2>1, <2>3, CallerTakes DEF MailboxInv, MailboxType, PoolType, CallType
  <2>4. CASE Goto(c, "read") /\ UNCHANGED <<mbxpool, own>>
      BY <1>0, <2>1, <2>4, CallerKeeps
  <2>5. CASE Received(c, Null) /\ UNCHANGED mbxpool
    <3>1. Goto(c, "drop") /\ UNCHANGED own
        BY <2>1, <2>5 DEF Received, MailboxInv, MailboxType, PoolType
    <3> QED
        BY <1>0, <2>1, <2>5, <3>1, CallerKeeps
  <2> QED
      BY <2>2, <2>3, <2>4, <2>5
<1>5. CASE ReadAnswer(c)
  <2>1. pc[c] = "read" /\ UNCHANGED asked
      BY <1>5 DEF ReadAnswer
  <2>2. \/ Goto(c, "statex") /\ UNCHANGED <<mbxpool, mbx, own>>
        \/ Drop(own[c]) /\ own' = [own EXCEPT ![c] = Null] /\ Goto(c, Again(c, "read"))
        \/ Received(c, own[c]) /\ UNCHANGED <<mbxpool, mbx>>
    <3>1. ~Goto(c, "crashed")
        BY DEF Goto, Running, MailboxInv, MailboxType, CallType
    <3> QED
        BY <1>5, <3>1 DEF ReadAnswer
  <2>3. CASE Goto(c, "statex") /\ UNCHANGED <<mbxpool, mbx, own>>
      BY <1>0, <2>1, <2>3, CallerKeeps
  <2>4. CASE Drop(own[c]) /\ own' = [own EXCEPT ![c] = Null] /\ Goto(c, Again(c, "read"))
    <3>1. PICK at \in {"read", "drop"} : at = Again(c, "read")
        BY DEF Again
    <3> QED
        BY <1>0, <2>1, <2>4, <3>1, CallerDrops
  <2>5. CASE Received(c, own[c]) /\ UNCHANGED <<mbxpool, mbx>>
    <3>1. Goto(c, "drop") /\ UNCHANGED own
        BY <2>5 DEF Received, MailboxInv, MailboxType, PoolType
    <3> QED
        BY <1>0, <2>1, <2>5, <3>1, CallerKeeps
  <2> QED
      BY <2>2, <2>3, <2>4, <2>5
<1>6. CASE Statex(c)
    BY <1>0, <1>6, CallerKeeps DEF Statex
<1>7. CASE Toggle(c)
    BY <1>0, <1>7, CallerKeeps DEF Toggle
<1>8. CASE Ack(c)
    BY <1>0, <1>8, CallerKeeps DEF Ack
<1>9. CASE Full(c)
  <2>1. PICK at \in {"read", "drop"} : at = Again(c, "read")
      BY DEF Again
  <2> QED
      BY <1>0, <1>9, <2>1, CallerKeeps DEF Full
<1>10. CASE Turn(c)
    BY <1>0, <1>10, NothingMoves DEF Turn, callVars
<1> QED
    BY <1>1, <1>2, <1>3, <1>4, <1>5, <1>6, <1>7, <1>8, <1>9, <1>10 DEF DirectStep

(***************************************************************************)
(* The tickets of the callers that wait.                                   *)
(***************************************************************************)

(* What a waiting caller holds. *)
LEMMA WaitingHolds ==
  ASSUME MailboxInv, NEW c \in Callers, Waits(c)
  PROVE  /\ ticket[c] \in Places /\ mbxticket[ticket[c]] \in Places
         /\ InUse(mbxticket[ticket[c]]) /\ ~place[mbxticket[ticket[c]]].remove
         /\ Out(ticket[c]) /\ place[mbxticket[ticket[c]]].slave = Target[c]
         /\ Asked(c, place[mbxticket[ticket[c]]].buf)
         /\ \A d \in Callers : ticket[d] = ticket[c] => d = c
<1>1. /\ Out(ticket[c]) /\ ticket[c] # -1
      /\ place[mbxticket[ticket[c]]].slave = Target[c]
      /\ Asked(c, place[mbxticket[ticket[c]]].buf)
      /\ \A d \in Callers : ticket[d] = ticket[c] => d = c
    BY DEF MailboxInv, HolderInv
<1>2. ticket[c] \in Places
    BY <1>1 DEF MailboxInv, MailboxType, CallType, Tickets
<1>3. mbxticket[ticket[c]] \in Places
    BY <1>1, <1>2 DEF MailboxInv, MailboxType, QueueType, Tickets, Out
<1>4. InUse(mbxticket[ticket[c]]) /\ ~place[mbxticket[ticket[c]]].remove
    BY <1>1, <1>2 DEF MailboxInv, TicketInv
<1> QED
    BY <1>1, <1>2, <1>3, <1>4

(* The entry a caller waits for is its own when it is carried to place j,  *)
(* and when its buffer is given back.                                      *)
LEMMA EntryStays ==
  ASSUME MailboxInv, NEW c \in Callers, Waits(c), ticket'[c] = ticket[c], asked'[c] = asked[c],
         NEW i \in Places, i = mbxticket[ticket[c]],
         NEW j \in Places, j = mbxticket'[ticket[c]], place'[j].slave = place[i].slave,
         place'[j].buf # Null =>
           place'[j].buf = place[i].buf /\ mbx'[place[i].buf] = mbx[place[i].buf]
  PROVE  /\ ticket'[c] # -1 /\ Out(ticket[c])'
         /\ place'[mbxticket'[ticket'[c]]].slave = Target[c]
         /\ Asked(c, place[mbxticket[ticket[c]]].buf)'
<1>0. j # -1 /\ -1 \notin Places
    BY MailboxAssumption DEF Places
<1>1. /\ ticket[c] \in Places /\ place[i].slave = Target[c] /\ Asked(c, place[i].buf)
    BY WaitingHolds
<1>2. mbxticket'[ticket'[c]] = j
    OBVIOUS
<1>3. Asked(c, place[mbxticket[ticket[c]]].buf)'
    BY <1>1, <1>2 DEF Asked
<1>4. Out(ticket[c])'
    BY <1>0, <1>2 DEF Out
<1> QED
    BY <1>0, <1>1, <1>2, <1>3, <1>4

(* A step of the handler keeps every caller's entry. *)
LEMMA HoldersStay ==
  ASSUME MailboxInv, UNCHANGED <<pc, asked, ticket>>,
         \A c \in Callers : Waits(c) =>
           LET i == mbxticket[ticket[c]]
               j == mbxticket'[ticket[c]]
           IN /\ j \in Places /\ place'[j].slave = place[i].slave
              /\ place'[j].buf # Null =>
                   place'[j].buf = place[i].buf /\ mbx'[place[i].buf] = mbx[place[i].buf]
  PROVE  HolderInv'
<1>1. ASSUME NEW c \in Callers
      PROVE  IF Waits(c)'
             THEN /\ ticket'[c] # -1 /\ Out(ticket[c])'
                  /\ place'[mbxticket'[ticket'[c]]].slave = Target[c]
                  /\ Asked(c, place[mbxticket[ticket[c]]].buf)'
                  /\ \A d \in Callers : ticket'[d] = ticket'[c] => d = c
             ELSE ticket'[c] = -1
  <2>1. CASE Waits(c)
    <3>1. mbxticket[ticket[c]] \in Places /\ \A d \in Callers : ticket[d] = ticket[c] => d = c
        BY <2>1, WaitingHolds
    <3>2. PICK i \in Places : i = mbxticket[ticket[c]]
        BY <3>1
    <3>3. PICK j \in Places : j = mbxticket'[ticket[c]]
        BY <2>1
    <3>4. /\ place'[j].slave = place[i].slave
          /\ place'[j].buf # Null =>
               place'[j].buf = place[i].buf /\ mbx'[place[i].buf] = mbx[place[i].buf]
        BY <2>1, <3>2, <3>3
    <3>5. /\ ticket'[c] # -1 /\ Out(ticket[c])'
          /\ place'[mbxticket'[ticket'[c]]].slave = Target[c]
          /\ Asked(c, place[mbxticket[ticket[c]]].buf)'
        BY <2>1, <3>2, <3>3, <3>4, EntryStays
    <3> QED
        BY <2>1, <3>1, <3>5 DEF Waits
  <2>2. CASE ~Waits(c)
      BY <2>2 DEF MailboxInv, HolderInv, Waits
  <2> QED
      BY <2>1, <2>2
<1> QED
    BY <1>1 DEF HolderInv

(* The buffer of an entry given back: the other requests stay. *)
LEMMA DropLeavesEntries ==
  ASSUME PoolType, OwnerInv, QueueType, NEW i \in Places, Drop(place[i].buf)
  PROVE  /\ \A d \in Callers : own[d] # Null => mbx'[own[d]] = mbx[own[d]]
         /\ \A j \in Places : j # i /\ place[j].buf # Null => mbx'[place[j].buf] = mbx[place[j].buf]
<1>1. place[i].buf \in Bufs \cup {Null}
    BY DEF QueueType, Entry
<1>2. \A b \in Bufs : b # place[i].buf => mbx'[b] = mbx[b]
    BY <1>1 DEF PoolType, Drop
<1>3. \A d \in Callers : own[d] # Null => own[d] \in Bufs /\ own[d] # place[i].buf
    BY DEF PoolType, OwnerInv, OneOf
<1>4. \A j \in Places : j # i /\ place[j].buf # Null => place[j].buf \in Bufs /\ place[j].buf # place[i].buf
    BY DEF QueueType, Entry, OwnerInv, OneOf
<1> QED
    BY <1>2, <1>3, <1>4

(***************************************************************************)
(* The steps of the handler.                                               *)
(***************************************************************************)

(* It looks at a slave's mailbox, and may take an answer into a buffer. *)
LEMMA InStep ==
  ASSUME MailboxInv, OwnerInv', PoolType', hpc \in {"idle", "in"}, hpc' \in {"in", "out"},
         UNCHANGED <<mbx, own, pc, asked, ticket, head, tail, count, place, mbxticket, loc, found,
                     listleft>>
  PROVE  MailboxInv'
<1>1. CallType' /\ QueueType' /\ HandlerType'
    BY DEF MailboxInv, MailboxType, CallType, QueueType, HandlerType
<1>2. CallInv' /\ HolderInv'
    BY DEF MailboxInv, CallInv, HolderInv, Asked, Waits, Out
<1>3. RingInv' /\ TicketInv' /\ HandlerInv'
    BY DEF MailboxInv, RingInv, TicketInv, HandlerInv, InUse, Out
<1> QED
    BY <1>1, <1>2, <1>3 DEF MailboxInv, MailboxType

LEMMA InSteps ==
  ASSUME MailboxInv, NEW s \in Slaves, Exchange \/ PassBy(s) \/ GiveUpRmp(s) \/ Rmp(s) \/ Fetch(s)
  PROVE  MailboxInv'
<1> USE DEF callVars, queueVars, inVars, poolVars, Visiting
<1>1. CASE Exchange
  <2>1. OwnerInv' /\ PoolType'
      BY <1>1, BuffersStay DEF Exchange, MailboxInv, MailboxType
  <2> QED
      BY <1>1, <2>1, InStep DEF Exchange, InBegin
<1>2. CASE PassBy(s)
  <2>1. OwnerInv' /\ PoolType'
      BY <1>2, BuffersStay DEF PassBy, MailboxInv, MailboxType
  <2> QED
      BY <1>2, <2>1, InStep DEF PassBy, Worked
<1>3. CASE Rmp(s)
  <2>1. OwnerInv' /\ PoolType'
      BY <1>3, BuffersStay DEF Rmp, MailboxInv, MailboxType
  <2> QED
      BY <1>3, <2>1, InStep DEF Rmp, Worked
<1>5. CASE GiveUpRmp(s)
  <2>1. OwnerInv' /\ PoolType'
      BY <1>5, BuffersStay DEF GiveUpRmp, MailboxInv, MailboxType
  <2> QED
      BY <1>5, <2>1, InStep DEF GiveUpRmp, Worked
<1>4. CASE Fetch(s)
  <2>1. mbxpool # {} /\ UNCHANGED <<mbx, own, place>>
      BY <1>4 DEF Fetch
  <2>2. \/ UNCHANGED <<mbxpool, coembxin>>
        \/ coembxin[s] = Null /\ coembxin' = [coembxin EXCEPT ![s] = Free] /\ Take
      BY <1>4 DEF Fetch, Keep
  <2>3. OwnerInv' /\ PoolType'
      BY <2>1, <2>2, BuffersStay, BufferToSlot DEF MailboxInv, MailboxType
  <2> QED
      BY <1>4, <2>3, InStep DEF Fetch, Worked
<1> QED
    BY <1>1, <1>2, <1>3, <1>4, <1>5

(* A step of the handler on the queue, as its parts give the whole. *)
LEMMA OutParts ==
  ASSUME MailboxInv, OwnerInv', PoolType', QueueInv', HolderInv', UNCHANGED <<own, pc, asked, ticket>>,
         \A d \in Callers : own[d] # Null => mbx'[own[d]] = mbx[own[d]]
  PROVE  MailboxInv'
<1>1. CallType'
    BY DEF MailboxInv, MailboxType, CallType
<1>2. CallInv'
    BY DEF MailboxInv, CallInv, Asked
<1> QED
    BY <1>1, <1>2 DEF MailboxInv, MailboxType, QueueInv

LEMMA OutSteps ==
  ASSUME MailboxInv, hpc' # "astray",
         OutBegin \/ Pick \/ WriteOut \/ Written \/ Rotate \/ DropQueue
  PROVE  MailboxInv'
<1> USE DEF callVars, queueVars, inVars, poolVars, Handling
<1>0. /\ PoolType /\ QueueType /\ OwnerInv /\ QueueInv /\ HandlerType /\ CallType
      /\ loc \in Places /\ place \in [Places -> Entry] /\ place[loc] \in Entry
      /\ UNCHANGED <<own, pc, asked, ticket, coembxin>>
    BY DEF MailboxInv, MailboxType, QueueInv, QueueType, HandlerType,
       OutBegin, Pick, WriteOut, Written, Rotate, DropQueue
<1>1. CASE OutBegin
  <2>1. QueueInv' /\ UNCHANGED <<mbxpool, mbx, place, mbxticket>>
      BY <1>0, <1>1 DEF OutBegin, QueueInv, QueueType, HandlerType, RingInv, TicketInv,
         HandlerInv, InUse, Out
  <2>2. OwnerInv' /\ PoolType'
      BY <1>0, <2>1, BuffersStay
  <2>3. HolderInv'
      BY <1>0, <2>1, HoldersStay, WaitingHolds
  <2> QED
      BY <1>0, <2>1, <2>2, <2>3, OutParts
<1>2. CASE Pick
  <2>1. QueueInv' /\ UNCHANGED <<mbxpool, mbx, place, mbxticket>>
      BY <1>0, <1>2, PickKeepsQueue DEF Pick
  <2>2. OwnerInv' /\ PoolType'
      BY <1>0, <2>1, BuffersStay
  <2>3. HolderInv'
      BY <1>0, <2>1, HoldersStay, WaitingHolds
  <2> QED
      BY <1>0, <2>1, <2>2, <2>3, OutParts
<1>3. CASE WriteOut
  <2>1. /\ hpc = "write" /\ hpc' \in {"written", "rotate"}
        /\ UNCHANGED <<mbxpool, mbx, head, tail, count, mbxticket, loc, found, listleft>>
      BY <1>3 DEF WriteOut
  <2>2. PICK st \in {"done", "fail", place[loc].state} : place' = [place EXCEPT ![loc].state = st]
    <3>1. CASE UNCHANGED place
        BY <1>0, <3>1 DEF Entry
    <3>2. CASE \E wkc \in {0, 1} : place' = [place EXCEPT ![loc].state = IF wkc > 0 THEN "done" ELSE "fail"]
        BY <3>2
    <3> QED
        BY <1>3, <3>1, <3>2 DEF WriteOut
  <2>3. PICK e \in Entry : /\ e = [place[loc] EXCEPT !.state = st]
                           /\ e.slave = place[loc].slave /\ e.buf = place[loc].buf
                           /\ e.remove = place[loc].remove
    <3> DEFINE r == [place[loc] EXCEPT !.state = st]
    <3>1. /\ r \in Entry /\ r.slave = place[loc].slave /\ r.buf = place[loc].buf
          /\ r.remove = place[loc].remove
        BY <1>0 DEF Entry
    <3> HIDE DEF r
    <3>2. \E e \in Entry : e = r
        BY <3>1
    <3> QED
        BY <3>1, <3>2 DEF r
  <2>4. place' = [place EXCEPT ![loc] = e]
      BY <1>0, <2>2, <2>3
  <2>5. QueueInv'
      BY <1>0, <2>1, <2>3, <2>4, EntryKeepsQueue
  <2>6. \A i \in Places : place'[i].buf = place[i].buf /\ place'[i].slave = place[i].slave
      BY <1>0, <2>3, <2>4
  <2>7. OwnerInv' /\ PoolType'
      BY <1>0, <2>1, <2>6, BuffersStay
  <2>8. HolderInv'
      BY <1>0, <2>1, <2>6, HoldersStay, WaitingHolds
  <2> QED
      BY <1>0, <2>1, <2>5, <2>7, <2>8, OutParts
<1>4. CASE Written
  <2>1. /\ hpc = "written" /\ hpc' = "rotate" /\ found.buf = place[loc].buf
        /\ Drop(place[loc].buf) /\ place' = [place EXCEPT ![loc].buf = Null]
        /\ UNCHANGED <<head, tail, count, mbxticket, loc, found, listleft>>
      BY <1>4 DEF Written, MailboxInv, HandlerInv
  <2>2. PICK e \in Entry : /\ e = [place[loc] EXCEPT !.buf = Null] /\ e.buf = Null
                           /\ e.slave = place[loc].slave /\ e.remove = place[loc].remove
    <3> DEFINE r == [place[loc] EXCEPT !.buf = Null]
    <3>1. r \in Entry /\ r.buf = Null /\ r.slave = place[loc].slave /\ r.remove = place[loc].remove
        BY <1>0 DEF Entry
    <3> HIDE DEF r
    <3>2. \E e \in Entry : e = r
        BY <3>1
    <3> QED
        BY <3>1, <3>2 DEF r
  <2>3. place' = [place EXCEPT ![loc] = e]
      BY <1>0, <2>1, <2>2
  <2>4. QueueInv'
      BY <1>0, <2>1, <2>2, <2>3, EntryKeepsQueue
  <2>5. OwnerInv' /\ PoolType'
      BY <1>0, <2>1, <2>2, <2>3, BufferFromPlace
  <2>6. place'[loc] = e /\ \A i \in Places : i # loc => place'[i] = place[i]
      BY <1>0, <2>3
  <2>7. /\ \A d \in Callers : own[d] # Null => mbx'[own[d]] = mbx[own[d]]
        /\ \A j \in Places : j # loc /\ place[j].buf # Null => mbx'[place[j].buf] = mbx[place[j].buf]
      BY <1>0, <2>1, DropLeavesEntries
  <2>8. \A i \in Places : /\ place'[i].slave = place[i].slave
                          /\ place'[i].buf # Null =>
                               place'[i].buf = place[i].buf /\ mbx'[place[i].buf] = mbx[place[i].buf]
      BY <2>2, <2>6, <2>7
  <2>9. HolderInv'
      BY <1>0, <2>1, <2>8, HoldersStay, WaitingHolds
  <2> QED
      BY <1>0, <2>4, <2>5, <2>7, <2>9, OutParts
<1>5. CASE Rotate
  <2>1. QueueInv' /\ UNCHANGED <<mbxpool, mbx>>
      BY <1>0, <1>5, RotateKeepsQueue DEF Rotate
  <2>2. CASE UNCHANGED <<mbxticket, place>>
    <3>1. OwnerInv' /\ PoolType'
        BY <1>0, <2>1, <2>2, BuffersStay
    <3>2. HolderInv'
        BY <1>0, <2>1, <2>2, HoldersStay, WaitingHolds
    <3> QED
        BY <1>0, <2>1, <3>1, <3>2, OutParts
  <2>3. CASE /\ mbxticket' = [t \in Places |-> Carry(t)] /\ head # tail
             /\ place' = [place EXCEPT ![tail] = Nowhere, ![head] = place[tail]]
    <3>a. QueueNotFull
        BY <1>0, <1>5, <2>3, MailboxAssumption DEF Rotate, MailboxInv, RingInv, HandlerInv, QueueType,
           HandlerType, QueueNotFull, Places
    <3>1. /\ loc = tail /\ tail \in Places /\ head \in Places /\ mbxticket \in [Places -> Tickets]
          /\ place[head] = Nowhere /\ Nowhere.buf = Null /\ ~InUse(head)
        BY <1>0, <1>5, <3>a, HeadIsFree DEF Rotate, MailboxInv, HandlerInv, QueueType, Nowhere
    <3>2. OwnerInv' /\ PoolType'
        BY <1>0, <2>1, <2>3, <3>1, BufferCarried
    <3>3. /\ place'[tail] = Nowhere /\ place'[head] = place[tail]
          /\ \A i \in Places : i # head /\ i # tail => place'[i] = place[i]
        BY <1>0, <2>3, <3>1
    <3>4. \A t \in Places : mbxticket'[t] = IF mbxticket[t] = tail THEN head ELSE mbxticket[t]
        BY <2>3, <3>1 DEF Carry, Holders
    <3>5. ASSUME NEW c \in Callers, Waits(c)
          PROVE  /\ mbxticket'[ticket[c]] \in Places
                 /\ place'[mbxticket'[ticket[c]]] = place[mbxticket[ticket[c]]]
      <4>1. /\ ticket[c] \in Places /\ mbxticket[ticket[c]] \in Places
            /\ mbxticket[ticket[c]] # head
          BY <3>1, <3>5, WaitingHolds
      <4>2. CASE mbxticket[ticket[c]] = tail
          BY <3>1, <3>3, <3>4, <4>1, <4>2
      <4>3. CASE mbxticket[ticket[c]] # tail
          BY <3>1, <3>3, <3>4, <4>1, <4>3
      <4> QED
          BY <4>2, <4>3
    <3>6. HolderInv'
        BY <1>0, <2>1, <3>5, HoldersStay
    <3> QED
        BY <1>0, <2>1, <3>2, <3>6, OutParts
  <2> QED
      BY <1>5, <2>2, <2>3 DEF Rotate
<1>6. CASE DropQueue
  <2>1. QueueInv' /\ UNCHANGED mbxticket
      BY <1>0, <1>6, DropKeepsQueue DEF DropQueue
  <2>2. CASE ~place[loc].remove
    <3>1. UNCHANGED <<mbxpool, mbx, place>>
        BY <1>6, <2>2 DEF DropQueue
    <3>2. OwnerInv' /\ PoolType'
        BY <1>0, <3>1, BuffersStay
    <3>3. HolderInv'
        BY <1>0, <2>1, <3>1, HoldersStay, WaitingHolds
    <3> QED
        BY <1>0, <2>1, <3>1, <3>2, <3>3, OutParts
  <2>3. CASE place[loc].remove
    <3>1. Drop(place[loc].buf) /\ place' = [place EXCEPT ![loc] = Nowhere]
        BY <1>6, <2>3 DEF DropQueue, Discard
    <3>2. Nowhere \in Entry /\ Nowhere.buf = Null
        BY DEF Entry, Nowhere
    <3>3. OwnerInv' /\ PoolType'
        BY <1>0, <3>1, <3>2, BufferFromPlace
    <3>4. \A i \in Places : i # loc => place'[i] = place[i]
        BY <1>0, <3>1
    <3>5. /\ \A d \in Callers : own[d] # Null => mbx'[own[d]] = mbx[own[d]]
          /\ \A j \in Places : j # loc /\ place[j].buf # Null => mbx'[place[j].buf] = mbx[place[j].buf]
        BY <1>0, <3>1, DropLeavesEntries
    <3>6. \A c \in Callers : Waits(c) => mbxticket[ticket[c]] \in Places \ {loc}
        BY <2>3, WaitingHolds
    <3>7. HolderInv'
        BY <1>0, <2>1, <3>4, <3>5, <3>6, HoldersStay
    <3> QED
        BY <1>0, <2>1, <3>3, <3>5, <3>7, OutParts
  <2> QED
      BY <2>2, <2>3
<1> QED
    BY <1>1, <1>2, <1>3, <1>4, <1>5, <1>6

(***************************************************************************)
(* The steps of a caller the handler serves.                               *)
(***************************************************************************)

(* A step of a caller on the queue, as its parts give the whole. *)
LEMMA CallParts ==
  ASSUME MailboxInv, NEW c \in Callers, NEW at \in Active \cup Waiting, at # "add", Goto(c, at),
         OwnerInv', PoolType', QueueInv', HolderInv', own'[c] = Null,
         \A d \in Callers : d # c => own'[d] = own[d],
         ticket' \in [Callers -> Tickets], UNCHANGED <<mbx, asked>>
  PROVE  MailboxInv'
<1>1. pc'[c] = at /\ \A d \in Callers : d # c => pc'[d] = pc[d]
    BY DEF MailboxInv, MailboxType, CallType, Goto
<1>2. CallType'
    BY DEF MailboxInv, MailboxType, CallType, Goto
<1>3. CallInv'
    BY <1>1 DEF MailboxInv, CallInv, Asked
<1> QED
    BY <1>2, <1>3 DEF MailboxInv, MailboxType, QueueInv

(* The request is queued under a ticket of its own. *)
LEMMA AddStep ==
  ASSUME MailboxInv, QueueNotFull, NEW c \in Callers, AddQueue(c)
  PROVE  MailboxInv'
<1>0. /\ PoolType /\ QueueType /\ OwnerInv /\ QueueInv /\ HandlerType /\ CallType
      /\ RingInv /\ TicketInv /\ head \in Places
      /\ place \in [Places -> Entry] /\ mbxticket \in [Places -> Tickets]
      /\ own \in [Callers -> Bufs \cup {Null}] /\ ticket \in [Callers -> Tickets]
    BY DEF MailboxInv, MailboxType, QueueInv, QueueType, PoolType, CallType
<1> PICK t \in Places : t = FreeTicket /\ mbxticket[t] = -1
    BY <1>0, TicketIsFree
<1> DEFINE r == [state |-> "req", slave |-> Target[c], buf |-> own[c], remove |-> FALSE]
<1>1. r \in Entry
    BY <1>0, MailboxAssumption DEF Entry
<1>2. PICK e \in Entry : e = r /\ e.slave = Target[c] /\ e.buf = own[c] /\ ~e.remove
    BY <1>1
<1>3. /\ pc[c] = "add" /\ ticket' = [ticket EXCEPT ![c] = t]
      /\ mbxticket' = [mbxticket EXCEPT ![t] = head] /\ place' = [place EXCEPT ![head] = e]
      /\ head' = Next1(head) /\ count' = count + 1 /\ own' = [own EXCEPT ![c] = Null]
      /\ Goto(c, "poll")
      /\ UNCHANGED <<tail, mbxpool, mbx, asked, coembxin, hpc, loc, found, listleft>>
    BY <1>2 DEF AddQueue, QueueNotFull, poolVars, inVars, handlerVars
<1>4. /\ ~InUse(head) /\ place[head].buf = Null
    BY <1>0, HeadIsFree DEF Nowhere
<1>5. QueueInv'
    BY <1>0, <1>2, <1>3, AddKeepsQueue
<1>6. OwnerInv' /\ PoolType'
    BY <1>0, <1>2, <1>3, <1>4, BufferToPlace
<1>7. /\ own'[c] = Null /\ \A d \in Callers : d # c => own'[d] = own[d]
      /\ ticket'[c] = t /\ \A d \in Callers : d # c => ticket'[d] = ticket[d]
      /\ ticket' \in [Callers -> Tickets]
      /\ pc'[c] = "poll" /\ \A d \in Callers : d # c => pc'[d] = pc[d]
    BY <1>0, <1>3 DEF Tickets, Goto, CallType
<1>8. /\ place'[head] = e /\ \A i \in Places : i # head => place'[i] = place[i]
      /\ mbxticket'[t] = head /\ \A u \in Places : u # t => mbxticket'[u] = mbxticket[u]
    BY <1>0, <1>3
<1>9. -1 \notin Places
    BY MailboxAssumption DEF Places
<1>10. \A d \in Callers : ticket[d] # t
    BY <1>9, WaitingHolds DEF MailboxInv, HolderInv, Out
<1>11. \A d, d2 \in Callers : ticket'[d] # -1 /\ ticket'[d] = ticket'[d2] => d = d2
  <2>1. \A d, d2 \in Callers : ticket[d] # -1 /\ ticket[d] = ticket[d2] => d = d2
      BY DEF MailboxInv, HolderInv
  <2> QED
      BY <1>7, <1>10, <2>1
<1>12. ASSUME NEW d \in Callers
       PROVE  IF Waits(d)'
              THEN /\ ticket'[d] # -1 /\ Out(ticket[d])'
                   /\ place'[mbxticket'[ticket'[d]]].slave = Target[d]
                   /\ Asked(d, place[mbxticket[ticket[d]]].buf)'
                   /\ \A d2 \in Callers : ticket'[d2] = ticket'[d] => d2 = d
              ELSE ticket'[d] = -1
  <2>1. CASE d = c
    <3>1. Asked(c, own[c])
        BY <1>3 DEF MailboxInv, CallInv
    <3>2. Waits(c)' /\ ticket'[c] # -1 /\ mbxticket'[ticket'[c]] = head /\ head # -1
        BY <1>0, <1>7, <1>8, <1>9 DEF Waits, Waiting
    <3>3. place'[mbxticket'[ticket'[c]]] = e
        BY <1>8, <3>2
    <3>4. Asked(c, place[mbxticket[ticket[c]]].buf)'
        BY <1>2, <1>3, <3>1, <3>3 DEF Asked
    <3> QED
        BY <1>2, <1>11, <2>1, <3>2, <3>3, <3>4 DEF Out
  <2>2. CASE d # c /\ Waits(d)
    <3>1. /\ ticket[d] \in Places /\ mbxticket[ticket[d]] \in Places /\ mbxticket[ticket[d]] # head
          /\ ticket[d] # t
        BY <1>4, <1>10, <2>2, WaitingHolds
    <3>2. PICK i \in Places : i = mbxticket[ticket[d]]
        BY <3>1
    <3>3. i = mbxticket'[ticket[d]] /\ place'[i] = place[i] /\ ticket'[d] = ticket[d]
          /\ asked'[d] = asked[d] /\ mbx'[place[i].buf] = mbx[place[i].buf]
        BY <1>3, <1>7, <1>8, <2>2, <3>1, <3>2
    <3>4. /\ ticket'[d] # -1 /\ Out(ticket[d])'
          /\ place'[mbxticket'[ticket'[d]]].slave = Target[d]
          /\ Asked(d, place[mbxticket[ticket[d]]].buf)'
        BY <2>2, <3>2, <3>3, EntryStays
    <3> QED
        BY <1>7, <1>11, <2>2, <3>4 DEF Waits
  <2>3. CASE d # c /\ ~Waits(d)
      BY <1>7, <2>3 DEF MailboxInv, HolderInv, Waits
  <2> QED
      BY <2>1, <2>2, <2>3
<1>13. HolderInv'
    BY <1>12 DEF HolderInv
<1>14. "poll" \in Active \cup Waiting
    BY DEF Waiting
<1> QED
    BY <1>3, <1>5, <1>6, <1>7, <1>13, <1>14, CallParts

(* The ticket is given back. *)
LEMMA GiveBackStep ==
  ASSUME MailboxInv, NEW c \in Callers, Waits(c), GiveBack(c), NEW at \in {"slot", "rest"},
         Goto(c, at), UNCHANGED <<mbxpool, mbx, own, asked, coembxin, head, tail, count, hpc, loc,
                                  found, listleft>>
  PROVE  MailboxInv'
<1>0. /\ PoolType /\ QueueType /\ OwnerInv /\ QueueInv /\ CallType
      /\ place \in [Places -> Entry] /\ mbxticket \in [Places -> Tickets]
      /\ ticket \in [Callers -> Tickets]
    BY DEF MailboxInv, MailboxType, QueueInv, QueueType, CallType
<1>1. ticket[c] \in Places /\ Out(ticket[c]) /\ mbxticket[ticket[c]] \in Places
    BY WaitingHolds
<1> PICK t \in Places, i \in Places : t = ticket[c] /\ i = mbxticket[t]
    BY <1>1
<1>2. QueueInv'
    BY <1>0, <1>1, GiveBackKeepsQueue
<1>3. /\ place' = [place EXCEPT ![i].remove = TRUE] /\ mbxticket' = [mbxticket EXCEPT ![t] = -1]
      /\ ticket' = [ticket EXCEPT ![c] = -1]
    BY DEF GiveBack
<1>4. \A j \in Places : place'[j].buf = place[j].buf /\ place'[j].slave = place[j].slave
  <2>1. place'[i] = [place[i] EXCEPT !.remove = TRUE] /\ place[i] \in Entry
      BY <1>0, <1>3
  <2>2. place'[i].buf = place[i].buf /\ place'[i].slave = place[i].slave
      BY <2>1 DEF Entry
  <2>3. \A j \in Places : j # i => place'[j] = place[j]
      BY <1>0, <1>3
  <2> QED
      BY <2>2, <2>3
<1>5. OwnerInv' /\ PoolType'
    BY <1>0, <1>4, BuffersStay
<1>6. own'[c] = Null
    BY DEF MailboxInv, CallInv, Waits, Waiting, EmptyAt
<1>7. /\ ticket'[c] = -1 /\ \A d \in Callers : d # c => ticket'[d] = ticket[d]
      /\ ticket' \in [Callers -> Tickets]
      /\ pc'[c] = at /\ \A d \in Callers : d # c => pc'[d] = pc[d]
    BY <1>0, <1>3 DEF Tickets, Goto, CallType
<1>8. \A u \in Places : u # t => mbxticket'[u] = mbxticket[u]
    BY <1>0, <1>3
<1>9. ASSUME NEW d \in Callers
      PROVE  IF Waits(d)'
             THEN /\ ticket'[d] # -1 /\ Out(ticket[d])'
                  /\ place'[mbxticket'[ticket'[d]]].slave = Target[d]
                  /\ Asked(d, place[mbxticket[ticket[d]]].buf)'
                  /\ \A d2 \in Callers : ticket'[d2] = ticket'[d] => d2 = d
             ELSE ticket'[d] = -1
  <2>1. CASE d = c
      BY <1>7, <2>1 DEF Waits, Waiting
  <2>2. CASE d # c /\ Waits(d)
    <3>1. /\ ticket[d] \in Places /\ mbxticket[ticket[d]] \in Places /\ ticket[d] # t
          /\ \A d2 \in Callers : ticket[d2] = ticket[d] => d2 = d
        BY <2>2, WaitingHolds
    <3>2. PICK j \in Places : j = mbxticket[ticket[d]]
        BY <3>1
    <3>3. /\ j = mbxticket'[ticket[d]] /\ ticket'[d] = ticket[d] /\ asked'[d] = asked[d]
          /\ place'[j].slave = place[j].slave /\ place'[j].buf = place[j].buf
          /\ mbx'[place[j].buf] = mbx[place[j].buf]
        BY <1>4, <1>7, <1>8, <2>2, <3>1, <3>2
    <3>4. /\ ticket'[d] # -1 /\ Out(ticket[d])'
          /\ place'[mbxticket'[ticket'[d]]].slave = Target[d]
          /\ Asked(d, place[mbxticket[ticket[d]]].buf)'
        BY <2>2, <3>2, <3>3, EntryStays
    <3>5. \A d2 \in Callers : ticket'[d2] = ticket'[d] => d2 = d
        BY <1>7, <3>1, <3>3, <3>4
    <3> QED
        BY <1>7, <2>2, <3>4, <3>5 DEF Waits
  <2>3. CASE d # c /\ ~Waits(d)
      BY <1>7, <2>3 DEF MailboxInv, HolderInv, Waits
  <2> QED
      BY <2>1, <2>2, <2>3
<1>10. HolderInv'
    BY <1>9 DEF HolderInv
<1>11. at \in Active \cup Waiting /\ at # "add"
    BY DEF Active
<1> QED
    BY <1>2, <1>5, <1>6, <1>7, <1>10, <1>11, CallParts

(* ... or there is no place for it. *)
LEMMA NoPlaceStep ==
  ASSUME MailboxInv, ~QueueNotFull, NEW c \in Callers, AddQueue(c)
  PROVE  MailboxInv'
<1>1. /\ pc[c] = "add" /\ Drop(own[c]) /\ own' = [own EXCEPT ![c] = Null] /\ Sent(c, 0, "slot")
      /\ UNCHANGED <<queueVars, inVars, handlerVars>>
    BY DEF AddQueue, QueueNotFull
<1>2. Goto(c, "rest") /\ UNCHANGED <<coembxin, asked, queueState, ticket>>
    BY <1>1 DEF Sent, queueVars, inVars, handlerVars, queueState
<1>3. ~Waits(c) /\ "rest" \in Active /\ "rest" # "add"
    BY <1>1 DEF Waits, Waiting, Active
<1> QED
    BY <1>1, <1>2, <1>3, CallerDrops

LEMMA CyclicSteps ==
  ASSUME MailboxInv, SlotInv, NEW c \in Callers, CyclicCall(c)
  PROVE  MailboxInv'
<1> USE DEF poolVars, inVars, handlerVars
<1>1. CASE AddQueue(c)
    BY <1>1, AddStep, NoPlaceStep
<1>2. CASE DoneQueue(c)
  <2>1. /\ pc[c] = "poll" /\ Waits(c)
        /\ UNCHANGED <<mbxpool, mbx, own, asked, coembxin, head, tail, count, hpc, loc, found, listleft>>
      BY <1>2 DEF DoneQueue, Waits, Waiting, Sent
  <2>2. CASE GiveBack(c) /\ Sent(c, 1, "slot")
      BY <2>1, <2>2, GiveBackStep DEF Sent
  <2>3. CASE Goto(c, "expire") /\ UNCHANGED <<place, mbxticket, ticket>>
    <3>1. /\ QueueInv' /\ OwnerInv' /\ PoolType'
        BY <2>1, <2>3, BuffersStay DEF MailboxInv, MailboxType, QueueInv, QueueType, HandlerType,
           RingInv, TicketInv, HandlerInv, InUse, Out
    <3>2. pc'[c] = "expire" /\ \A d \in Callers : d # c => pc'[d] = pc[d]
        BY <2>3 DEF Goto, MailboxInv, MailboxType, CallType
    <3>3. \A d \in Callers : Waits(d)' <=> Waits(d)
        BY <2>1, <3>2 DEF Waits, Waiting
    <3>4. HolderInv'
        BY <2>1, <2>3, <3>3 DEF MailboxInv, HolderInv, Asked, Out
    <3>5. own'[c] = Null /\ ticket' \in [Callers -> Tickets]
        BY <2>1, <2>3 DEF MailboxInv, CallInv, EmptyAt, MailboxType, CallType
    <3>6. "expire" \in Active \cup Waiting
        BY DEF Waiting
    <3> QED
        BY <2>1, <2>3, <3>1, <3>4, <3>5, <3>6, CallParts
  <2> QED
      BY <1>2, <2>2, <2>3 DEF DoneQueue
<1>3. CASE ExpireQueue(c)
    BY <1>3, GiveBackStep DEF ExpireQueue, Waits, Waiting, Sent
<1>4. CASE SeeSlot(c) \/ CopySlot(c) \/ ClearSlot(c)
  <2>1. /\ pc[c] \in {"slot", "grab", "clear"} /\ own[c] = Null /\ ~Waits(c)
        /\ UNCHANGED <<mbxpool, mbx, asked, queueState, ticket>>
      BY <1>4 DEF SeeSlot, CopySlot, ClearSlot, SlotStep, Timeless, queueVars, queueState,
         MailboxInv, CallInv, EmptyAt, Waits, Waiting
  <2>2. Target[c] \in Slaves
      BY MailboxAssumption
  <2>3. CASE ClearSlot(c)
    <3>1. Received(c, coembxin[Target[c]]) /\ coembxin' = [coembxin EXCEPT ![Target[c]] = Null]
        BY <2>3 DEF ClearSlot, SlotInv
    <3>2. OwnerInv' /\ PoolType'
        BY <2>1, <2>2, <3>1, BufferFromSlot DEF Received, queueState, MailboxInv, MailboxType
    <3>3. \A d \in Callers : d # c => own'[d] = own[d]
        BY <3>1 DEF Received, MailboxInv, MailboxType, PoolType
    <3>4. Goto(c, "drop") /\ DOMAIN asked' = Callers
        BY <2>1, <3>1 DEF Received, MailboxInv, MailboxType, CallType
    <3>5. "drop" \in Active /\ "drop" \notin EmptyAt /\ "drop" # "add"
        BY DEF Active, EmptyAt
    <3> QED
        BY <2>1, <3>2, <3>3, <3>4, <3>5, CallerMoves
  <2>4. CASE SeeSlot(c) \/ CopySlot(c)
    <3>1. UNCHANGED <<own, coembxin>> /\ \E at \in {"grab", "drop", "clear"} : Goto(c, at)
        BY <2>1, <2>4 DEF SeeSlot, CopySlot, Received, MailboxInv, MailboxType, PoolType
    <3>2. PICK at \in {"grab", "drop", "clear"} : Goto(c, at)
        BY <3>1
    <3>3. at \in Active /\ at # "add" /\ (at \in EmptyAt => pc[c] \in EmptyAt)
        BY <2>1 DEF Active, EmptyAt
    <3> QED
        BY <2>1, <3>1, <3>2, <3>3, CallerKeeps
  <2> QED
      BY <1>4, <2>3, <2>4
<1> QED
    BY <1>1, <1>2, <1>3, <1>4 DEF CyclicCall

(***************************************************************************)
(* The in-slots: a caller that has seen one full finds it as it was.       *)
(***************************************************************************)
LEMMA SlotElsewhere ==
  ASSUME SlotInv, NEW c \in Callers, NEW at, Goto(c, at), at \notin {"grab", "clear"},
         at # "rest" => c \in scene.callers, UNCHANGED <<scene, coembxin, inptr>>
  PROVE  SlotInv'
<1>1. \A d \in Callers : pc'[d] = IF d = c THEN at ELSE pc[d]
    BY DEF Goto, SlotInv
<1>2. \A d \in Callers : Cyclic(Target[d])' <=> Cyclic(Target[d])
    BY DEF Cyclic, EnableMbxCyclicForCoe
<1>3. DOMAIN pc' = Callers
    BY DEF Goto, SlotInv
<1> QED
    BY <1>1, <1>2, <1>3 DEF SlotInv

LEMMA SlotHandler ==
  ASSUME SlotInv, UNCHANGED <<scene, pc, inptr>>, DOMAIN coembxin' = Slaves,
         \A s \in Slaves : coembxin[s] # Null => coembxin'[s] = coembxin[s]
  PROVE  SlotInv'
<1>1. \A d \in Callers : Cyclic(Target[d])' <=> Cyclic(Target[d])
    BY DEF Cyclic, EnableMbxCyclicForCoe
<1>2. \A d \in Callers : Target[d] \in Slaves
    BY MailboxAssumption
<1> QED
    BY <1>1, <1>2 DEF SlotInv

LEMMA SlotTalk ==
  ASSUME SlotInv, scene' = scene, NEW c \in Callers, Talk(c) \/ Expire(c), UNCHANGED inVars
  PROVE  SlotInv'
<1>0. UNCHANGED <<coembxin, inptr>> /\ DOMAIN coembxin' = Slaves
    BY DEF inVars, SlotInv
<1>1. c \in scene.callers \/ pc[c] = "rest"
    BY DEF SlotInv
<1>2. CASE Expire(c)
    BY <1>0, <1>2, SlotHandler DEF Expire
<1>3. CASE Begin(c, Receive(c))
    BY <1>0, <1>3, SlotElsewhere DEF Begin, Receive
<1>4. CASE Release(c)
    BY <1>0, <1>1, <1>4, SlotElsewhere DEF Release
<1>5. CASE Ask(c, Send(c))
  <2>1. PICK at \in {"rest", "add", "write"} : Goto(c, at)
      BY <1>5 DEF Ask, Send
  <2> QED
      BY <1>0, <1>1, <1>5, <2>1, SlotElsewhere DEF Ask
<1> QED
    BY <1>2, <1>3, <1>4, <1>5 DEF Talk

LEMMA SlotDirect ==
  ASSUME SlotInv, scene' = scene, NEW c \in Callers, DirectStep(c) \/ Turn(c), UNCHANGED inVars
  PROVE  SlotInv'
<1>0. UNCHANGED <<coembxin, inptr>> /\ DOMAIN coembxin' = Slaves
    BY DEF inVars, SlotInv
<1>1. c \in scene.callers \/ pc[c] = "rest"
    BY DEF SlotInv
<1>2. CASE Turn(c)
    BY <1>0, <1>2, SlotHandler DEF Turn, callVars
<1>3. CASE Refuse(c) \/ Write(c) \/ Empty(c)
  <2>1. pc[c] \in {"write", "retry", "empty"}
      BY <1>3 DEF Refuse, Write, Empty
  <2>2. PICK at \in {"rest", "status", "empty", "retry"} : Goto(c, at)
      BY <1>3 DEF Refuse, Write, Empty, GiveUp, Sent
  <2> QED
      BY <1>0, <1>1, <2>1, <2>2, SlotElsewhere
<1>4. CASE Status(c) \/ ReadAnswer(c)
  <2>1. pc[c] \in {"status", "read"}
      BY <1>4 DEF Status, ReadAnswer
  <2>2. PICK at \in {"read", "drop", "statex", "crashed"} : Goto(c, at)
    <3>1. CASE Status(c)
        BY <3>1 DEF Status, Received
    <3>2. CASE ReadAnswer(c)
      <4>1. Again(c, "read") \in {"read", "drop"}
          BY DEF Again
      <4> QED
          BY <3>2, <4>1 DEF ReadAnswer, Received
    <3> QED
        BY <1>4, <3>1, <3>2
  <2> QED
      BY <1>0, <1>1, <2>1, <2>2, SlotElsewhere
<1>5. CASE Statex(c) \/ Toggle(c) \/ Ack(c) \/ Full(c)
  <2>1. pc[c] \in {"statex", "toggle", "ack", "full"}
      BY <1>5 DEF Statex, Toggle, Ack, Full
  <2>2. PICK at \in {"toggle", "ack", "full", "read", "drop"} : Goto(c, at)
      BY <1>5 DEF Statex, Toggle, Ack, Full, Again
  <2> QED
      BY <1>0, <1>1, <2>1, <2>2, SlotElsewhere
<1> QED
    BY <1>2, <1>3, <1>4, <1>5 DEF DirectStep

LEMMA SlotCyclic ==
  ASSUME SlotInv, AloneAtSlot, scene' = scene, NEW c \in Callers, Cyclic(Target[c]), CyclicCall(c)
  PROVE  SlotInv'
<1>1. c \in scene.callers
    BY DEF SlotInv, CyclicCall, AddQueue, DoneQueue, ExpireQueue, SeeSlot, CopySlot, ClearSlot
<1>2. CASE AddQueue(c) \/ DoneQueue(c) \/ ExpireQueue(c)
  <2>1. UNCHANGED <<coembxin, inptr>>
      BY <1>2 DEF AddQueue, DoneQueue, ExpireQueue, inVars
  <2>2. PICK at \in {"poll", "rest", "slot", "expire"} : Goto(c, at)
      BY <1>2 DEF AddQueue, DoneQueue, ExpireQueue, Sent
  <2> QED
      BY <1>1, <2>1, <2>2, SlotElsewhere
<1>a. Target[c] \in Slaves /\ Cyclic(Target[c])' /\ \A d \in Callers : Cyclic(Target[d])' <=> Cyclic(Target[d])
    BY MailboxAssumption DEF Cyclic, EnableMbxCyclicForCoe
<1>b. \A d \in Callers : d # c /\ pc[d] # "rest" => Target[d] # Target[c]
    BY <1>1 DEF SlotInv, AloneAtSlot
<1>3. CASE SeeSlot(c)
  <2>1. UNCHANGED <<coembxin, inptr>>
      BY <1>3 DEF SeeSlot
  <2>2. CASE coembxin[Target[c]] = Null
      BY <1>1, <1>3, <2>1, <2>2, SlotElsewhere DEF SeeSlot, Received
  <2>3. CASE coembxin[Target[c]] # Null
    <3>1. pc' = [pc EXCEPT ![c] = "grab"]
        BY <1>3, <2>3 DEF SeeSlot, Goto
    <3>2. \A d \in Callers : pc'[d] = IF d = c THEN "grab" ELSE pc[d]
        BY <3>1 DEF SlotInv
    <3>3. DOMAIN pc' = Callers
        BY <3>1 DEF SlotInv
    <3> QED
        BY <1>1, <1>a, <2>1, <2>3, <3>2, <3>3 DEF SlotInv
  <2> QED
      BY <2>2, <2>3
<1>4. CASE CopySlot(c)
  <2>1. /\ pc[c] = "grab" /\ pc' = [pc EXCEPT ![c] = "clear"] /\ UNCHANGED coembxin
        /\ inptr' = [inptr EXCEPT ![c] = coembxin[Target[c]]]
      BY <1>4 DEF CopySlot, Goto
  <2>2. /\ \A d \in Callers : pc'[d] = IF d = c THEN "clear" ELSE pc[d]
        /\ \A d \in Callers : inptr'[d] = IF d = c THEN coembxin[Target[c]] ELSE inptr[d]
        /\ DOMAIN pc' = Callers /\ DOMAIN inptr' = Callers
      BY <2>1 DEF SlotInv
  <2> QED
      BY <1>1, <1>a, <2>1, <2>2 DEF SlotInv
<1>5. CASE ClearSlot(c)
  <2>1. /\ pc' = [pc EXCEPT ![c] = "drop"] /\ inptr' = [inptr EXCEPT ![c] = Null]
        /\ coembxin' = [coembxin EXCEPT ![Target[c]] = Null]
      BY <1>5 DEF ClearSlot, Received, Goto
  <2>2. /\ \A d \in Callers : pc'[d] = IF d = c THEN "drop" ELSE pc[d]
        /\ \A d \in Callers : d # c => inptr'[d] = inptr[d]
        /\ \A s \in Slaves : s # Target[c] => coembxin'[s] = coembxin[s]
        /\ DOMAIN pc' = Callers /\ DOMAIN inptr' = Callers /\ DOMAIN coembxin' = Slaves
      BY <2>1 DEF SlotInv
  <2>3. ASSUME NEW d \in Callers, pc'[d] \in {"grab", "clear"}
        PROVE  /\ d # c /\ pc'[d] = pc[d] /\ coembxin'[Target[d]] = coembxin[Target[d]]
               /\ inptr'[d] = inptr[d]
      BY <1>b, <2>2, <2>3, MailboxAssumption
  <2>4. \A d \in Callers : pc'[d] # "rest" => d \in scene'.callers
      BY <1>1, <2>2 DEF SlotInv
  <2> QED
      BY <1>a, <2>2, <2>3, <2>4 DEF SlotInv
<1> QED
    BY <1>2, <1>3, <1>4, <1>5 DEF CyclicCall

LEMMA SlotInit == Init => SlotInv
BY DEF Init, LinkInit, CyclicInit, SlotInv

LEMMA NextSlot ==
  ASSUME SlotInv, AloneAtSlot, [Next]_vars
  PROVE  SlotInv'
<1>0. DOMAIN coembxin = Slaves
    BY DEF SlotInv
<1>1. CASE UNCHANGED vars
    BY <1>0, <1>1, SlotHandler DEF vars, callVars, inVars
<1>2. ASSUME scene' = scene, NEW c \in Callers, CallStep(c) PROVE SlotInv'
    BY <1>2, SlotTalk, SlotDirect, SlotCyclic DEF CallStep
<1>3. ASSUME scene' = scene, NEW s \in Slaves, SlaveStep(s) PROVE SlotInv'
  <2>1. UNCHANGED <<pc, coembxin, inptr>>
      BY <1>3 DEF SlaveStep, Serve, Repeat, Alarm, callVars, inVars
  <2> QED
      BY <1>0, <1>3, <2>1, SlotHandler
<1>4. ASSUME scene' = scene, HandlerStep PROVE SlotInv'
  <2>1. UNCHANGED <<pc, inptr>>
      BY <1>4 DEF HandlerStep, Exchange, OutBegin, Pick, WriteOut, Written, Rotate, DropQueue,
         PassBy, GiveUpRmp, Rmp, Fetch, callVars, inVars
  <2>2. CASE ~\E s \in Slaves : Fetch(s)
    <3>1. UNCHANGED coembxin
        BY <1>4, <2>2 DEF HandlerStep, Exchange, OutBegin, Pick, WriteOut, Written, Rotate, DropQueue,
           PassBy, GiveUpRmp, Rmp, inVars
    <3> QED
        BY <1>0, <1>4, <2>1, <3>1, SlotHandler
  <2>3. CASE \E s \in Slaves : Fetch(s)
    <3>1. PICK s \in Slaves : Fetch(s)
        BY <2>3
    <3>2. UNCHANGED coembxin \/ (coembxin[s] = Null /\ coembxin' = [coembxin EXCEPT ![s] = Free])
        BY <3>1 DEF Fetch, Keep
    <3>3. DOMAIN coembxin' = Slaves /\ \A t \in Slaves : coembxin[t] # Null => coembxin'[t] = coembxin[t]
        BY <1>0, <3>2
    <3> QED
        BY <1>4, <2>1, <3>3, SlotHandler
  <2> QED
      BY <2>2, <2>3
<1> QED
    BY <1>1, <1>2, <1>3, <1>4 DEF Next

-----------------------------------------------------------------------------
LEMMA InitMailbox == Init => MailboxInv
<1> SUFFICES ASSUME Init PROVE MailboxInv
    OBVIOUS
<1>0. /\ EC_MBXPOOLSIZE \in Nat /\ EC_MBXPOOLSIZE # 0 /\ Places = 0 .. EC_MBXPOOLSIZE - 1
      /\ Null \notin Bufs
    BY MailboxAssumption DEF Places, Bufs
<1> USE DEF Init, LinkInit, DirectInit, CyclicInit
<1>1. MailboxType
  <2>1. PoolType
      BY DEF PoolType
  <2>2. CallType
      BY <1>0 DEF CallType, Active, Tickets
  <2>3. QueueType /\ HandlerType
      BY <1>0 DEF QueueType, HandlerType, Entry, Nowhere, Tickets
  <2> QED
      BY <2>1, <2>2, <2>3 DEF MailboxType
<1>2. OwnerInv
  <2>1. /\ \A c \in Callers : own[c] = Null
        /\ \A i \in Places : place[i].buf = Null
        /\ \A s \in Slaves : coembxin[s] = Null
      BY DEF Nowhere
  <2> QED
      BY <1>0, <2>1 DEF OwnerInv, OneOf, SomeOf
<1>3. CallInv /\ HolderInv
    BY DEF CallInv, HolderInv, Waits, Waiting
<1>4. RingInv /\ TicketInv /\ HandlerInv
    BY <1>0 DEF RingInv, TicketInv, HandlerInv, Out
<1> QED
    BY <1>1, <1>2, <1>3, <1>4 DEF MailboxInv

(* Every step keeps the invariant, as long as the model runs. *)
LEMMA NextMailbox ==
  ASSUME MailboxInv, SlotInv, Running', [Next]_vars
  PROVE  MailboxInv'
<1>1. CASE UNCHANGED vars
    BY <1>1, NothingMoves DEF vars, poolVars, callVars, queueVars, inVars, handlerVars, queueState
<1>2. ASSUME NEW c \in Callers, CallStep(c) PROVE MailboxInv'
  <2>1. CASE (Talk(c) \/ Expire(c)) /\ UNCHANGED <<statex, queueVars, inVars, handlerVars>>
      BY <2>1, TalkStep
  <2>2. CASE (DirectStep(c) \/ Turn(c)) /\ UNCHANGED <<queueVars, inVars, handlerVars>>
      BY <2>2, DirectSteps
  <2>3. CASE CyclicCall(c)
      BY <2>3, CyclicSteps
  <2> QED
      BY <1>2, <2>1, <2>2, <2>3 DEF CallStep
<1>3. ASSUME NEW s \in Slaves, SlaveStep(s) PROVE MailboxInv'
  <2>1. UNCHANGED <<poolVars, callVars, queueVars, inVars, handlerVars>>
      BY <1>3 DEF SlaveStep, Serve, Repeat, Alarm
  <2> QED
      BY <2>1, NothingMoves DEF poolVars, callVars, queueVars, inVars, handlerVars, queueState
<1>4. ASSUME HandlerStep PROVE MailboxInv'
  <2>1. CASE OutBegin \/ Pick \/ WriteOut \/ Written \/ Rotate \/ DropQueue
      BY <2>1, OutSteps DEF Running
  <2>2. CASE \E s \in Slaves : Exchange \/ PassBy(s) \/ GiveUpRmp(s) \/ Rmp(s) \/ Fetch(s)
      BY <2>2, InSteps
  <2>3. CASE Exchange
    <3>1. OwnerInv' /\ PoolType'
        BY <2>3, BuffersStay DEF Exchange, MailboxInv, MailboxType, poolVars, callVars, queueVars
    <3> QED
        BY <2>3, <3>1, InStep DEF Exchange, InBegin, poolVars, callVars, queueVars
  <2> QED
      BY <1>4, <2>1, <2>2, <2>3 DEF HandlerStep
<1> QED
    BY <1>1, <1>2, <1>3, <1>4 DEF Next

(* What the invariant says of a buffer's owners and of a caller's ticket. *)
LEMMA InvIsOneOwner ==
  ASSUME MailboxInv
  PROVE  OneOwner
<1> SUFFICES ASSUME NEW b \in Bufs PROVE Owners(b) = 1
    BY DEF OneOwner
<1> DEFINE calls == {c \in Callers : own[c] = b}
           rings == {i \in Places : place[i].buf = b}
           slots == {s \in Slaves : coembxin[s] = b}
<1>1. OneOf(b) /\ SomeOf(b)
    BY DEF MailboxInv, OwnerInv
<1>2. Cardinality({}) = 0 /\ \A x : Cardinality({x}) = 1
    BY FS_EmptySet, FS_Singleton
<1>3. Owners(b) = Cardinality(calls) + Cardinality(rings) + Cardinality(slots)
                    + (IF b \in mbxpool THEN 1 ELSE 0)
    BY DEF Owners
<1>4. CASE b \in mbxpool
  <2>1. calls = {} /\ rings = {} /\ slots = {}
      BY <1>1, <1>4 DEF OneOf
  <2>2. Cardinality(calls) = 0 /\ Cardinality(rings) = 0 /\ Cardinality(slots) = 0
      BY <1>2, <2>1
  <2> HIDE DEF calls, rings, slots
  <2> QED
      BY <1>3, <1>4, <2>2
<1>5. ASSUME NEW c \in Callers, own[c] = b PROVE Owners(b) = 1
  <2>1. calls = {c} /\ rings = {} /\ slots = {} /\ b \notin mbxpool
      BY <1>1, <1>5 DEF OneOf
  <2>2. Cardinality(calls) = 1 /\ Cardinality(rings) = 0 /\ Cardinality(slots) = 0
      BY <1>2, <2>1
  <2> HIDE DEF calls, rings, slots
  <2> QED
      BY <1>3, <2>1, <2>2
<1>6. ASSUME NEW i \in Places, place[i].buf = b PROVE Owners(b) = 1
  <2>1. calls = {} /\ rings = {i} /\ slots = {} /\ b \notin mbxpool
      BY <1>1, <1>6 DEF OneOf
  <2>2. Cardinality(calls) = 0 /\ Cardinality(rings) = 1 /\ Cardinality(slots) = 0
      BY <1>2, <2>1
  <2> HIDE DEF calls, rings, slots
  <2> QED
      BY <1>3, <2>1, <2>2
<1>7. ASSUME NEW s \in Slaves, coembxin[s] = b PROVE Owners(b) = 1
  <2>1. calls = {} /\ rings = {} /\ slots = {s} /\ b \notin mbxpool
      BY <1>1, <1>7 DEF OneOf
  <2>2. Cardinality(calls) = 0 /\ Cardinality(rings) = 0 /\ Cardinality(slots) = 1
      BY <1>2, <2>1
  <2> HIDE DEF calls, rings, slots
  <2> QED
      BY <1>3, <2>1, <2>2
<1> QED
    BY <1>1, <1>4, <1>5, <1>6, <1>7 DEF SomeOf

LEMMA InvIsTicketIsOwn ==
  ASSUME MailboxInv
  PROVE  TicketIsOwn
<1> SUFFICES ASSUME NEW c \in Callers, Waits(c)
             PROVE  LET i == mbxticket[ticket[c]] IN
                    /\ i >= 0 /\ InRing(i) /\ place[i].slave = Target[c] /\ ~place[i].remove
                    /\ place[i].buf # Null =>
                         mbx[place[i].buf].by = c /\ mbx[place[i].buf].id = asked[c]
                    /\ \A d \in Callers \ {c} : ticket[d] # ticket[c]
    BY DEF TicketIsOwn, Waits, Waiting
<1>1. /\ mbxticket[ticket[c]] \in Places /\ InUse(mbxticket[ticket[c]])
      /\ place[mbxticket[ticket[c]]].slave = Target[c] /\ ~place[mbxticket[ticket[c]]].remove
      /\ Asked(c, place[mbxticket[ticket[c]]].buf)
      /\ \A d \in Callers : ticket[d] = ticket[c] => d = c
    BY WaitingHolds
<1>2. ASSUME NEW i \in Places, InUse(i) PROVE i >= 0 /\ InRing(i)
  <2>1. /\ EC_MBXPOOLSIZE \in Nat /\ EC_MBXPOOLSIZE # 0 /\ i \in Nat /\ tail \in Nat /\ count \in Nat
        /\ i < EC_MBXPOOLSIZE /\ tail < EC_MBXPOOLSIZE
      BY MailboxAssumption DEF MailboxInv, MailboxType, QueueType, Places
  <2>2. CASE tail <= i
    <3>1. (i - tail) % EC_MBXPOOLSIZE = i - tail /\ i - tail < count
        BY <1>2, <2>1, <2>2 DEF InUse
    <3> QED
        BY <2>1, <3>1 DEF InRing
  <2>3. CASE i < tail
    <3>1. (i - tail) % EC_MBXPOOLSIZE = i - tail + EC_MBXPOOLSIZE
        BY <2>1, <2>3
    <3>2. i - tail + EC_MBXPOOLSIZE < count
        BY <1>2, <2>1, <2>3 DEF InUse
    <3> QED
        BY <2>1, <3>1, <3>2 DEF InRing
  <2> QED
      BY <2>1, <2>2, <2>3
<1> QED
    BY <1>1, <1>2 DEF Asked

(***************************************************************************)
(* The theorems.                                                           *)
(***************************************************************************)

(* The inductive invariant: it holds as long as the model runs and no two  *)
(* callers share an in-slot.                                               *)
THEOREM MailboxCorrect == Spec => [](AloneAtSlot /\ Running => MailboxInv /\ SlotInv)
<1>1. Init => (AloneAtSlot /\ Running => MailboxInv /\ SlotInv)
    BY InitMailbox, SlotInit
<1>2. /\ AloneAtSlot /\ Running => MailboxInv /\ SlotInv
      /\ [Next]_vars
      => (AloneAtSlot /\ Running => MailboxInv /\ SlotInv)'
  <2> SUFFICES ASSUME AloneAtSlot /\ Running => MailboxInv /\ SlotInv, [Next]_vars,
                      AloneAtSlot', Running'
               PROVE  MailboxInv' /\ SlotInv'
      OBVIOUS
  <2>1. scene' = scene
      BY DEF Next, vars
  <2>2. AloneAtSlot
      BY <2>1 DEF AloneAtSlot, Cyclic, EnableMbxCyclicForCoe
  <2>3. Running
      BY DEF Next, vars, Running, handlerVars, callVars
  <2> QED
      BY <2>2, <2>3, NextMailbox, NextSlot
<1> QED
    BY <1>1, <1>2, PTL DEF Spec

(* No buffer of the pool is lost or given out twice. *)
THEOREM BufferHasOneOwner == Spec => []OneOwner
<1>1. (AloneAtSlot /\ Running => MailboxInv /\ SlotInv) => OneOwner
    BY InvIsOneOwner DEF OneOwner
<1> QED
    BY <1>1, MailboxCorrect, PTL

(* A caller's ticket stands for its own request, wherever the handler's    *)
(* rotation has carried it.                                                *)
THEOREM TicketStaysOwn == Spec => []TicketIsOwn
<1>1. (AloneAtSlot /\ Running => MailboxInv /\ SlotInv) => TicketIsOwn
    BY InvIsTicketIsOwn DEF TicketIsOwn
<1> QED
    BY <1>1, MailboxCorrect, PTL

-----------------------------------------------------------------------------
(***************************************************************************)
(* The order of a slave's messages.  The number of the last one the master *)
(* dealt with, and whether one that can be read now may be dealt with.     *)
(***************************************************************************)
Fields == {"in", "out", "last", "missed", "repeat", "ack", "hasty", "posted", "cnt", "took"}
Dealt(s) == IF seen[s] = <<>> THEN 0 ELSE Last(seen[s])
Fresh(s) == Dealt(s) < slave[s].posted \/ slave[s].hasty \/ Erred(s)

SlaveType(s) ==
  /\ DOMAIN slave[s] = Fields
  /\ slave[s].posted \in Nat /\ slave[s].missed \in BOOLEAN /\ slave[s].hasty \in BOOLEAN
  /\ seen[s] \in Seq(Nat) /\ Dealt(s) \in Nat

(* Only the last message is ever in the mailbox; one that was not dealt    *)
(* with is there, or was lost on its way, or a later one came after it.    *)
Ordered(s) ==
  /\ Dealt(s) <= slave[s].posted
  /\ Dealt(s) + 1 .. slave[s].posted - 1 \subseteq skipped[s]
  /\ slave[s].posted = 0 <=> slave[s].last = Null
  /\ slave[s].posted # 0 => slave[s].last.id = slave[s].posted
  /\ slave[s].out # Null => slave[s].out = slave[s].last
  /\ slave[s].out = Null /\ Dealt(s) < slave[s].posted => slave[s].missed
  /\ slave[s].out # Null \/ slave[s].repeat # slave[s].ack => Fresh(s)
SlaveOk(s) == SlaveType(s) /\ Ordered(s)

(* A caller that reads a mailbox or has it repeated, and the handler while *)
(* it has a message repeated or has still to come to a full mailbox.       *)
Reading == {"read", "statex", "toggle", "ack", "full"}
OffsetOf(v) == IF firstpos + v >= Len(Lookup) THEN firstpos + v - Len(Lookup) ELSE firstpos + v
Ahead(s) == hpc = "in" /\ \E v \in visit .. Len(Lookup) - 1 : Lookup[OffsetOf(v) + 1] = s
ReaderInv ==
  /\ \A c \in Callers : pc[c] # "rest" => c \in scene.callers
  /\ \A c \in Callers : ~Cyclic(Target[c]) /\ pc[c] \in Reading => Fresh(Target[c])
  /\ \A s \in Slaves : Cyclic(s) /\ (rmp[s] # 0 \/ (Ahead(s) /\ status[s])) => Fresh(s)
VisitInv ==
  /\ lastpos \in 0 .. Len(Lookup) - 1
  /\ hpc = "in" => firstpos \in 1 .. Len(Lookup) /\ visit \in 0 .. Len(Lookup) - 1
DomainInv ==
  /\ scene \in Scenes
  /\ DOMAIN slave = Slaves /\ DOMAIN seen = Slaves /\ DOMAIN skipped = Slaves
  /\ DOMAIN status = Slaves /\ DOMAIN rmp = Slaves /\ DOMAIN pc = Callers

OrderInv == DomainInv /\ (\A s \in Slaves : SlaveOk(s)) /\ ReaderInv /\ VisitInv

-----------------------------------------------------------------------------
(* The last of a sequence that another number has been put to. *)
LEMMA AppendIs ==
  ASSUME NEW q \in Seq(Nat), NEW n \in Nat
  PROVE  /\ Append(q, n) \in Seq(Nat) /\ Append(q, n) # <<>> /\ Append(q, n) # q
         /\ Last(Append(q, n)) = n
<1> DEFINE k == Len(q)
<1>1. k \in Nat /\ Len(Append(q, n)) = k + 1 /\ Len(<<>>) = 0
    OBVIOUS
<1>2. Append(q, n)[k + 1] = n /\ Append(q, n) \in Seq(Nat)
    OBVIOUS
<1>3. Last(Append(q, n)) = n
    BY <1>1, <1>2 DEF Last
<1> HIDE DEF k
<1> QED
    BY <1>1, <1>2, <1>3

(***************************************************************************)
(* What a step may do to one slave's messages, and that it keeps them in   *)
(* order.  None but a read makes a fresh message stale.                    *)
(***************************************************************************)
Keeps(s) == SlaveOk(s)' /\ (Fresh(s) => Fresh(s)') /\ seen'[s] = seen[s]

(* Nothing of it changes but the request, or what was taken. *)
LEMMA SameMessages ==
  ASSUME NEW s \in Slaves, SlaveOk(s), scene' = scene,
         DOMAIN slave'[s] = Fields,
         slave'[s].out = slave[s].out, slave'[s].last = slave[s].last,
         slave'[s].missed = slave[s].missed, slave'[s].hasty = slave[s].hasty,
         slave'[s].repeat = slave[s].repeat, slave'[s].ack = slave[s].ack,
         slave'[s].posted = slave[s].posted,
         seen'[s] = seen[s], skipped'[s] = skipped[s]
  PROVE  Keeps(s)
<1>1. Dealt(s)' = Dealt(s) /\ Cyclic(s)' = Cyclic(s)
    BY DEF Dealt, Cyclic, EnableMbxCyclicForCoe
<1>2. SlaveType(s)' /\ Fresh(s)' = Fresh(s)
    BY <1>1 DEF SlaveOk, SlaveType, Fresh, Erred
<1>3. Ordered(s)'
    BY <1>1, <1>2 DEF SlaveOk, Ordered
<1> QED
    BY <1>2, <1>3 DEF SlaveOk, Keeps

(* The slave posts another message. *)
LEMMA PostKeeps ==
  ASSUME NEW s \in Slaves, SlaveOk(s), scene' = scene,
         NEW kind \in {"answer", "emergency", "error"},
         slave[s].out = Null, Obeyed(s),
         NEW r, DOMAIN r = Fields,
         r.posted = slave[s].posted, r.repeat = slave[s].repeat, r.ack = slave[s].ack,
         slave'[s] = Post(s, r, kind),
         seen'[s] = seen[s], skipped'[s] = skipped[s] \cup Overwrites(s)
  PROVE  Keeps(s)
<1> DEFINE n == slave[s].posted
           m == Message(kind, n + 1)
<1>1. n \in Nat /\ Dealt(s) \in Nat /\ Dealt(s) <= n
    BY DEF SlaveOk, SlaveType, Ordered
<1>2. m # Null /\ m.id = n + 1 /\ m.kind = kind
  <2>1. m \in [kind : {"answer", "emergency", "error"}, id : Nat]
      BY <1>1 DEF Message
  <2> QED
      BY <2>1, MailboxAssumption DEF Message
<1>3. /\ DOMAIN slave'[s] = Fields /\ slave'[s].posted = n + 1
      /\ slave'[s].out = m /\ slave'[s].last = m
      /\ slave'[s].missed = FALSE /\ slave'[s].hasty = FALSE
      /\ slave'[s].repeat = slave[s].repeat /\ slave'[s].ack = slave[s].ack
    BY DEF Post, Fields
<1>4. Dealt(s)' = Dealt(s) /\ Cyclic(s)' = Cyclic(s)
    BY DEF Dealt, Cyclic, EnableMbxCyclicForCoe
<1>5. Dealt(s)' + 1 .. slave'[s].posted - 1 \subseteq skipped'[s]
  <2>1. ASSUME NEW k \in Dealt(s) + 1 .. n PROVE k \in skipped'[s]
    <3>1. CASE k # n
        BY <1>1, <2>1, <3>1 DEF SlaveOk, Ordered
    <3>2. CASE k = n
      <4>1. n # 0 /\ Dealt(s) < n
          BY <1>1, <2>1, <3>2
      <4>2. slave[s].missed /\ slave[s].last.id = n
          BY <4>1 DEF SlaveOk, Ordered
      <4> QED
          BY <3>2, <4>2 DEF Overwrites
    <3> QED
        BY <3>1, <3>2
  <2> QED
      BY <1>1, <1>3, <1>4, <2>1
<1> HIDE DEF m, n
<1>6. SlaveType(s)' /\ Fresh(s)'
  <2>1. slave'[s].posted \in Nat /\ Dealt(s)' \in Nat /\ Dealt(s)' < slave'[s].posted
      BY <1>1, <1>3, <1>4
  <2>2. seen'[s] \in Seq(Nat)
      BY DEF SlaveOk, SlaveType
  <2> QED
      BY <1>3, <2>1, <2>2 DEF SlaveType, Fresh
<1>7. Ordered(s)'
    BY <1>1, <1>2, <1>3, <1>4, <1>5, <1>6 DEF Ordered
<1> QED
    BY <1>6, <1>7 DEF SlaveOk, Keeps

(* It obeys the repeat bit. *)
LEMMA RepeatKeeps ==
  ASSUME NEW s \in Slaves, SlaveOk(s), scene' = scene, ~Obeyed(s),
         DOMAIN slave'[s] = Fields,
         slave'[s].out = (IF slave[s].out = Null THEN slave[s].last ELSE slave[s].out),
         slave'[s].last = slave[s].last,
         slave'[s].missed = FALSE, slave'[s].hasty = slave[s].hasty,
         slave'[s].repeat = slave[s].repeat, slave'[s].ack = slave[s].repeat,
         slave'[s].posted = slave[s].posted,
         seen'[s] = seen[s], skipped'[s] = skipped[s]
  PROVE  Keeps(s)
<1>1. Dealt(s)' = Dealt(s) /\ Cyclic(s)' = Cyclic(s)
    BY DEF Dealt, Cyclic, EnableMbxCyclicForCoe
<1>2. SlaveType(s)' /\ Fresh(s)' = Fresh(s) /\ Fresh(s)
    BY <1>1 DEF SlaveOk, SlaveType, Ordered, Fresh, Erred, Obeyed
<1>3. slave'[s].out = Null => ~(Dealt(s) < slave[s].posted)
  <2>1. slave[s].posted \in Nat /\ Dealt(s) \in Nat
      BY DEF SlaveOk, SlaveType
  <2> QED
      BY <2>1 DEF SlaveOk, Ordered
<1>4. Ordered(s)'
    BY <1>1, <1>2, <1>3 DEF SlaveOk, Ordered
<1> QED
    BY <1>2, <1>4 DEF SlaveOk, Keeps

(* Its answer to a read is lost. *)
LEMMA LossKeeps ==
  ASSUME NEW s \in Slaves, SlaveOk(s), scene' = scene,
         slave'[s] = [slave[s] EXCEPT !.out = Null, !.missed = TRUE],
         seen'[s] = seen[s], skipped'[s] = skipped[s]
  PROVE  Keeps(s)
<1>1. /\ DOMAIN slave'[s] = Fields /\ slave'[s].out = Null /\ slave'[s].missed = TRUE
      /\ slave'[s].last = slave[s].last /\ slave'[s].hasty = slave[s].hasty
      /\ slave'[s].repeat = slave[s].repeat /\ slave'[s].ack = slave[s].ack
      /\ slave'[s].posted = slave[s].posted
    BY DEF SlaveOk, SlaveType, Fields
<1>2. Dealt(s)' = Dealt(s) /\ Cyclic(s)' = Cyclic(s)
    BY DEF Dealt, Cyclic, EnableMbxCyclicForCoe
<1>3. SlaveType(s)' /\ Fresh(s)' = Fresh(s)
    BY <1>1, <1>2 DEF SlaveOk, SlaveType, Fresh, Erred
<1>4. Ordered(s)'
    BY <1>1, <1>2, <1>3 DEF SlaveOk, Ordered
<1> QED
    BY <1>3, <1>4 DEF SlaveOk, Keeps

(* Its repeat bit is written, by a reader of a fresh message. *)
LEMMA BitKeeps ==
  ASSUME NEW s \in Slaves, SlaveOk(s), scene' = scene, Fresh(s), NEW bit,
         slave'[s] = [slave[s] EXCEPT !.repeat = bit],
         seen'[s] = seen[s], skipped'[s] = skipped[s]
  PROVE  Keeps(s)
<1>1. /\ DOMAIN slave'[s] = Fields /\ slave'[s].out = slave[s].out
      /\ slave'[s].missed = slave[s].missed
      /\ slave'[s].last = slave[s].last /\ slave'[s].hasty = slave[s].hasty
      /\ slave'[s].posted = slave[s].posted
    BY DEF SlaveOk, SlaveType, Fields
<1>2. Dealt(s)' = Dealt(s) /\ Cyclic(s)' = Cyclic(s)
    BY DEF Dealt, Cyclic, EnableMbxCyclicForCoe
<1>3. SlaveType(s)' /\ Fresh(s)' = Fresh(s)
    BY <1>1, <1>2 DEF SlaveOk, SlaveType, Fresh, Erred
<1>4. Ordered(s)'
    BY <1>1, <1>2, <1>3 DEF SlaveOk, Ordered
<1> QED
    BY <1>3, <1>4 DEF SlaveOk, Keeps

(* The master reads a fresh message and deals with it. *)
InOrder(s) ==
  LET before == Dealt(s)
      now == Last(seen'[s])
  IN \/ now > before /\ before + 1 .. now - 1 \subseteq skipped'[s]
     \/ now = before /\ (slave[s].hasty \/ Erred(s))

LEMMA DealInOrder ==
  ASSUME NEW s \in Slaves, SlaveOk(s), scene' = scene, slave[s].out # Null,
         NEW hasty \in BOOLEAN, hasty <=> ~Obeyed(s),
         slave'[s] = [slave[s] EXCEPT !.out = Null, !.hasty = hasty],
         seen'[s] = Append(seen[s], slave[s].out.id), skipped[s] \subseteq skipped'[s]
  PROVE  /\ SlaveOk(s)' /\ InOrder(s)
         /\ slave'[s].last = slave[s].out
<1> DEFINE n == slave[s].posted
<1>1. n \in Nat /\ Dealt(s) \in Nat /\ Dealt(s) <= n /\ Fresh(s)
    BY DEF SlaveOk, SlaveType, Ordered
<1>2. n # 0 /\ slave[s].out.id = n
    BY DEF SlaveOk, Ordered
<1>3. /\ seen'[s] \in Seq(Nat) /\ seen'[s] # <<>> /\ Last(seen'[s]) = n
    BY <1>1, <1>2, AppendIs DEF SlaveOk, SlaveType
<1>4. Dealt(s)' = n /\ Cyclic(s)' = Cyclic(s)
    BY <1>3 DEF Dealt, Cyclic, EnableMbxCyclicForCoe
<1>5. /\ DOMAIN slave'[s] = Fields /\ slave'[s].out = Null
      /\ slave'[s].missed = slave[s].missed
      /\ slave'[s].last = slave[s].last /\ slave'[s].hasty = hasty
      /\ slave'[s].repeat = slave[s].repeat /\ slave'[s].ack = slave[s].ack
      /\ slave'[s].posted = n
    BY DEF SlaveOk, SlaveType, Fields
<1>6. SlaveType(s)'
    BY <1>1, <1>3, <1>4, <1>5 DEF SlaveOk, SlaveType, Obeyed
<1>7. slave'[s].repeat # slave'[s].ack => Fresh(s)'
    BY <1>5 DEF Fresh, Obeyed
<1>8. n + 1 .. n - 1 = {}
    BY <1>1
<1>9. Ordered(s)'
    BY <1>1, <1>4, <1>5, <1>7, <1>8 DEF SlaveOk, Ordered
<1>10. InOrder(s)
  <2>1. Dealt(s) + 1 .. n - 1 \subseteq skipped'[s]
      BY DEF SlaveOk, Ordered
  <2>2. Dealt(s) < n \/ (Dealt(s) = n /\ (slave[s].hasty \/ Erred(s)))
      BY <1>1 DEF Fresh
  <2> HIDE DEF n
  <2> QED
      BY <1>1, <1>3, <2>1, <2>2 DEF InOrder
<1>11. slave'[s].last = slave[s].out
    BY <1>5 DEF SlaveOk, Ordered
<1> QED
    BY <1>6, <1>9, <1>10, <1>11 DEF SlaveOk

-----------------------------------------------------------------------------
(* All slaves, step by step. *)
AllOk == DomainInv /\ \A s \in Slaves : SlaveOk(s)
AllKeep == \A s \in Slaves : Keeps(s)
Others(t) == /\ \A s \in Slaves \ {t} : slave'[s] = slave[s] /\ seen'[s] = seen[s]
                                        /\ skipped'[s] = skipped[s]
             /\ DOMAIN slave' = Slaves /\ DOMAIN seen' = Slaves /\ DOMAIN skipped' = Slaves

LEMMA OthersKeep ==
  ASSUME AllOk, scene' = scene, NEW t \in Slaves, Others(t)
  PROVE  \A s \in Slaves \ {t} : Keeps(s)
BY SameMessages DEF AllOk, Others, SlaveOk, SlaveType

LEMMA SlavesStay ==
  ASSUME AllOk, UNCHANGED <<scene, slave, seen, skipped>>
  PROVE  AllKeep
BY SameMessages DEF AllOk, AllKeep, SlaveOk, SlaveType

LEMMA ServeKeeps ==
  ASSUME AllOk, scene' = scene, NEW t \in Slaves, Serve(t)
  PROVE  AllKeep /\ Others(t)
<1> DEFINE v == slave[t]
<1>1. SlaveOk(t) /\ DOMAIN v = Fields /\ v.out = Null /\ Obeyed(t) /\ seen' = seen
    BY DEF AllOk, SlaveOk, SlaveType, Serve, handVars, callVars
<1>2. CASE slave' = [slave EXCEPT ![t].in = Null] /\ UNCHANGED skipped
  <2>1. Others(t)
      BY <1>1, <1>2 DEF Others, AllOk, DomainInv
  <2>2. slave'[t] = [v EXCEPT !.in = Null]
      BY <1>2 DEF AllOk, DomainInv
  <2>3. Keeps(t)
      BY <1>1, <1>2, <2>2, SameMessages DEF Fields
  <2> QED
      BY <2>1, <2>3, OthersKeep DEF AllKeep
<1>3. CASE slave[t].in.cnt # slave[t].cnt
  <2> DEFINE r == <<v.in.by, v.in.id>>
  <2> DEFINE w == [v EXCEPT !.in = Null, !.cnt = v.in.cnt, !.took = v.took \cup {r}]
  <2>1. /\ DOMAIN w = Fields /\ w.posted = slave[t].posted
        /\ w.repeat = slave[t].repeat /\ w.ack = slave[t].ack
      BY <1>1 DEF Fields
  <2>2. /\ slave' = [slave EXCEPT ![t] = Post(t, w, "answer")]
        /\ skipped' = [skipped EXCEPT ![t] = skipped[t] \cup Overwrites(t)]
    <3>1. skipped' = [skipped EXCEPT ![t] = skipped[t] \cup Overwrites(t)]
        BY <1>3 DEF Serve
    <3>2. slave' = [slave EXCEPT ![t] = Post(t, w, "answer")]
        BY <1>3 DEF Serve
    <3> QED
        BY <3>1, <3>2
  <2> HIDE DEF w
  <2>3. slave'[t] = Post(t, w, "answer") /\ skipped'[t] = skipped[t] \cup Overwrites(t)
      BY <2>2 DEF AllOk, DomainInv
  <2>4. Others(t)
      BY <1>1, <2>2 DEF Others, AllOk, DomainInv
  <2>5. Keeps(t)
      BY <1>1, <2>1, <2>3, PostKeeps
  <2> QED
      BY <2>4, <2>5, OthersKeep DEF AllKeep
<1> QED
    BY <1>2, <1>3 DEF Serve

LEMMA AlarmKeeps ==
  ASSUME AllOk, scene' = scene, NEW t \in Slaves, NEW kind \in {"emergency", "error"},
         Alarm(t, kind)
  PROVE  AllKeep /\ Others(t)
<1>1. /\ SlaveOk(t) /\ DOMAIN slave[t] = Fields /\ slave[t].out = Null /\ Obeyed(t) /\ seen' = seen
      /\ slave' = [slave EXCEPT ![t] = Post(t, slave[t], kind)]
      /\ skipped' = [skipped EXCEPT ![t] = skipped[t] \cup Overwrites(t)]
    BY DEF AllOk, SlaveOk, SlaveType, Alarm
<1>2. kind \in {"answer", "emergency", "error"}
    OBVIOUS
<1>3. slave'[t] = Post(t, slave[t], kind) /\ skipped'[t] = skipped[t] \cup Overwrites(t)
    BY <1>1 DEF AllOk, DomainInv
<1>4. Others(t)
    BY <1>1 DEF Others, AllOk, DomainInv
<1>5. Keeps(t)
    BY <1>1, <1>2, <1>3, PostKeeps
<1> QED
    BY <1>4, <1>5, OthersKeep DEF AllKeep

LEMMA ObeyKeeps ==
  ASSUME AllOk, scene' = scene, NEW t \in Slaves, Repeat(t)
  PROVE  AllKeep /\ Others(t)
<1> DEFINE v == slave[t]
           w == [v EXCEPT !.ack = v.repeat, !.missed = FALSE,
                          !.out = IF v.out = Null THEN v.last ELSE v.out]
<1>1. SlaveOk(t) /\ DOMAIN v = Fields /\ ~Obeyed(t) /\ seen' = seen /\ skipped' = skipped
    BY DEF AllOk, SlaveOk, SlaveType, Repeat, handVars
<1>2. slave' = [slave EXCEPT ![t] = w]
    BY DEF Repeat
<1>3. slave'[t] = w
    BY <1>2 DEF AllOk, DomainInv
<1>4. Others(t)
    BY <1>1, <1>2 DEF Others, AllOk, DomainInv
<1>5. Keeps(t)
    BY <1>1, <1>3, RepeatKeeps DEF Fields
<1> QED
    BY <1>4, <1>5, OthersKeep DEF AllKeep

(* A read that brought nothing. *)
LEMMA LostReadKeeps ==
  ASSUME AllOk, scene' = scene, NEW t \in Slaves, ReadMailbox(t, 0), UNCHANGED handVars
  PROVE  AllKeep /\ DOMAIN slave' = Slaves
<1>1. SlaveOk(t) /\ DOMAIN slave[t] = Fields /\ seen' = seen /\ skipped' = skipped
    BY DEF AllOk, SlaveOk, SlaveType, handVars
<1>2. CASE slave' = slave
    BY <1>1, <1>2, SlavesStay DEF AllOk, DomainInv
<1>3. CASE slave' = [slave EXCEPT ![t].out = Null, ![t].missed = TRUE]
  <2>1. slave'[t] = [slave[t] EXCEPT !.out = Null, !.missed = TRUE]
      BY <1>3 DEF AllOk, DomainInv
  <2>2. Others(t)
      BY <1>1, <1>3 DEF Others, AllOk, DomainInv
  <2>3. Keeps(t)
      BY <1>1, <2>1, LossKeeps
  <2> QED
      BY <2>2, <2>3, OthersKeep DEF AllKeep, Others
<1> QED
    BY <1>2, <1>3 DEF ReadMailbox

(* A read that brought a message, which is dealt with. *)
LEMMA ReadInOrder ==
  ASSUME AllOk, scene' = scene, NEW t \in Slaves, ReadMailbox(t, 1), Deal(t, slave[t].out.id),
         DOMAIN skipped' = Slaves, skipped[t] \subseteq skipped'[t],
         \A s \in Slaves \ {t} : skipped'[s] = skipped[s]
  PROVE  /\ \A s \in Slaves \ {t} : Keeps(s)
         /\ SlaveOk(t)' /\ InOrder(t) /\ Others(t)
         /\ slave'[t].last = slave[t].out
<1>0. PICK hasty \in BOOLEAN : hasty <=> ~Obeyed(t)
    OBVIOUS
<1>1. /\ slave[t].out # Null /\ slave' = [slave EXCEPT ![t].out = Null, ![t].hasty = hasty]
    BY <1>0 DEF ReadMailbox
<1>2. seen' = [seen EXCEPT ![t] = Append(seen[t], slave[t].out.id)] /\ SlaveOk(t)
    BY DEF Deal, AllOk
<1>3. /\ slave'[t] = [slave[t] EXCEPT !.out = Null, !.hasty = hasty]
      /\ seen'[t] = Append(seen[t], slave[t].out.id)
    BY <1>1, <1>2 DEF AllOk, DomainInv
<1>4. Others(t)
    BY <1>1, <1>2 DEF Others, AllOk, DomainInv
<1>5. SlaveOk(t)' /\ InOrder(t) /\ slave'[t].last = slave[t].out
    BY <1>0, <1>1, <1>2, <1>3, DealInOrder
<1> QED
    BY <1>4, <1>5, OthersKeep

LEMMA WriteKeeps ==
  ASSUME AllOk, scene' = scene, NEW t, NEW m, NEW wkc \in {0, 1}, WriteMailbox(t, m, wkc),
         UNCHANGED handVars
  PROVE  AllKeep /\ DOMAIN slave' = Slaves
<1>1. seen' = seen /\ skipped' = skipped
    BY DEF handVars
<1>2. CASE slave' = slave
    BY <1>1, <1>2, SlavesStay DEF AllOk, DomainInv
<1>3. CASE slave' = [slave EXCEPT ![t].in = m]
  <2>1. ASSUME NEW s \in Slaves PROVE Keeps(s)
    <3>1. DOMAIN slave[s] = Fields /\ SlaveOk(s)
        BY DEF AllOk, SlaveOk, SlaveType
    <3>2. slave'[s] = slave[s] \/ slave'[s] = [slave[s] EXCEPT !.in = m]
        BY <1>3 DEF AllOk, DomainInv
    <3> QED
        BY <1>1, <3>1, <3>2, SameMessages DEF Fields
  <2> QED
      BY <1>3, <2>1 DEF AllKeep, AllOk, DomainInv
<1> QED
    BY <1>2, <1>3 DEF WriteMailbox

LEMMA WriteRepeatKeeps ==
  ASSUME AllOk, scene' = scene, NEW t \in Slaves, NEW bit, NEW wkc \in {0, 1},
         WriteRepeat(t, bit, wkc), Fresh(t), UNCHANGED handVars
  PROVE  AllKeep /\ DOMAIN slave' = Slaves
<1>1. SlaveOk(t) /\ DOMAIN slave[t] = Fields /\ seen' = seen /\ skipped' = skipped
    BY DEF AllOk, SlaveOk, SlaveType, handVars
<1>2. CASE slave' = slave
    BY <1>1, <1>2, SlavesStay DEF AllOk, DomainInv
<1>3. CASE slave' = [slave EXCEPT ![t].repeat = bit]
  <2>1. slave'[t] = [slave[t] EXCEPT !.repeat = bit]
      BY <1>3 DEF AllOk, DomainInv
  <2>2. Others(t)
      BY <1>1, <1>3 DEF Others, AllOk, DomainInv
  <2>3. Keeps(t)
      BY <1>1, <2>1, BitKeeps
  <2> QED
      BY <2>2, <2>3, OthersKeep DEF AllKeep, Others
<1> QED
    BY <1>2, <1>3 DEF WriteRepeat

-----------------------------------------------------------------------------
(* The visits of the handler: every slave once, in a ring. *)
LEMMA OffsetIs ==
  ASSUME NEW f \in 1 .. Len(Lookup), NEW v \in 0 .. Len(Lookup) - 1, f = firstpos
  PROVE  /\ OffsetOf(v) \in 0 .. Len(Lookup) - 1
         /\ \A u \in 0 .. Len(Lookup) - 1 : OffsetOf(u) = OffsetOf(v) => u = v
<1>1. Len(Lookup) \in Nat
    BY LookupAssumption
<1> QED
    BY <1>1 DEF OffsetOf

LEMMA WorkedOn ==
  ASSUME VisitInv, hpc = "in", NEW n \in {0, 1}, Worked(n)
  PROVE  /\ VisitInv' /\ Ahead(Visited)
         /\ \A s \in Slaves : Ahead(s)' => Ahead(s) /\ s # Visited
<1> DEFINE k == Len(Lookup)
<1>1. /\ k \in Nat /\ k # 0 /\ firstpos \in 1 .. k /\ visit \in 0 .. k - 1
      /\ \A i, j \in 1 .. k : Lookup[i] = Lookup[j] => i = j
    BY LookupAssumption DEF VisitInv
<1>2. Offset = OffsetOf(visit) /\ Visited = Lookup[OffsetOf(visit) + 1]
    BY DEF Offset, OffsetOf, Visited
<1>3. OffsetOf(visit) \in 0 .. k - 1
    BY <1>1, OffsetIs
<1>4. /\ lastpos' = Offset /\ visit' = visit + 1 /\ firstpos' = firstpos
      /\ hpc' = "in" => visit + 1 < k
    BY <1>1 DEF Worked
<1> HIDE DEF k
<1>5. VisitInv'
    BY <1>1, <1>2, <1>3, <1>4 DEF VisitInv, k
<1>6. Ahead(Visited)
    BY <1>1, <1>2 DEF Ahead, k
<1>7. ASSUME NEW s \in Slaves, Ahead(s)' PROVE Ahead(s) /\ s # Visited
  <2>1. PICK v \in visit' .. k - 1 : Lookup[OffsetOf(v)' + 1] = s
      BY <1>7 DEF Ahead, k
  <2>2. OffsetOf(v)' = OffsetOf(v)
      BY <1>4 DEF OffsetOf
  <2>3. v \in visit .. k - 1 /\ v # visit /\ v \in 0 .. k - 1
      BY <1>1, <1>4, <2>1
  <2>4. OffsetOf(v) \in 0 .. k - 1 /\ OffsetOf(v) # OffsetOf(visit)
      BY <1>1, <2>3, OffsetIs DEF k
  <2>5. OffsetOf(v) + 1 \in 1 .. k /\ OffsetOf(visit) + 1 \in 1 .. k
        /\ OffsetOf(v) + 1 # OffsetOf(visit) + 1
      BY <1>1, <1>3, <2>4
  <2>6. s # Visited
      BY <1>1, <1>2, <2>1, <2>2, <2>5
  <2> QED
      BY <2>1, <2>2, <2>3, <2>6 DEF Ahead, k
<1> QED
    BY <1>5, <1>6, <1>7

(***************************************************************************)
(* The callers.  What one does keeps the invariant when it reads only what *)
(* is fresh.                                                               *)
(***************************************************************************)
handlerState == <<status, rmp, hpc, visit, firstpos, lastpos>>

LEMMA CallerGoes ==
  ASSUME OrderInv, AllKeep, DOMAIN slave' = Slaves, UNCHANGED <<scene, seen, skipped, handlerState>>,
         NEW c \in Callers, NEW at, pc' = [pc EXCEPT ![c] = at],
         at # "rest" => c \in scene.callers,
         ~Cyclic(Target[c]) /\ at \in Reading => Fresh(Target[c])
  PROVE  OrderInv'
<1>1. DomainInv'
    BY DEF OrderInv, DomainInv, handlerState
<1>2. VisitInv'
    BY DEF OrderInv, VisitInv, handlerState
<1>3. \A s \in Slaves : SlaveOk(s)' /\ (Fresh(s) => Fresh(s)') /\ Cyclic(s)' = Cyclic(s)
    BY DEF AllKeep, Keeps, Cyclic, EnableMbxCyclicForCoe
<1>4. \A d \in Callers : pc'[d] = IF d = c THEN at ELSE pc[d]
    BY DEF OrderInv, DomainInv
<1>5. \A d \in Callers : Target[d] \in Slaves
    BY MailboxAssumption
<1>6. \A s \in Slaves : Ahead(s)' = Ahead(s)
    BY DEF Ahead, OffsetOf, handlerState
<1>7. ReaderInv'
  <2>1. \A d \in Callers : pc'[d] # "rest" => d \in scene'.callers
      BY <1>4 DEF OrderInv, ReaderInv
  <2>2. \A d \in Callers : ~Cyclic(Target[d])' /\ pc'[d] \in Reading => Fresh(Target[d])'
      BY <1>3, <1>4, <1>5 DEF OrderInv, ReaderInv
  <2>3. \A s \in Slaves : Cyclic(s)' /\ (rmp'[s] # 0 \/ (Ahead(s)' /\ status'[s])) => Fresh(s)'
      BY <1>3, <1>6 DEF OrderInv, ReaderInv, handlerState
  <2> QED
      BY <2>1, <2>2, <2>3 DEF ReaderInv
<1> QED
    BY <1>1, <1>2, <1>3, <1>7 DEF OrderInv

LEMMA CallersStay ==
  ASSUME OrderInv, AllKeep, DOMAIN slave' = Slaves,
         UNCHANGED <<scene, seen, skipped, handlerState, pc>>
  PROVE  OrderInv'
<1>1. DomainInv' /\ VisitInv'
    BY DEF OrderInv, DomainInv, VisitInv, handlerState
<1>2. \A s \in Slaves : /\ SlaveOk(s)' /\ (Fresh(s) => Fresh(s)')
                        /\ Cyclic(s)' = Cyclic(s) /\ Ahead(s)' = Ahead(s)
    BY DEF AllKeep, Keeps, Cyclic, EnableMbxCyclicForCoe, Ahead, OffsetOf, handlerState
<1>3. \A d \in Callers : Target[d] \in Slaves
    BY MailboxAssumption
<1>4. ReaderInv'
    BY <1>2, <1>3 DEF OrderInv, ReaderInv, handlerState
<1> QED
    BY <1>1, <1>2, <1>4 DEF OrderInv

(* A caller that takes part goes somewhere it does not read, and no slave  *)
(* does anything.                                                          *)
LEMMA CallerElsewhere ==
  ASSUME OrderInv, UNCHANGED <<scene, slave, seen, skipped, handlerState>>,
         NEW c \in Callers, NEW at, pc' = [pc EXCEPT ![c] = at], at \notin Reading,
         at # "rest" => c \in scene.callers
  PROVE  OrderInv'
<1>1. AllKeep /\ DOMAIN slave' = Slaves
    BY SlavesStay DEF OrderInv, AllOk, DomainInv
<1> QED
    BY <1>1, CallerGoes

LEMMA TakesPart ==
  ASSUME OrderInv, NEW c \in Callers, pc[c] # "rest"
  PROVE  c \in scene.callers
BY DEF OrderInv, ReaderInv

(***************************************************************************)
(* The steps of a caller.                                                  *)
(***************************************************************************)
LEMMA OrderTalk ==
  ASSUME OrderInv, UNCHANGED <<scene, handlerState>>, NEW c \in Callers, Talk(c) \/ Expire(c)
  PROVE  OrderInv' /\ seen' = seen
<1>1. UNCHANGED <<slave, seen, skipped>>
    BY DEF Talk, Begin, Release, Ask, Expire, slaveVars, handVars
<1>2. ASSUME Begin(c, Receive(c)) PROVE OrderInv'
    BY <1>1, <1>2, CallerElsewhere DEF Begin, Goto, Receive, Reading
<1>3. ASSUME Release(c) PROVE OrderInv'
  <2>1. c \in scene.callers
      BY <1>3, TakesPart DEF Release
  <2> QED
      BY <1>1, <1>3, <2>1, CallerElsewhere DEF Release, Goto, Reading
<1>4. ASSUME Ask(c, Send(c)) PROVE OrderInv'
  <2>1. c \in scene.callers
      BY <1>4, TakesPart DEF Ask
  <2>2. pc' = [pc EXCEPT ![c] = "rest"] \/ pc' = [pc EXCEPT ![c] = Send(c)]
      BY <1>4 DEF Ask, Goto
  <2> QED
      BY <1>1, <2>1, <2>2, CallerElsewhere DEF Send, Reading
<1>5. ASSUME Expire(c) PROVE OrderInv'
  <2>1. AllKeep /\ DOMAIN slave' = Slaves /\ pc' = pc
      BY <1>1, <1>5, SlavesStay DEF OrderInv, AllOk, DomainInv, Expire
  <2> QED
      BY <1>1, <2>1, CallersStay
<1> QED
    BY <1>1, <1>2, <1>3, <1>4, <1>5 DEF Talk

LEMMA OrderCyclicCall ==
  ASSUME OrderInv, UNCHANGED scene, NEW c \in Callers, CyclicCall(c)
  PROVE  OrderInv' /\ seen' = seen
<1> USE DEF SeeSlot, CopySlot, ClearSlot
<1>1. UNCHANGED <<slave, seen, skipped>> /\ UNCHANGED handlerState
    BY DEF CyclicCall, AddQueue, DoneQueue, ExpireQueue, SlotStep, slaveVars, handVars, inVars,
           handlerVars, handlerState
<1>2. c \in scene.callers
    BY TakesPart DEF CyclicCall, AddQueue, DoneQueue, ExpireQueue
<1>3. \E at \in {"poll", "rest", "slot", "grab", "clear", "expire", "drop"} :
        pc' = [pc EXCEPT ![c] = at]
    BY DEF CyclicCall, AddQueue, DoneQueue, ExpireQueue, Sent, Received, Goto
<1> QED
    BY <1>1, <1>2, <1>3, CallerElsewhere DEF Reading

LEMMA AnswerRead ==
  ASSUME NEW c \in Callers, ReadAnswer(c)
  PROVE  \/ ReadMailbox(Target[c], 0) /\ UNCHANGED seen /\ Goto(c, "statex")
         \/ UNCHANGED seen /\ Goto(c, "crashed")
         \/ /\ ReadMailbox(Target[c], 1) /\ Deal(Target[c], slave[Target[c]].out.id)
            /\ Goto(c, "drop") \/ (slave[Target[c]].out.kind = "error" /\ Goto(c, "read"))
<1> DEFINE s == Target[c]
<1> PICK wkc \in {0, 1} :
      /\ ReadMailbox(s, wkc)
      /\ CASE wkc = 0 -> Goto(c, "statex") /\ UNCHANGED <<poolVars, own, seen>>
           [] wkc = 1 /\ own[c] = Null -> Goto(c, "crashed") /\ UNCHANGED <<poolVars, own, seen>>
           [] wkc = 1 /\ own[c] # Null /\ slave[s].out.kind = "error" ->
                /\ Drop(own[c]) /\ own' = [own EXCEPT ![c] = Null]
                /\ Deal(s, slave[s].out.id) /\ Goto(c, Again(c, "read"))
           [] OTHER -> /\ Deal(s, slave[s].out.id)
                       /\ Received(c, own[c]) /\ UNCHANGED poolVars
    BY DEF ReadAnswer
<1>1. CASE wkc = 0
    BY <1>1
<1>2. CASE wkc = 1 /\ own[c] = Null
    BY <1>2
<1>3. CASE wkc = 1 /\ own[c] # Null /\ slave[s].out.kind = "error"
    BY <1>3 DEF Again
<1>4. CASE wkc = 1 /\ own[c] # Null /\ slave[s].out.kind # "error"
    BY <1>4 DEF Received
<1> QED
    BY <1>1, <1>2, <1>3, <1>4

(* A caller that reads its slave's mailbox itself. *)
LEMMA OrderDirect ==
  ASSUME OrderInv, UNCHANGED <<scene, handlerState>>, AloneAtMailbox,
         NEW c \in Callers, ~Cyclic(Target[c]), DirectStep(c) \/ Turn(c)
  PROVE  \/ pc'[c] = "crashed" /\ seen' = seen
         \/ OrderInv' /\ \A s \in Slaves : seen'[s] # seen[s] => InOrder(s)
<1> DEFINE t == Target[c]
<1>0. t \in Slaves /\ AllOk /\ DOMAIN slave = Slaves
    BY MailboxAssumption DEF OrderInv, AllOk, DomainInv
<1>1. c \in scene.callers \/ pc[c] = "rest"
    BY TakesPart
<1>2. CASE Refuse(c)
  <2>1. pc' = [pc EXCEPT ![c] = "rest"] /\ UNCHANGED <<slave, seen, skipped>>
      BY <1>2 DEF Refuse, GiveUp, Sent, Goto, slaveVars, handVars
  <2> QED
      BY <2>1, CallerElsewhere DEF Reading
<1>3. CASE Write(c)
  <2>1. \E wkc \in {0, 1} : WriteMailbox(t, mbx[own[c]], wkc)
      BY <1>3 DEF Write
  <2>2. UNCHANGED handVars /\ c \in scene.callers
      BY <1>1, <1>3 DEF Write
  <2>3. AllKeep /\ DOMAIN slave' = Slaves
      BY <1>0, <2>1, <2>2, WriteKeeps
  <2>4. \E at \in {"empty", "status", "rest"} : pc' = [pc EXCEPT ![c] = at]
      BY <1>3 DEF Write, GiveUp, Sent, Goto
  <2> QED
      BY <2>2, <2>3, <2>4, CallerGoes DEF handVars, Reading
<1>4. CASE Empty(c)
  <2>1. /\ UNCHANGED <<slave, seen, skipped>> /\ c \in scene.callers
        /\ \E at \in {"retry", "rest"} : pc' = [pc EXCEPT ![c] = at]
      BY <1>1, <1>4 DEF Empty, GiveUp, Sent, Goto, handVars
  <2> QED
      BY <2>1, CallerElsewhere DEF Reading
<1>5. CASE Status(c)
  <2>1. UNCHANGED <<slave, seen, skipped>> /\ c \in scene.callers
      BY <1>1, <1>5 DEF Status, handVars
  <2>2. \/ pc' = [pc EXCEPT ![c] = "drop"]
        \/ pc' = [pc EXCEPT ![c] = "read"] /\ slave[t].out # Null
      BY <1>5 DEF Status, Received, Goto
  <2>3. AllKeep
      BY <1>0, <2>1, SlavesStay
  <2>4. slave[t].out # Null => Fresh(t)
      BY <1>0 DEF AllOk, SlaveOk, Ordered
  <2> QED
      BY <1>0, <2>1, <2>2, <2>3, <2>4, CallerGoes DEF Reading
<1>6. CASE ReadAnswer(c) /\ ReadMailbox(t, 0) /\ UNCHANGED seen /\ Goto(c, "statex")
  <2>1. UNCHANGED handVars /\ c \in scene.callers /\ pc[c] \in Reading
      BY <1>1, <1>6 DEF ReadAnswer, handVars, Reading
  <2>2. AllKeep /\ DOMAIN slave' = Slaves
      BY <1>0, <1>6, <2>1, LostReadKeeps
  <2>3. Fresh(t)
      BY <2>1 DEF OrderInv, ReaderInv
  <2> QED
      BY <1>6, <2>1, <2>2, <2>3, CallerGoes DEF handVars, Goto
<1>7. CASE /\ ReadAnswer(c) /\ ReadMailbox(t, 1) /\ Deal(t, slave[t].out.id)
           /\ Goto(c, "drop") \/ (slave[t].out.kind = "error" /\ Goto(c, "read"))
  <2>1. skipped' = skipped /\ c \in scene.callers /\ slave[t].out # Null
      BY <1>1, <1>7 DEF ReadAnswer, ReadMailbox
  <2>2. /\ \A s \in Slaves \ {t} : Keeps(s)
        /\ SlaveOk(t)' /\ InOrder(t) /\ Others(t)
        /\ slave'[t].last = slave[t].out
    <3> HIDE DEF t
    <3> QED
        BY <1>0, <1>7, <2>1, ReadInOrder DEF AllOk, DomainInv
  <2>4. PICK at \in {"read", "drop"} :
          pc' = [pc EXCEPT ![c] = at] /\ (at = "read" => slave[t].out.kind = "error")
      BY <1>7 DEF Goto
  <2>5. DomainInv' /\ VisitInv'
      BY <2>2, <2>4 DEF OrderInv, DomainInv, VisitInv, Others, handlerState
  <2>6. \A d \in Callers : pc'[d] = IF d = c THEN at ELSE pc[d]
      BY <2>4 DEF OrderInv, DomainInv
  <2>7. \A s \in Slaves : Cyclic(s)' = Cyclic(s) /\ Ahead(s)' = Ahead(s)
      BY DEF Cyclic, EnableMbxCyclicForCoe, Ahead, OffsetOf, handlerState
  <2>8. ASSUME NEW d \in Callers, ~Cyclic(Target[d])', pc'[d] \in Reading PROVE Fresh(Target[d])'
    <3>1. Target[d] \in Slaves /\ ~Cyclic(Target[d])
        BY <2>7, <2>8, MailboxAssumption
    <3>2. CASE d = c
      <4>1. at = "read"
          BY <2>6, <2>8, <3>2 DEF Reading
      <4>2. Erred(t)'
          BY <2>1, <2>2, <2>4, <2>8, <3>2, <4>1 DEF Erred
      <4> QED
          BY <3>2, <4>2 DEF Fresh
    <3>3. CASE d # c
      <4>1. pc[d] \in Reading
          BY <2>6, <2>8, <3>3
      <4>2. d \in scene.callers /\ Fresh(Target[d])
          BY <3>1, <4>1 DEF OrderInv, ReaderInv, Reading
      <4>3. Target[d] # t
          BY <2>1, <3>1, <3>3, <4>2 DEF AloneAtMailbox
      <4> QED
          BY <2>2, <3>1, <4>2, <4>3 DEF Keeps
    <3> QED
        BY <3>2, <3>3
  <2>9. ASSUME NEW s \in Slaves, Cyclic(s)', rmp'[s] # 0 \/ (Ahead(s)' /\ status'[s])
        PROVE  Fresh(s)'
    <3>1. Cyclic(s) /\ s # t /\ (rmp[s] # 0 \/ (Ahead(s) /\ status[s]))
        BY <2>7, <2>9 DEF handlerState
    <3> QED
        BY <2>2, <3>1 DEF OrderInv, ReaderInv, Keeps
  <2>10. ReaderInv'
    <3>1. \A d \in Callers : pc'[d] # "rest" => d \in scene'.callers
        BY <2>1, <2>6 DEF OrderInv, ReaderInv
    <3> QED
        BY <2>8, <2>9, <3>1 DEF ReaderInv
  <2> QED
      BY <2>2, <2>5, <2>10 DEF OrderInv, Keeps
<1>8. CASE Statex(c)
  <2>1. /\ UNCHANGED <<slave, seen, skipped>> /\ c \in scene.callers /\ pc[c] \in Reading
        /\ pc' = [pc EXCEPT ![c] = "toggle"]
      BY <1>1, <1>8 DEF Statex, Goto, handVars, Reading
  <2>2. AllKeep /\ Fresh(t)
      BY <1>0, <2>1, SlavesStay DEF OrderInv, ReaderInv
  <2> QED
      BY <1>0, <2>1, <2>2, CallerGoes
<1>9. CASE Toggle(c)
  <2>1. /\ UNCHANGED handVars /\ c \in scene.callers /\ pc[c] \in Reading
        /\ \E wkc \in {0, 1} : WriteRepeat(t, statex[c], wkc)
        /\ pc' = [pc EXCEPT ![c] = "ack"]
      BY <1>1, <1>9 DEF Toggle, Goto, Reading
  <2>2. Fresh(t)
      BY <2>1 DEF OrderInv, ReaderInv
  <2>3. AllKeep /\ DOMAIN slave' = Slaves
      BY <1>0, <2>1, <2>2, WriteRepeatKeeps
  <2> QED
      BY <2>1, <2>2, <2>3, CallerGoes DEF handVars
<1>10. CASE Ack(c) \/ Full(c)
  <2>1. /\ UNCHANGED <<slave, seen, skipped>> /\ c \in scene.callers /\ pc[c] \in Reading
        /\ \E at \in {"full", "read", "drop"} : pc' = [pc EXCEPT ![c] = at]
      BY <1>1, <1>10 DEF Ack, Full, Again, Goto, handVars, Reading
  <2>2. AllKeep /\ Fresh(t)
      BY <1>0, <2>1, SlavesStay DEF OrderInv, ReaderInv
  <2> QED
      BY <1>0, <2>1, <2>2, CallerGoes
<1>11. CASE Turn(c)
  <2>1. UNCHANGED <<slave, seen, skipped, pc>>
      BY <1>11 DEF Turn, handVars, callVars
  <2>2. AllKeep
      BY <1>0, <2>1, SlavesStay
  <2> QED
      BY <1>0, <2>1, <2>2, CallersStay
<1>12. ASSUME ReadAnswer(c)
       PROVE  \/ ReadMailbox(t, 0) /\ UNCHANGED seen /\ Goto(c, "statex")
              \/ UNCHANGED seen /\ Goto(c, "crashed")
              \/ /\ ReadMailbox(t, 1) /\ Deal(t, slave[t].out.id)
                 /\ Goto(c, "drop") \/ (slave[t].out.kind = "error" /\ Goto(c, "read"))
    BY <1>12, AnswerRead
<1>13. ASSUME Goto(c, "crashed") PROVE pc'[c] = "crashed"
    BY <1>13 DEF Goto, OrderInv, DomainInv
<1> QED
    BY <1>13, <1>2, <1>3, <1>4, <1>5, <1>6, <1>7, <1>8, <1>9, <1>10, <1>11, <1>12 DEF DirectStep

(***************************************************************************)
(* The steps of the handler.                                               *)
(***************************************************************************)
LEMMA HandlerGoes ==
  ASSUME OrderInv, AllKeep, DOMAIN slave' = Slaves, UNCHANGED <<scene, seen, skipped, pc>>,
         DOMAIN status' = Slaves, DOMAIN rmp' = Slaves, VisitInv',
         \A s \in Slaves : Cyclic(s) /\ (rmp'[s] # 0 \/ (Ahead(s)' /\ status'[s])) => Fresh(s)'
  PROVE  OrderInv'
<1>1. DomainInv'
    BY DEF OrderInv, DomainInv
<1>2. \A s \in Slaves : SlaveOk(s)' /\ (Fresh(s) => Fresh(s)') /\ Cyclic(s)' = Cyclic(s)
    BY DEF AllKeep, Keeps, Cyclic, EnableMbxCyclicForCoe
<1>3. \A d \in Callers : Target[d] \in Slaves
    BY MailboxAssumption
<1>4. ReaderInv'
    BY <1>2, <1>3 DEF OrderInv, ReaderInv
<1> QED
    BY <1>1, <1>2, <1>4 DEF OrderInv

LEMMA OrderExchange ==
  ASSUME OrderInv, scene' = scene, Exchange
  PROVE  OrderInv' /\ seen' = seen
<1>1. /\ UNCHANGED <<slave, seen, skipped, pc, rmp, lastpos>>
      /\ hpc' = "in" /\ visit' = 0 /\ firstpos' = lastpos + 1
    BY DEF Exchange, InBegin, handVars, callVars
<1>2. AllOk /\ DOMAIN slave' = Slaves /\ DOMAIN rmp' = Slaves
    BY <1>1 DEF OrderInv, AllOk, DomainInv
<1>3. AllKeep
    BY <1>1, <1>2, SlavesStay
<1>4. DOMAIN status' = Slaves /\ \A s \in Slaves : status'[s] => slave[s].out # Null
    BY DEF Exchange
<1>5. VisitInv'
  <2>1. Len(Lookup) \in Nat /\ Len(Lookup) # 0
      BY LookupAssumption
  <2> QED
      BY <1>1, <2>1 DEF OrderInv, VisitInv
<1>6. \A s \in Slaves : Cyclic(s) /\ (rmp'[s] # 0 \/ (Ahead(s)' /\ status'[s])) => Fresh(s)
    BY <1>1, <1>2, <1>4 DEF OrderInv, ReaderInv, AllOk, SlaveOk, Ordered
<1>7. \A s \in Slaves : Cyclic(s) /\ (rmp'[s] # 0 \/ (Ahead(s)' /\ status'[s])) => Fresh(s)'
    BY <1>3, <1>6 DEF AllKeep, Keeps
<1> QED
    BY <1>1, <1>2, <1>3, <1>4, <1>5, <1>7, HandlerGoes

LEMMA OrderPassBy ==
  ASSUME OrderInv, scene' = scene, NEW t \in Slaves, PassBy(t)
  PROVE  OrderInv' /\ seen' = seen
<1>1. UNCHANGED <<slave, seen, skipped, pc, rmp, status>> /\ Worked(0) /\ hpc = "in"
    BY DEF PassBy, Visiting, slaveVars, handVars, callVars, inVars
<1>2. AllOk /\ DOMAIN slave' = Slaves /\ DOMAIN rmp' = Slaves /\ DOMAIN status' = Slaves
    BY <1>1 DEF OrderInv, AllOk, DomainInv
<1>3. AllKeep
    BY <1>1, <1>2, SlavesStay
<1>4. VisitInv' /\ \A s \in Slaves : Ahead(s)' => Ahead(s)
    BY <1>1, WorkedOn DEF OrderInv
<1>5. \A s \in Slaves : Cyclic(s) /\ (rmp'[s] # 0 \/ (Ahead(s)' /\ status'[s])) => Fresh(s)'
    BY <1>1, <1>3, <1>4 DEF OrderInv, ReaderInv, AllKeep, Keeps
<1> QED
    BY <1>1, <1>2, <1>3, <1>4, <1>5, HandlerGoes

LEMMA OrderRmp ==
  ASSUME OrderInv, scene' = scene, NEW t \in Slaves, Rmp(t)
  PROVE  OrderInv' /\ seen' = seen
<1>1. /\ UNCHANGED <<seen, skipped, pc, status>> /\ Worked(1) /\ hpc = "in"
      /\ Cyclic(t) /\ rmp[t] # 0
    BY DEF Rmp, Visiting, handVars, callVars
<1>2. AllOk /\ Fresh(t)
    BY <1>1 DEF OrderInv, ReaderInv, AllOk
<1>3. UNCHANGED slave \/ \E wkc \in {0, 1} : WriteRepeat(t, instate[t], wkc)
    BY DEF Rmp
<1>4. AllKeep /\ DOMAIN slave' = Slaves
  <2>1. CASE UNCHANGED slave
      BY <1>1, <1>2, <2>1, SlavesStay DEF AllOk, DomainInv
  <2>2. CASE \E wkc \in {0, 1} : WriteRepeat(t, instate[t], wkc)
      BY <1>1, <1>2, <2>2, WriteRepeatKeeps DEF handVars
  <2> QED
      BY <1>3, <2>1, <2>2
<1>5. DOMAIN rmp' = Slaves /\ \A s \in Slaves : rmp'[s] # 0 => rmp[s] # 0
  <2>1. rmp' = rmp \/ \E k : rmp' = [rmp EXCEPT ![t] = k]
      BY DEF Rmp
  <2> QED
      BY <1>1, <1>2, <2>1 DEF AllOk, DomainInv
<1>6. VisitInv' /\ \A s \in Slaves : Ahead(s)' => Ahead(s)
    BY <1>1, WorkedOn DEF OrderInv
<1>7. \A s \in Slaves : Cyclic(s) /\ (rmp'[s] # 0 \/ (Ahead(s)' /\ status'[s])) => Fresh(s)'
    BY <1>1, <1>4, <1>5, <1>6 DEF OrderInv, ReaderInv, AllKeep, Keeps
<1>8. DOMAIN status' = Slaves
    BY <1>1 DEF OrderInv, DomainInv
<1> QED
    BY <1>1, <1>4, <1>5, <1>6, <1>7, <1>8, HandlerGoes

LEMMA OrderGiveUpRmp ==
  ASSUME OrderInv, scene' = scene, NEW t \in Slaves, GiveUpRmp(t)
  PROVE  OrderInv' /\ seen' = seen
<1>1. /\ UNCHANGED <<slave, seen, skipped, pc, status>> /\ Worked(0) /\ hpc = "in"
      /\ rmp' = [rmp EXCEPT ![t] = 0]
    BY DEF GiveUpRmp, Visiting, slaveVars, handVars, callVars
<1>2. AllOk /\ DOMAIN slave' = Slaves /\ DOMAIN status' = Slaves
    BY <1>1 DEF OrderInv, AllOk, DomainInv
<1>3. AllKeep
    BY <1>1, <1>2, SlavesStay
<1>4. DOMAIN rmp' = Slaves /\ \A s \in Slaves : rmp'[s] # 0 => rmp[s] # 0
    BY <1>1, <1>2 DEF AllOk, DomainInv
<1>5. VisitInv' /\ \A s \in Slaves : Ahead(s)' => Ahead(s)
    BY <1>1, WorkedOn DEF OrderInv
<1>6. \A s \in Slaves : Cyclic(s) /\ (rmp'[s] # 0 \/ (Ahead(s)' /\ status'[s])) => Fresh(s)'
    BY <1>1, <1>3, <1>4, <1>5 DEF OrderInv, ReaderInv, AllKeep, Keeps
<1> QED
    BY <1>1, <1>2, <1>3, <1>4, <1>5, <1>6, HandlerGoes

LEMMA OrderFetch ==
  ASSUME OrderInv, scene' = scene, NEW t \in Slaves, Fetch(t)
  PROVE  OrderInv' /\ \A s \in Slaves : seen'[s] # seen[s] => InOrder(s)
<1>1. /\ UNCHANGED <<pc, status>> /\ Worked(1) /\ hpc = "in" /\ t = Visited
      /\ Cyclic(t) /\ rmp[t] = 0 /\ status[t]
    BY DEF Fetch, Visiting, callVars
<1>2. AllOk /\ DOMAIN status' = Slaves
    BY <1>1 DEF OrderInv, AllOk, DomainInv
<1>3. /\ VisitInv' /\ Ahead(t)
      /\ \A s \in Slaves : Ahead(s)' => Ahead(s) /\ s # t
    BY <1>1, WorkedOn DEF OrderInv
<1> PICK wkc \in {0, 1} :
      /\ ReadMailbox(t, wkc) /\ rmp' = [rmp EXCEPT ![t] = AfterFetch(wkc)]
      /\ IF wkc = 0 THEN UNCHANGED <<mbxpool, coembxin, handVars>>
         ELSE Keep(t, Free, slave[t].out)
    BY DEF Fetch
<1>4. /\ DOMAIN rmp' = Slaves /\ \A s \in Slaves \ {t} : rmp'[s] = rmp[s]
      /\ wkc = 1 => rmp'[t] = 0
    BY <1>2 DEF AllOk, DomainInv, AfterFetch
<1>5. CASE wkc = 0
  <2>1. UNCHANGED <<seen, skipped>> /\ UNCHANGED handVars
      BY <1>5 DEF handVars
  <2>2. AllKeep /\ DOMAIN slave' = Slaves
      BY <1>2, <1>5, <2>1, LostReadKeeps
  <2>3. \A s \in Slaves : Cyclic(s) /\ (rmp'[s] # 0 \/ (Ahead(s)' /\ status'[s])) => Fresh(s)'
    <3>1. ASSUME NEW s \in Slaves, Cyclic(s), rmp'[s] # 0 \/ (Ahead(s)' /\ status'[s])
          PROVE  Fresh(s)
        BY <1>1, <1>3, <1>4, <3>1 DEF OrderInv, ReaderInv
    <3> QED
        BY <2>2, <3>1 DEF AllKeep, Keeps
  <2> QED
      BY <1>1, <1>2, <1>3, <1>4, <2>1, <2>2, <2>3, HandlerGoes
<1>6. CASE wkc = 1
  <2>1. /\ Deal(t, slave[t].out.id) /\ DOMAIN skipped' = Slaves /\ skipped[t] \subseteq skipped'[t]
        /\ \A s \in Slaves \ {t} : skipped'[s] = skipped[s]
    <3>1. skipped' = skipped \/ \E x : skipped' = [skipped EXCEPT ![t] = skipped[t] \cup x]
      <4>1. CASE skipped' = skipped
          BY <4>1
      <4>2. CASE skipped' = [skipped EXCEPT ![t] = IF slave[t].out.kind = "answer"
                                                   THEN skipped[t] \cup {slave[t].out.id}
                                                   ELSE skipped[t]]
        <5>1. skipped' = [skipped EXCEPT ![t] = skipped[t] \cup
                            (IF slave[t].out.kind = "answer" THEN {slave[t].out.id} ELSE {})]
            BY <4>2
        <5> QED
            BY <5>1
      <4> QED
          BY <1>6, <4>1, <4>2 DEF Keep
    <3> QED
        BY <1>2, <1>6, <3>1 DEF Keep, AllOk, DomainInv
  <2>2. /\ \A s \in Slaves \ {t} : Keeps(s)
        /\ SlaveOk(t)' /\ InOrder(t) /\ Others(t)
      BY <1>2, <1>6, <2>1, ReadInOrder
  <2>3. DomainInv'
      BY <1>1, <1>2, <1>4, <2>2 DEF OrderInv, DomainInv, Others
  <2>4. \A s \in Slaves : Cyclic(s)' = Cyclic(s)
      BY DEF Cyclic, EnableMbxCyclicForCoe
  <2>5. ASSUME NEW s \in Slaves, Cyclic(s)', rmp'[s] # 0 \/ (Ahead(s)' /\ status'[s])
        PROVE  Fresh(s)'
    <3>1. Cyclic(s) /\ s # t /\ (rmp[s] # 0 \/ (Ahead(s) /\ status[s]))
        BY <1>1, <1>3, <1>4, <1>6, <2>4, <2>5
    <3> QED
        BY <2>2, <3>1 DEF OrderInv, ReaderInv, Keeps
  <2>6. ASSUME NEW d \in Callers, ~Cyclic(Target[d])', pc'[d] \in Reading PROVE Fresh(Target[d])'
    <3>1. Target[d] \in Slaves /\ ~Cyclic(Target[d]) /\ pc[d] \in Reading
        BY <1>1, <2>4, <2>6, MailboxAssumption
    <3>2. Target[d] # t
        BY <1>1, <3>1
    <3> QED
        BY <2>2, <3>1, <3>2 DEF OrderInv, ReaderInv, Keeps
  <2>7. ReaderInv'
      BY <1>1, <2>5, <2>6 DEF OrderInv, ReaderInv
  <2> QED
      BY <1>3, <2>2, <2>3, <2>7 DEF OrderInv, Keeps
<1> QED
    BY <1>5, <1>6

(* What the handler does with the queue is no reading. *)
LEMMA OrderOut ==
  ASSUME OrderInv, scene' = scene, OutBegin \/ Pick \/ WriteOut \/ Written \/ Rotate \/ DropQueue
  PROVE  OrderInv' /\ seen' = seen
<1>1. /\ UNCHANGED <<seen, skipped, pc, status, rmp, lastpos>> /\ hpc' # "in"
      /\ UNCHANGED slave \/ \E wkc \in {0, 1} : WriteMailbox(found.slave, mbx[found.buf], wkc)
  <2>1. CASE WriteOut
      BY <2>1 DEF WriteOut, Handling, handVars, callVars, inVars
  <2>2. CASE OutBegin \/ Pick
      BY <2>2 DEF OutBegin, Pick, Handling, handVars, callVars, inVars, slaveVars
  <2>3. CASE Written \/ Rotate \/ DropQueue
      BY <2>3 DEF Written, Rotate, DropQueue, Handling, handVars, callVars, inVars, slaveVars
  <2> QED
      BY <2>1, <2>2, <2>3
<1>2. AllOk /\ DOMAIN rmp' = Slaves /\ DOMAIN status' = Slaves
    BY <1>1 DEF OrderInv, AllOk, DomainInv
<1>3. AllKeep /\ DOMAIN slave' = Slaves
  <2>1. CASE UNCHANGED slave
      BY <1>1, <1>2, <2>1, SlavesStay DEF AllOk, DomainInv
  <2>2. CASE \E wkc \in {0, 1} : WriteMailbox(found.slave, mbx[found.buf], wkc)
      BY <1>1, <1>2, <2>2, WriteKeeps DEF handVars
  <2> QED
      BY <1>1, <2>1, <2>2
<1>4. VisitInv'
    BY <1>1 DEF OrderInv, VisitInv
<1>5. \A s \in Slaves : Cyclic(s) /\ (rmp'[s] # 0 \/ (Ahead(s)' /\ status'[s])) => Fresh(s)'
    BY <1>1, <1>3 DEF OrderInv, ReaderInv, AllKeep, Keeps, Ahead
<1> QED
    BY <1>1, <1>2, <1>3, <1>4, <1>5, HandlerGoes

LEMMA OrderSlave ==
  ASSUME OrderInv, scene' = scene, NEW t \in Slaves, SlaveStep(t)
  PROVE  OrderInv' /\ seen' = seen
<1>1. UNCHANGED <<seen, pc, status, rmp, hpc, visit, firstpos, lastpos>> /\ AllOk
    BY DEF SlaveStep, Serve, Repeat, Alarm, callVars, handVars, inVars, handlerVars, OrderInv, AllOk
<1>2. AllKeep /\ Others(t)
    BY <1>1, ServeKeeps, ObeyKeeps, AlarmKeeps DEF SlaveStep
<1>3. DomainInv' /\ VisitInv'
    BY <1>1, <1>2 DEF OrderInv, DomainInv, VisitInv, Others
<1>4. \A s \in Slaves : /\ SlaveOk(s)' /\ (Fresh(s) => Fresh(s)')
                        /\ Cyclic(s)' = Cyclic(s) /\ Ahead(s)' = Ahead(s)
    BY <1>1, <1>2 DEF AllKeep, Keeps, Cyclic, EnableMbxCyclicForCoe, Ahead, OffsetOf
<1>5. \A d \in Callers : Target[d] \in Slaves
    BY MailboxAssumption
<1>6. ReaderInv'
    BY <1>1, <1>4, <1>5 DEF OrderInv, ReaderInv
<1> QED
    BY <1>1, <1>3, <1>4, <1>6 DEF OrderInv

-----------------------------------------------------------------------------
LEMMA NothingPosted ==
  ASSUME NEW s \in Slaves, DOMAIN slave[s] = Fields,
         slave[s].out = Null, slave[s].last = Null, slave[s].missed \in BOOLEAN,
         slave[s].hasty \in BOOLEAN, slave[s].repeat = slave[s].ack, slave[s].posted = 0, seen[s] \in Seq(Nat), Dealt(s) = 0
  PROVE  SlaveOk(s)
<1>1. SlaveType(s)
    BY DEF SlaveType
<1>2. 0 + 1 .. 0 - 1 = {} /\ ~(0 < 0)
    OBVIOUS
<1>3. Ordered(s)
    BY <1>2 DEF Ordered
<1> QED
    BY <1>1, <1>3 DEF SlaveOk

LEMMA InitOrder == Init => OrderInv
<1> SUFFICES ASSUME Init PROVE OrderInv
    OBVIOUS
<1> USE DEF Init, LinkInit, DirectInit, CyclicInit
<1>1. DomainInv
    BY DEF DomainInv
<1>2. ASSUME NEW s \in Slaves PROVE SlaveOk(s)
  <2>1. /\ slave[s].in = Null /\ slave[s].out = Null /\ slave[s].last = Null
        /\ slave[s].missed \in BOOLEAN /\ slave[s].hasty \in BOOLEAN
        /\ slave[s].repeat = slave[s].ack /\ slave[s].posted = 0
        /\ DOMAIN slave[s] = Fields
      BY DEF Fields
  <2>2. seen[s] = <<>> /\ <<>> \in Seq(Nat) /\ Dealt(s) = 0
      BY DEF Dealt
  <2> QED
      BY <2>1, <2>2, NothingPosted
<1>3. ReaderInv
    BY MailboxAssumption DEF ReaderInv, Ahead, Reading
<1>4. VisitInv
  <2>1. Len(Lookup) \in Nat /\ Len(Lookup) # 0
      BY LookupAssumption
  <2> QED
      BY <2>1 DEF VisitInv
<1> QED
    BY <1>1, <1>2, <1>3, <1>4 DEF OrderInv

LEMMA NextOrder ==
  ASSUME OrderInv, [Next]_vars, AloneAtMailbox
  PROVE  /\ Running' => OrderInv'
         /\ \A s \in Slaves : seen'[s] # seen[s] => InOrder(s)
<1>1. CASE UNCHANGED vars
  <2>1. UNCHANGED <<scene, slave, seen, skipped, pc>> /\ UNCHANGED handlerState
      BY <1>1 DEF vars, slaveVars, handVars, callVars, inVars, handlerVars, handlerState
  <2>2. AllKeep /\ DOMAIN slave' = Slaves
      BY <2>1, SlavesStay DEF OrderInv, AllOk, DomainInv
  <2> QED
      BY <2>1, <2>2, CallersStay
<1>2. ASSUME scene' = scene, NEW c \in Callers, CallStep(c)
      PROVE  /\ Running' => OrderInv'
             /\ \A s \in Slaves : seen'[s] # seen[s] => InOrder(s)
  <2>1. CASE (Talk(c) \/ Expire(c)) /\ UNCHANGED <<statex, queueVars, inVars, handlerVars>>
      BY <1>2, <2>1, OrderTalk DEF inVars, handlerVars, handlerState
  <2>2. CASE ~Cyclic(Target[c]) /\ (DirectStep(c) \/ Turn(c)) /\ UNCHANGED <<queueVars, inVars, handlerVars>>
    <3>1. \/ pc'[c] = "crashed" /\ seen' = seen
          \/ OrderInv' /\ \A s \in Slaves : seen'[s] # seen[s] => InOrder(s)
        BY <1>2, <2>2, OrderDirect DEF inVars, handlerVars, handlerState
    <3> QED
        BY <3>1 DEF Running
  <2>3. CASE CyclicCall(c)
      BY <1>2, <2>3, OrderCyclicCall
  <2> QED
      BY <1>2, <2>1, <2>2, <2>3 DEF CallStep
<1>3. ASSUME scene' = scene, NEW t \in Slaves, SlaveStep(t) PROVE OrderInv' /\ seen' = seen
    BY <1>3, OrderSlave
<1>4. ASSUME scene' = scene, HandlerStep
      PROVE  OrderInv' /\ \A s \in Slaves : seen'[s] # seen[s] => InOrder(s)
    BY <1>4, OrderExchange, OrderPassBy, OrderGiveUpRmp, OrderRmp, OrderFetch, OrderOut DEF HandlerStep
<1> QED
    BY <1>1, <1>2, <1>3, <1>4 DEF Next

(* The master deals with every slave's messages once each and in their     *)
(* order, whatever is lost and whoever reads: the handler or one caller.   *)
(* The exceptions are those of the property.                               *)
THEOREM MessagesInOrder == Spec => InOrderOnce
<1> DEFINE Inv == AloneAtMailbox /\ Running => OrderInv
           A == AloneAtMailbox => \A s \in Slaves : seen'[s] # seen[s] =>
                  LET before == IF seen[s] = <<>> THEN 0 ELSE Last(seen[s])
                      now == Last(seen'[s])
                  IN \/ now > before /\ before + 1 .. now - 1 \subseteq skipped'[s]
                     \/ now = before /\ (slave[s].hasty \/ Erred(s))
<1>1. Init => Inv
    BY InitOrder
<1>2. Inv /\ [Next]_vars => Inv'
  <2> SUFFICES ASSUME Inv, [Next]_vars, AloneAtMailbox', Running' PROVE OrderInv'
      OBVIOUS
  <2>1. AloneAtMailbox
      BY DEF Next, vars, AloneAtMailbox, Cyclic, EnableMbxCyclicForCoe
  <2>2. Running
      BY DEF Next, vars, Running, handlerVars, callVars
  <2> QED
      BY <2>1, <2>2, NextOrder
<1>3. Inv /\ [Next]_vars => [A]_vars
  <2> SUFFICES ASSUME Inv, Next, AloneAtMailbox PROVE A
      OBVIOUS
  <2>1. Running
      BY DEF Next
  <2> QED
      BY <2>1, NextOrder DEF InOrder, Dealt
<1> QED
    BY <1>1, <1>2, <1>3, PTL DEF Spec, InOrderOnce

-----------------------------------------------------------------------------
(***************************************************************************)
(* What was sent.  The counter of a caller's request n, after those before *)
(* it; 0 is used once at most.                                             *)
(***************************************************************************)
CntOf(n) == IF n = 0 THEN scene.cnt ELSE ((scene.cnt + n - 1) % 7) + 1
Req(c, n) == Request(c, n, CntOf(n))
There(c) ==
  LET s == slave[Target[c]] IN s.in = Req(c, asked[c]) \/ <<c, asked[c]>> \in s.took

(* The requests for a slave in the queue, from the tail on. *)
Id(i) == mbx[place[i].buf].id
Pos(i) == IF i >= tail THEN i - tail ELSE i - tail + EC_MBXPOOLSIZE
OfSlave(i, s) == place[i].slave = s /\ place[i].buf # Null
HoldsReq == {"add", "write", "empty", "retry"}

SentType ==
  /\ scene \in Scenes
  /\ asked \in [Callers -> Nat] /\ DOMAIN sent = Callers /\ DOMAIN mbxcnt = Slaves
  /\ DOMAIN slave = Slaves /\ \A s \in Slaves : DOMAIN slave[s] = Fields

(* What waits to be written has a buffer, and is what the handler writes;  *)
(* a ticket given out is somebody's.                                       *)
PlaceInv ==
  /\ \A i \in Places : place[i].state \in {"req", "fail"} =>
       place[i].buf # Null /\ place[i].slave \in Slaves
  /\ hpc = "write" => place[loc].state \in {"req", "fail"} /\ found.slave = place[loc].slave
  /\ hpc = "written" => place[loc].state = "done"
  /\ \A t \in Places : Out(t) => \E c \in Callers : Waits(c) /\ ticket[c] = t

(* A caller's requests have the counters of their numbers, and stand in    *)
(* the queue, if the handler serves the slave, in their order.             *)
RequestInv(c) ==
  /\ mbxcnt[Target[c]] = CntOf(asked[c])
  /\ pc[c] \in HoldsReq => asked[c] # 0 /\ own[c] # Null /\ mbx[own[c]] = Req(c, asked[c])
EntryInv(c) ==
  /\ \A i \in Places : OfSlave(i, Target[c]) =>
       /\ Cyclic(Target[c])
       /\ Id(i) \in 1 .. asked[c] /\ mbx[place[i].buf] = Req(c, Id(i))
  /\ pc[c] = "add" => \A i \in Places : OfSlave(i, Target[c]) => Id(i) < asked[c]
  /\ \A i, j \in Places :
       OfSlave(i, Target[c]) /\ OfSlave(j, Target[c]) /\ Pos(i) < Pos(j) => Id(i) < Id(j)

(* The slave took request L last; the one in its mailbox and those in the  *)
(* queue come after it, or are L itself, written once more.                *)
Line(c, L) ==
  LET s == slave[Target[c]] IN
  /\ L \in 0 .. asked[c] /\ s.cnt = CntOf(L) /\ (L # 0 => <<c, L>> \in s.took)
  /\ \A n \in Nat : <<c, n>> \in s.took => n <= L
  /\ s.in # Null => s.in.id \in 1 .. asked[c] /\ s.in = Req(c, s.in.id) /\ L <= s.in.id
  /\ \A i \in Places : OfSlave(i, Target[c]) =>
       L <= Id(i) /\ (s.in # Null => s.in.id <= Id(i))
LineInv(c) == \E L \in Nat : Line(c, L)

Done(c) == Waits(c) /\ place[mbxticket[ticket[c]]].state = "done"
ToldInv(c) == sent[c] \/ Done(c) => There(c)

Served(c) == RequestInv(c) /\ EntryInv(c) /\ LineInv(c) /\ ToldInv(c)
SentInv ==
  /\ SentType /\ PlaceInv
  /\ \A c \in Callers : IF c \in scene.callers THEN Served(c) ELSE pc[c] = "rest" /\ ~sent[c]

(* What it rests on: every slave has one caller, and of any seven requests *)
(* to it in a row one arrives.                                             *)
OneCaller == \A c, d \in scene.callers : Target[c] = Target[d] => c = d
OneInSeven ==
  \A c \in scene.callers :
    asked[c] > 6 => \E n \in asked[c] - 6 .. asked[c] : <<c, n>> \in slave[Target[c]].took

LEMMA OneCallerIs ==
  ASSUME AloneAtSlave
  PROVE  OneCaller
BY DEF AloneAtSlave, AloneAtSlot, AloneAtMailbox, OneCaller

-----------------------------------------------------------------------------
(* The counters: seven in a ring. *)
LEMMA CntNext ==
  ASSUME scene \in Scenes, NEW n \in Nat
  PROVE  NextMbxCnt(CntOf(n)) = CntOf(n + 1)
<1>1. scene.cnt \in 0 .. 7
    BY MailboxAssumption
<1> PICK k \in 0 .. 7 : k = scene.cnt
    BY <1>1
<1>2. CASE n = 0
  <2>1. CntOf(0) = k /\ CntOf(1) = (k % 7) + 1
      BY <1>2 DEF CntOf
  <2>2. NextMbxCnt(k) = (k % 7) + 1
      BY DEF NextMbxCnt
  <2> QED
      BY <1>2, <2>1, <2>2
<1>3. CASE n # 0
  <2> DEFINE x == k + n - 1
  <2>1. CntOf(n) = (x % 7) + 1 /\ CntOf(n + 1) = ((x + 1) % 7) + 1
      BY <1>3 DEF CntOf
  <2>2. x \in Nat
      BY <1>3
  <2> HIDE DEF x
  <2>3. (x + 1) % 7 = IF x % 7 = 6 THEN 0 ELSE (x % 7) + 1
      BY <2>2
  <2>4. x % 7 \in 0 .. 6
      BY <2>2
  <2> QED
      BY <2>1, <2>3, <2>4 DEF NextMbxCnt
<1> QED
    BY <1>2, <1>3

LEMMA RingDiffers ==
  ASSUME NEW x \in Nat, NEW y \in Nat, x < y, y - x <= 6
  PROVE  x % 7 # y % 7
OBVIOUS

LEMMA FirstDiffers ==
  ASSUME NEW k \in 1 .. 7, NEW n \in 1 .. 6
  PROVE  k # ((k + n - 1) % 7) + 1
<1> DEFINE x == k - 1
           y == k + n - 1
<1>1. x \in Nat /\ y \in Nat /\ x < y /\ y - x <= 6 /\ x % 7 = x /\ k = x + 1
    OBVIOUS
<1> HIDE DEF x, y
<1>2. x % 7 # y % 7 /\ y % 7 \in Nat
    BY <1>1, RingDiffers
<1> QED
    BY <1>1, <1>2 DEF y

LEMMA CntDiffers ==
  ASSUME scene \in Scenes, NEW m \in Nat, NEW n \in Nat, m < n, n - m <= 6
  PROVE  CntOf(m) # CntOf(n)
<1>1. scene.cnt \in 0 .. 7
    BY MailboxAssumption
<1> PICK k \in 0 .. 7 : k = scene.cnt
    BY <1>1
<1>2. CASE m = 0
  <2>1. CntOf(m) = k /\ CntOf(n) = ((k + n - 1) % 7) + 1
      BY <1>2 DEF CntOf
  <2>2. n \in 1 .. 6
      BY <1>2
  <2>3. CASE k = 0
      BY <2>1, <2>2, <2>3
  <2>4. CASE k # 0
    <3>1. k \in 1 .. 7
        BY <2>4
    <3>2. k # ((k + n - 1) % 7) + 1
        BY <2>2, <3>1, FirstDiffers
    <3> QED
        BY <2>1, <3>2
  <2> QED
      BY <2>3, <2>4
<1>3. CASE m # 0
  <2> DEFINE x == k + m - 1
             y == k + n - 1
  <2>1. CntOf(m) = (x % 7) + 1 /\ CntOf(n) = (y % 7) + 1
      BY <1>3 DEF CntOf
  <2>2. x \in Nat /\ y \in Nat /\ x < y /\ y - x <= 6
      BY <1>3
  <2> HIDE DEF x, y
  <2>3. x % 7 # y % 7
      BY <2>2, RingDiffers
  <2> QED
      BY <2>1, <2>2, <2>3
<1> QED
    BY <1>2, <1>3

LEMMA ReqIsNotNull ==
  ASSUME scene \in Scenes, NEW c \in Callers, NEW n \in Nat
  PROVE  CntOf(n) \in Nat /\ Req(c, n) # Null
<1>1. scene.cnt \in Nat
    BY MailboxAssumption
<1>2. CntOf(n) \in Nat
  <2>1. n = 0 => CntOf(n) = scene.cnt
      BY DEF CntOf
  <2>2. n # 0 => CntOf(n) = ((scene.cnt + n - 1) % 7) + 1 /\ scene.cnt + n - 1 \in Nat
      BY <1>1 DEF CntOf
  <2> HIDE DEF CntOf
  <2> QED
      BY <1>1, <2>1, <2>2
<1> QED
    BY <1>2, MailboxAssumption DEF Req, Request

(* The places, and how far they are from the tail. *)
LEMMA PosIs ==
  ASSUME QueueType, NEW i \in Places, NEW j \in Places
  PROVE  /\ Pos(i) \in 0 .. EC_MBXPOOLSIZE - 1 /\ (Pos(i) = 0 <=> i = tail)
         /\ Pos(i) = Pos(j) => i = j
BY MailboxAssumption DEF QueueType, Places, Pos

(***************************************************************************)
(* What a step leaves of a caller's part, once for each part.  First the   *)
(* queue: entries only leave it, and keep their order.                     *)
(***************************************************************************)
EntriesKept(s) ==
  /\ \A i \in Places : OfSlave(i, s)' =>
       OfSlave(i, s) /\ mbx'[place'[i].buf] = mbx[place[i].buf]
  /\ \A i, j \in Places : OfSlave(i, s)' /\ OfSlave(j, s)' /\ Pos(i)' < Pos(j)' => Pos(i) < Pos(j)

LEMMA EntriesStay ==
  ASSUME NEW c \in Callers, EntryInv(c), scene' = scene, EntriesKept(Target[c]),
         asked[c] \in Nat, asked'[c] \in Nat, asked[c] <= asked'[c],
         pc'[c] = "add" => pc[c] = "add" \/ asked[c] < asked'[c]
  PROVE  EntryInv(c)'
<1> DEFINE s == Target[c]
<1>1. \A n : Req(c, n)' = Req(c, n)
    BY DEF Req, CntOf, Request
<1>2. \A i \in Places : OfSlave(i, s)' => OfSlave(i, s) /\ Id(i)' = Id(i)
    BY DEF EntriesKept, Id
<1>3. \A i \in Places : OfSlave(i, s)' =>
        Cyclic(s)' /\ Id(i)' \in 1 .. asked'[c] /\ mbx'[place'[i].buf] = Req(c, Id(i))'
  <2>1. ASSUME NEW i \in Places, OfSlave(i, s)'
        PROVE  Cyclic(s)' /\ Id(i)' \in 1 .. asked'[c] /\ mbx'[place'[i].buf] = Req(c, Id(i))'
    <3>1. OfSlave(i, s) /\ Id(i)' = Id(i) /\ mbx'[place'[i].buf] = mbx[place[i].buf]
        BY <2>1 DEF EntriesKept, Id
    <3>2. Cyclic(s) /\ Id(i) \in 1 .. asked[c] /\ mbx[place[i].buf] = Req(c, Id(i))
        BY <3>1 DEF EntryInv
    <3>3. Req(c, Id(i))' = Req(c, Id(i))
        BY <3>1 DEF Req, CntOf, Request
    <3> QED
        BY <3>1, <3>2, <3>3 DEF Cyclic, EnableMbxCyclicForCoe
  <2> QED
      BY <2>1
<1>4. pc'[c] = "add" => \A i \in Places : OfSlave(i, s)' => Id(i)' < asked'[c]
  <2>1. ASSUME pc'[c] = "add", NEW i \in Places, OfSlave(i, s)' PROVE Id(i)' < asked'[c]
    <3>1. OfSlave(i, s) /\ Id(i)' = Id(i) /\ Id(i) \in 1 .. asked[c]
        BY <1>2, <2>1 DEF EntryInv
    <3>2. pc[c] = "add" => Id(i) < asked[c]
        BY <3>1 DEF EntryInv
    <3> QED
        BY <2>1, <3>1, <3>2
  <2> QED
      BY <2>1
<1>5. \A i, j \in Places :
        OfSlave(i, s)' /\ OfSlave(j, s)' /\ Pos(i)' < Pos(j)' => Id(i)' < Id(j)'
    BY <1>2 DEF EntryInv, EntriesKept
<1> QED
    BY <1>3, <1>4, <1>5 DEF EntryInv

LEMMA PlacesStay ==
  ASSUME NEW s, UNCHANGED tail,
         \A i \in Places : place'[i].buf = place[i].buf /\ place'[i].slave = place[i].slave,
         \A i \in Places : place[i].buf # Null => mbx'[place[i].buf] = mbx[place[i].buf]
  PROVE  EntriesKept(s)
BY DEF EntriesKept, OfSlave, Pos

(* The slave: it has the same request and took the same ones. *)
SameBox(s) ==
  slave'[s].in = slave[s].in /\ slave'[s].cnt = slave[s].cnt /\ slave'[s].took = slave[s].took

LEMMA ThereStays ==
  ASSUME NEW c \in Callers, scene' = scene, SameBox(Target[c]), asked'[c] = asked[c]
  PROVE  There(c)' <=> There(c)
BY DEF There, SameBox, Req, CntOf, Request

LEMMA LineStays ==
  ASSUME NEW c \in Callers, LineInv(c), scene' = scene, SameBox(Target[c]),
         asked[c] \in Nat, asked'[c] \in Nat, asked[c] <= asked'[c],
         \A i \in Places : OfSlave(i, Target[c])' =>
           \/ \E j \in Places : OfSlave(j, Target[c]) /\ Id(i)' = Id(j)
           \/ Id(i)' = asked'[c]
  PROVE  LineInv(c)'
<1> PICK L \in Nat : Line(c, L)
    BY DEF LineInv
<1> DEFINE s == Target[c]
<1>1. L \in 0 .. asked'[c] /\ slave'[s].cnt = CntOf(L)' /\ (L # 0 => <<c, L>> \in slave'[s].took)
    BY DEF Line, SameBox, CntOf
<1>2. \A n \in Nat : <<c, n>> \in slave'[s].took => n <= L
    BY DEF Line, SameBox
<1>3. slave'[s].in # Null =>
        /\ slave'[s].in.id \in 1 .. asked[c] /\ L <= slave'[s].in.id
        /\ slave'[s].in = Request(c, slave'[s].in.id, CntOf(slave[s].in.id))
    BY DEF Line, SameBox, Req
<1>4. slave'[s].in # Null =>
        /\ slave'[s].in.id \in 1 .. asked'[c] /\ L <= slave'[s].in.id
        /\ slave'[s].in = Req(c, slave[s].in.id)'
  <2>1. \A n : CntOf(n)' = CntOf(n)
      BY DEF CntOf
  <2> QED
      BY <1>3, <2>1 DEF Req, SameBox, CntOf
<1>5. ASSUME NEW i \in Places, OfSlave(i, s)'
      PROVE  L <= Id(i)' /\ (slave'[s].in # Null => slave'[s].in.id <= Id(i)')
  <2>1. CASE \E j \in Places : OfSlave(j, s) /\ Id(i)' = Id(j)
      BY <2>1 DEF Line, SameBox
  <2>2. CASE Id(i)' = asked'[c]
      BY <1>1, <1>4, <2>2
  <2> QED
      BY <1>5, <2>1, <2>2
<1>6. Line(c, L)'
    BY <1>1, <1>2, <1>4, <1>5 DEF Line
<1> QED
    BY <1>6 DEF LineInv

(* The slave takes the request in its mailbox.  One with the counter of    *)
(* the one before is that one: of seven numbers in a row no two have the   *)
(* same counter.                                                           *)
LEMMA LineTaken ==
  ASSUME NEW c \in Callers, c \in scene.callers, SentType, LineInv(c), OneInSeven,
         Serve(Target[c]), UNCHANGED <<scene, asked, tail, place, mbx>>
  PROVE  LineInv(c)' /\ (There(c) => There(c)')
<1> DEFINE s == Target[c]
           v == slave[s]
           m == v.in.id
           w == [v EXCEPT !.in = Null, !.cnt = v.in.cnt, !.took = v.took \cup {<<v.in.by, v.in.id>>}]
<1> PICK L \in Nat : Line(c, L)
    BY DEF LineInv
<1>1. /\ s \in Slaves /\ DOMAIN v = Fields /\ asked[c] \in Nat /\ scene \in Scenes
      /\ v.in # Null
    BY MailboxAssumption DEF SentType, Serve
<1>2. /\ m \in 1 .. asked[c] /\ v.in = Req(c, m) /\ L <= m /\ L \in 0 .. asked[c]
      /\ v.in.by = c /\ v.in.cnt = CntOf(m) /\ v.cnt = CntOf(L)
    BY <1>1 DEF Line, Req, Request
<1>3. asked[c] - L <= 6
  <2>1. CASE asked[c] > 6
    <3>1. PICK n \in asked[c] - 6 .. asked[c] : <<c, n>> \in v.took
        BY <2>1 DEF OneInSeven
    <3>2. n \in Nat /\ n <= L
        BY <1>1, <2>1, <3>1 DEF Line
    <3> QED
        BY <1>1, <3>1, <3>2
  <2> QED
      BY <1>1, <2>1
<1>4. /\ \A i \in Places : OfSlave(i, s)' <=> OfSlave(i, s)
      /\ \A i \in Places : Id(i)' = Id(i)
      /\ \A n : CntOf(n)' = CntOf(n)
    BY DEF OfSlave, Id, CntOf
<1>5. There(c) => m = asked[c] \/ <<c, asked[c]>> \in v.took
    BY <1>2 DEF There, Req, Request
<1>6. CASE v.in.cnt = v.cnt
  <2>1. m = L
    <3>1. ASSUME m # L PROVE FALSE
      <4>1. m \in Nat /\ L < m /\ m - L <= 6
          BY <1>1, <1>2, <1>3, <3>1
      <4>2. CntOf(L) # CntOf(m)
          BY <1>1, <4>1, CntDiffers
      <4> QED
          BY <1>2, <1>6, <4>2
    <3> QED
        BY <3>1
  <2>2. <<c, m>> \in v.took
      BY <1>2, <2>1 DEF Line
  <2>3. slave' = [slave EXCEPT ![s].in = Null]
      BY <1>6 DEF Serve
  <2>4. slave'[s].in = Null /\ slave'[s].cnt = v.cnt /\ slave'[s].took = v.took
      BY <1>1, <2>3 DEF SentType, Fields
  <2>5. Line(c, L)'
    <3>1. slave'[s].cnt = CntOf(L)'
        BY <1>2, <1>4, <2>4
    <3> QED
        BY <1>4, <2>4, <3>1 DEF Line
  <2>6. There(c) => There(c)'
      BY <1>5, <2>2, <2>4 DEF There
  <2> QED
      BY <2>5, <2>6 DEF LineInv
<1>7. CASE v.in.cnt # v.cnt
  <2>1. slave' = [slave EXCEPT ![s] = Post(s, w, "answer")]
      BY <1>7 DEF Serve
  <2>2. /\ DOMAIN w = Fields /\ w.in = Null /\ w.cnt = v.in.cnt
        /\ w.took = v.took \cup {<<c, m>>}
      BY <1>1, <1>2 DEF Fields
  <2> HIDE DEF w
  <2>3. slave'[s].in = Null /\ slave'[s].cnt = w.cnt /\ slave'[s].took = w.took
      BY <1>1, <2>1, <2>2 DEF SentType, Post, Fields
  <2>4. \A k \in Nat : k = m => slave'[s].cnt = CntOf(k)'
      BY <1>2, <2>2, <2>3 DEF CntOf
  <2>5. \A n \in Nat : <<c, n>> \in slave'[s].took => n <= m
    <3>1. ASSUME NEW n \in Nat, <<c, n>> \in slave'[s].took, n # m PROVE n <= m
      <4>1. <<c, n>> \in v.took
          BY <2>2, <2>3, <3>1
      <4>2. n <= L
          BY <4>1 DEF Line
      <4> QED
          BY <1>1, <1>2, <4>2
    <3> QED
        BY <1>1, <1>2, <3>1
  <2>6. \A i \in Places : OfSlave(i, s)' => m <= Id(i)'
      BY <1>1, <1>4 DEF Line
  <2>7. m \in Nat /\ m \in 0 .. asked[c]
      BY <1>1, <1>2
  <2> PICK k \in Nat : k = m
      BY <2>7
  <2>8. Line(c, k)'
    <3>1. k \in 0 .. asked'[c] /\ slave'[s].cnt = CntOf(k)'
        BY <2>4, <2>7
    <3>2. <<c, k>> \in slave'[s].took
        BY <2>2, <2>3
    <3> HIDE DEF m
    <3> QED
        BY <2>3, <2>5, <2>6, <3>1, <3>2 DEF Line
  <2>9. There(c) => There(c)'
      BY <1>5, <2>2, <2>3 DEF There
  <2> QED
      BY <2>8, <2>9 DEF LineInv
<1> QED
    BY <1>6, <1>7

(* A request of the caller is written into its empty mailbox. *)
LEMMA LineWritten ==
  ASSUME NEW c \in Callers, LineInv(c), scene \in Scenes, scene' = scene, asked'[c] = asked[c],
         asked[c] \in Nat,
         NEW n \in 1 .. asked[c], slave[Target[c]].in = Null, slave'[Target[c]].in = Req(c, n),
         slave'[Target[c]].cnt = slave[Target[c]].cnt, slave'[Target[c]].took = slave[Target[c]].took,
         n = asked[c] \/ \E j \in Places : OfSlave(j, Target[c]) /\ Id(j) = n,
         \A i \in Places : OfSlave(i, Target[c])' =>
           n <= Id(i)' /\ \E j \in Places : OfSlave(j, Target[c]) /\ Id(i)' = Id(j)
  PROVE  LineInv(c)' /\ (There(c) => There(c)') /\ (n = asked[c] => There(c)')
<1> PICK L \in Nat : Line(c, L)
    BY DEF LineInv
<1> DEFINE s == Target[c]
<1>0. \A k : CntOf(k)' = CntOf(k)
    BY DEF CntOf
<1>1. L \in 0 .. asked'[c] /\ slave'[s].cnt = CntOf(L)' /\ (L # 0 => <<c, L>> \in slave'[s].took)
    BY DEF Line, CntOf
<1>2. \A k \in Nat : <<c, k>> \in slave'[s].took => k <= L
    BY DEF Line
<1>3. L <= n
    BY DEF Line
<1>4. slave'[s].in.id = n /\ Req(c, n)' = Req(c, n)
    BY <1>0 DEF Req, Request
<1>5. slave'[s].in = Req(c, slave[s].in.id)'
    BY <1>0, <1>4 DEF Req
<1>6. \A i \in Places : OfSlave(i, s)' => L <= Id(i)' /\ n <= Id(i)'
    BY DEF Line
<1>7. Line(c, L)'
    BY <1>1, <1>2, <1>3, <1>4, <1>5, <1>6 DEF Line
<1>8. ASSUME There(c) PROVE There(c)'
  <2>1. <<c, asked[c]>> \in slave[s].took
    <3>1. Null # Req(c, asked[c])
        BY ReqIsNotNull
    <3> QED
        BY <1>8, <3>1 DEF There
  <2> QED
      BY <2>1 DEF There
<1>9. n = asked[c] => There(c)'
    BY <1>4 DEF There, Req, CntOf
<1> QED
    BY <1>7, <1>8, <1>9 DEF LineInv

-----------------------------------------------------------------------------
(***************************************************************************)
(* The whole of it, once for every kind of step: how the slaves' part goes *)
(* on, and then the callers'.                                              *)
(***************************************************************************)
LinesGoOn ==
  \A d \in Callers : d \in scene.callers => LineInv(d)' /\ (There(d) => There(d)')
BoxesStay ==
  /\ DOMAIN slave' = Slaves
  /\ \A s \in Slaves : SameBox(s) /\ DOMAIN slave'[s] = Fields

(* One that changes no request of a slave. *)
LEMMA BoxesKeepLines ==
  ASSUME SentInv, BoxesStay, UNCHANGED <<scene, asked>>,
         \A d \in Callers : d \in scene.callers => EntriesKept(Target[d])
  PROVE  LinesGoOn
<1> SUFFICES ASSUME NEW d \in Callers, d \in scene.callers
             PROVE  LineInv(d)' /\ (There(d) => There(d)')
    BY DEF LinesGoOn
<1> DEFINE s == Target[d]
<1>1. s \in Slaves /\ asked[d] \in Nat /\ LineInv(d) /\ SameBox(s)
    BY MailboxAssumption DEF SentInv, SentType, Served, BoxesStay
<1>2. ASSUME NEW i \in Places, OfSlave(i, s)'
      PROVE  \E j \in Places : OfSlave(j, s) /\ Id(i)' = Id(j)
    BY <1>2 DEF EntriesKept, Id
<1>3. LineInv(d)'
    BY <1>1, <1>2, LineStays
<1> QED
    BY <1>1, <1>3, ThereStays

(* One after which every caller has the requests it had. *)
LEMMA ServedGoOn ==
  ASSUME SentInv, UNCHANGED <<scene, asked, mbxcnt>>, SentType', PlaceInv', LinesGoOn,
         \A d \in Callers : d \notin scene.callers => pc'[d] = "rest" /\ ~sent'[d],
         \A d \in Callers : d \in scene.callers =>
           /\ EntryInv(d)'
           /\ pc'[d] \in HoldsReq =>
                pc[d] \in HoldsReq /\ own'[d] = own[d] /\ mbx'[own[d]] = mbx[own[d]]
           /\ sent'[d] \/ Done(d)' => sent[d] \/ Done(d) \/ There(d)'
  PROVE  SentInv'
<1>1. ASSUME NEW d \in Callers, d \in scene.callers PROVE Served(d)'
  <2>1. RequestInv(d) /\ ToldInv(d)
      BY <1>1 DEF SentInv, Served
  <2>2. \A n : Req(d, n)' = Req(d, n) /\ CntOf(n)' = CntOf(n)
      BY DEF Req, CntOf
  <2>3. mbxcnt'[Target[d]] = CntOf(asked[d])'
      BY <2>1 DEF RequestInv, CntOf
  <2>4. pc'[d] \in HoldsReq => asked'[d] # 0 /\ own'[d] # Null /\ mbx'[own'[d]] = Req(d, asked[d])'
      BY <1>1, <2>1 DEF RequestInv, Req, CntOf
  <2>5. RequestInv(d)'
      BY <2>3, <2>4 DEF RequestInv
  <2>6. ToldInv(d)'
      BY <1>1, <2>1 DEF ToldInv, LinesGoOn
  <2> QED
      BY <1>1, <2>5, <2>6 DEF Served, LinesGoOn
<1> QED
    BY <1>1 DEF SentInv

(* The queue is left alone. *)
LEMMA PlacesAsTheyWere ==
  ASSUME PlaceInv, UNCHANGED <<place, mbxticket, ticket, loc, found>>,
         \A d \in Callers : Waits(d) => Waits(d)', hpc' \in {"write", "written"} => hpc' = hpc
  PROVE  PlaceInv'
<1>1. \A t \in Places : Out(t)' => \E d \in Callers : Waits(d)' /\ ticket'[d] = t
    BY DEF PlaceInv, Out
<1>2. \A i \in Places : place'[i].state \in {"req", "fail"} =>
        place'[i].buf # Null /\ place'[i].slave \in Slaves
    BY DEF PlaceInv
<1>3. /\ hpc' = "write" => place'[loc'].state \in {"req", "fail"} /\ found'.slave = place'[loc'].slave
      /\ hpc' = "written" => place'[loc'].state = "done"
    BY DEF PlaceInv
<1> QED
    BY <1>1, <1>2, <1>3 DEF PlaceInv

LEMMA AllEntriesStay ==
  ASSUME SentInv, UNCHANGED <<scene, asked, tail>>,
         \A i \in Places : place'[i].buf = place[i].buf /\ place'[i].slave = place[i].slave,
         \A i \in Places : place[i].buf # Null => mbx'[place[i].buf] = mbx[place[i].buf],
         \A d \in Callers : pc'[d] = "add" => pc[d] = "add"
  PROVE  /\ \A d \in Callers : d \in scene.callers => EntryInv(d)'
         /\ \A d \in Callers : EntriesKept(Target[d])
<1>1. \A d \in Callers : EntriesKept(Target[d])
    BY PlacesStay
<1>2. \A d \in Callers : d \in scene.callers => EntryInv(d) /\ asked[d] \in Nat /\ asked'[d] = asked[d]
    BY DEF SentInv, SentType, Served
<1>3. ASSUME NEW d \in Callers, d \in scene.callers PROVE EntryInv(d)'
  <2>1. EntryInv(d) /\ asked[d] \in Nat /\ asked'[d] \in Nat /\ asked[d] <= asked'[d]
      BY <1>2, <1>3
  <2>2. EntriesKept(Target[d]) /\ (pc'[d] = "add" => pc[d] = "add" \/ asked[d] < asked'[d])
      BY <1>1
  <2> QED
      BY <2>1, <2>2, EntriesStay
<1> QED
    BY <1>1, <1>3

(* No caller goes on. *)
LEMMA CallersWait ==
  ASSUME SentInv, UNCHANGED <<scene, asked, mbxcnt, pc, own, sent>>, SentType', PlaceInv',
         LinesGoOn, \A d \in Callers : own[d] # Null => mbx'[own[d]] = mbx[own[d]],
         \A d \in Callers : d \in scene.callers =>
           EntryInv(d)' /\ (Done(d)' => Done(d) \/ There(d)')
  PROVE  SentInv'
<1>1. ASSUME NEW d \in Callers, d \in scene.callers, pc'[d] \in HoldsReq
      PROVE  pc[d] \in HoldsReq /\ own'[d] = own[d] /\ mbx'[own[d]] = mbx[own[d]]
    BY <1>1 DEF SentInv, Served, RequestInv
<1>2. \A d \in Callers : d \notin scene.callers => pc'[d] = "rest" /\ ~sent'[d]
    BY DEF SentInv
<1> QED
    BY <1>1, <1>2, ServedGoOn

LEMMA QuietStep ==
  ASSUME SentInv, BoxesStay, PlaceInv',
         UNCHANGED <<scene, asked, mbxcnt, pc, own, sent, ticket, mbx, tail, place, mbxticket>>
  PROVE  SentInv'
<1>1. /\ \A d \in Callers : d \in scene.callers => EntryInv(d)'
      /\ \A d \in Callers : EntriesKept(Target[d])
    BY AllEntriesStay
<1>2. LinesGoOn
    BY <1>1, BoxesKeepLines
<1>3. SentType'
    BY DEF SentInv, SentType, BoxesStay
<1>4. \A d \in Callers : Done(d)' => Done(d)
    BY DEF Done, Waits
<1> QED
    BY <1>1, <1>2, <1>3, <1>4, CallersWait

(* One caller goes on, and leaves the queue alone. *)
LEMMA OneGoesOn ==
  ASSUME MailboxInv, SentInv, NEW c \in Callers, c \in scene.callers, ~Waits(c),
         NEW at \in Active, at # "add", Goto(c, at),
         at \in HoldsReq => pc[c] \in HoldsReq /\ UNCHANGED <<own, mbx>>,
         \A d \in Callers : d # c => own'[d] = own[d] /\ sent'[d] = sent[d],
         \A d \in Callers : d # c /\ own[d] # Null => mbx'[own[d]] = mbx[own[d]],
         \A i \in Places : place[i].buf # Null => mbx'[place[i].buf] = mbx[place[i].buf],
         DOMAIN sent' = Callers, sent'[c] => sent[c] \/ There(c)',
         DOMAIN slave' = Slaves, \A s \in Slaves : DOMAIN slave'[s] = Fields, LinesGoOn,
         UNCHANGED <<scene, asked, mbxcnt, ticket, queueState>>
  PROVE  SentInv'
<1>0. UNCHANGED <<head, tail, count, place, mbxticket, hpc, loc, found, listleft>>
    BY DEF queueState
<1>1. pc'[c] = at /\ ~Waits(c)' /\ \A d \in Callers : d # c => pc'[d] = pc[d]
    BY DEF MailboxInv, MailboxType, CallType, Goto, Waits, Active, Waiting
<1>2. PlaceInv'
    BY <1>0, <1>1, PlacesAsTheyWere DEF SentInv, Waits
<1>3. \A d \in Callers : d \in scene.callers => EntryInv(d)'
    BY <1>0, <1>1, AllEntriesStay
<1>4. SentType'
    BY DEF SentInv, SentType
<1>5. \A d \in Callers : d \notin scene.callers => pc'[d] = "rest" /\ ~sent'[d]
    BY <1>1 DEF SentInv
<1>6. ASSUME NEW d \in Callers, d \in scene.callers
      PROVE  /\ pc'[d] \in HoldsReq =>
                  pc[d] \in HoldsReq /\ own'[d] = own[d] /\ mbx'[own[d]] = mbx[own[d]]
             /\ sent'[d] \/ Done(d)' => sent[d] \/ Done(d) \/ There(d)'
  <2>1. CASE d = c
      BY <1>1, <2>1 DEF Done
  <2>2. CASE d # c
    <3>1. pc'[d] \in HoldsReq => own[d] # Null
        BY <1>1, <1>6, <2>2 DEF SentInv, Served, RequestInv
    <3>2. Done(d)' => Done(d)
        BY <1>0, <1>1, <2>2 DEF Done, Waits
    <3> QED
        BY <1>1, <2>2, <3>1, <3>2
  <2> QED
      BY <2>1, <2>2
<1> QED
    BY <1>2, <1>3, <1>4, <1>5, <1>6, ServedGoOn

(* ... and no slave has another request, or none. *)
LEMMA OneGoesOnAlone ==
  ASSUME MailboxInv, SentInv, NEW c \in Callers, c \in scene.callers, ~Waits(c),
         NEW at \in Active, at # "add", Goto(c, at),
         at \in HoldsReq => pc[c] \in HoldsReq /\ UNCHANGED <<own, mbx>>,
         \A d \in Callers : d # c => own'[d] = own[d] /\ sent'[d] = sent[d],
         \A d \in Callers : d # c /\ own[d] # Null => mbx'[own[d]] = mbx[own[d]],
         \A i \in Places : place[i].buf # Null => mbx'[place[i].buf] = mbx[place[i].buf],
         DOMAIN sent' = Callers, sent'[c] => sent[c], BoxesStay,
         UNCHANGED <<scene, asked, mbxcnt, ticket, queueState>>
  PROVE  SentInv'
<1>0. UNCHANGED <<place, tail>>
    BY DEF queueState
<1>1. \A d \in Callers : EntriesKept(Target[d])
    BY <1>0, PlacesStay
<1>2. LinesGoOn
    BY <1>1, BoxesKeepLines
<1>3. DOMAIN slave' = Slaves /\ \A s \in Slaves : DOMAIN slave'[s] = Fields
    BY DEF BoxesStay
<1> QED
    BY <1>2, <1>3, OneGoesOn

(* ... giving its buffer back. *)
LEMMA OneGivesBack ==
  ASSUME MailboxInv, SentInv, NEW c \in Callers, c \in scene.callers, ~Waits(c),
         NEW at \in Active \ HoldsReq, Goto(c, at),
         Drop(own[c]), own' = [own EXCEPT ![c] = Null], DOMAIN sent' = Callers,
         \A d \in Callers : d # c => sent'[d] = sent[d], sent'[c] => sent[c] \/ There(c)',
         DOMAIN slave' = Slaves, \A s \in Slaves : DOMAIN slave'[s] = Fields, LinesGoOn,
         UNCHANGED <<scene, asked, mbxcnt, ticket, queueState>>
  PROVE  SentInv'
<1>1. PoolType /\ OwnerInv /\ QueueType
    BY DEF MailboxInv, MailboxType
<1>2. \A d \in Callers : d # c => own'[d] = own[d]
    BY <1>1 DEF PoolType
<1>3. /\ \A d \in Callers : d # c /\ own[d] # Null => mbx'[own[d]] = mbx[own[d]]
      /\ \A i \in Places : place[i].buf # Null => mbx'[place[i].buf] = mbx[place[i].buf]
    BY <1>1, DropLeavesRequests
<1>4. at # "add" /\ at \in Active /\ at \notin HoldsReq
    BY DEF HoldsReq
<1> QED
    BY <1>2, <1>3, <1>4, OneGoesOn

LEMMA BoxesAsTheyWere ==
  ASSUME SentInv, slave' = slave
  PROVE  BoxesStay
BY DEF SentInv, SentType, BoxesStay, SameBox

LEMMA StillLines ==
  ASSUME SentInv, UNCHANGED <<scene, asked, slave, tail, place>>,
         \A i \in Places : place[i].buf # Null => mbx'[place[i].buf] = mbx[place[i].buf]
  PROVE  /\ LinesGoOn /\ DOMAIN slave' = Slaves /\ \A s \in Slaves : DOMAIN slave'[s] = Fields
         /\ \A d \in Callers : EntriesKept(Target[d])
<1>1. \A d \in Callers : EntriesKept(Target[d])
    BY PlacesStay
<1>2. BoxesStay
    BY BoxesAsTheyWere
<1>3. LinesGoOn
    BY <1>1, <1>2, BoxesKeepLines
<1> QED
    BY <1>1, <1>2, <1>3 DEF BoxesStay

(* The next request, with the next counter. *)
LEMMA SentAsk ==
  ASSUME MailboxInv, SentInv, OneCaller, scene' = scene, NEW c \in Callers, Ask(c, Send(c)),
         mbxpool # {}, UNCHANGED <<queueState, ticket>>
  PROVE  SentInv'
<1> DEFINE s == Target[c]
<1>0. UNCHANGED <<place, tail, mbxticket, hpc, loc, found>>
    BY DEF queueState
<1>1. /\ pc[c] = "ask" /\ c \in scene.callers /\ s \in Slaves /\ scene \in Scenes
      /\ asked \in [Callers -> Nat] /\ DOMAIN mbxcnt = Slaves /\ DOMAIN sent = Callers
      /\ PoolType /\ QueueType /\ OwnerInv
    BY MailboxAssumption DEF Ask, SentInv, SentType, MailboxInv, MailboxType
<1> PICK n \in Nat : n = asked[c]
    BY <1>1
<1> PICK f \in Bufs : f = Free /\ f # Null /\ f \in mbxpool
    BY <1>1, FreeIsInPool
<1>2. Served(c) /\ mbxcnt[s] = CntOf(n)
    BY <1>1 DEF SentInv, Served, RequestInv
<1>3. /\ Goto(c, Send(c)) /\ own' = [own EXCEPT ![c] = f] /\ sent' = [sent EXCEPT ![c] = FALSE]
      /\ asked' = [asked EXCEPT ![c] = n + 1] /\ UNCHANGED slave
      /\ mbxcnt' = [mbxcnt EXCEPT ![s] = CntOf(n + 1)]
      /\ mbx' = [mbx EXCEPT ![f] = Request(c, n + 1, mbxcnt'[s])]
  <2>1. NextMbxCnt(mbxcnt[s]) = CntOf(n + 1)
      BY <1>1, <1>2, CntNext
  <2> QED
      BY <2>1 DEF Ask, slaveVars
<1>4. /\ asked' \in [Callers -> Nat] /\ asked'[c] = n + 1
      /\ \A d \in Callers : d # c => asked'[d] = asked[d]
      /\ DOMAIN mbxcnt' = Slaves /\ mbxcnt'[s] = CntOf(n + 1)
      /\ \A t \in Slaves : t # s => mbxcnt'[t] = mbxcnt[t]
    BY <1>1, <1>3
<1>5. /\ pc'[c] = Send(c) /\ Send(c) \in {"add", "write"} /\ ~Waits(c) /\ ~Waits(c)'
      /\ \A d \in Callers : d # c => pc'[d] = pc[d]
    BY <1>1, <1>3 DEF MailboxInv, MailboxType, CallType, Goto, Waits, Waiting, Send
<1>6. /\ own'[c] = f /\ mbx'[f] = Request(c, n + 1, CntOf(n + 1))
      /\ \A d \in Callers : d # c => own'[d] = own[d] /\ sent'[d] = sent[d]
      /\ DOMAIN sent' = Callers /\ sent'[c] = FALSE
    BY <1>1, <1>3, <1>4 DEF PoolType
<1>7. /\ \A d \in Callers : own[d] # Null => mbx'[own[d]] = mbx[own[d]]
      /\ \A i \in Places : place[i].buf # Null => mbx'[place[i].buf] = mbx[place[i].buf]
  <2>1. \A d \in Callers : own[d] # Null => own[d] \in Bufs /\ own[d] # f
      BY <1>1 DEF PoolType, OwnerInv, OneOf
  <2>2. \A i \in Places : place[i].buf # Null => place[i].buf \in Bufs /\ place[i].buf # f
      BY <1>1 DEF QueueType, Entry, OwnerInv, OneOf
  <2>3. \A b \in Bufs : b # f => mbx'[b] = mbx[b]
      BY <1>1, <1>3 DEF PoolType
  <2> QED
      BY <2>1, <2>2, <2>3
<1>8. PlaceInv'
    BY <1>0, <1>5, PlacesAsTheyWere DEF SentInv, Waits
<1>9. SentType'
    BY <1>1, <1>3, <1>4, <1>6 DEF SentInv, SentType
<1>10. ASSUME NEW d \in Callers, d \in scene.callers PROVE EntryInv(d)' /\ LineInv(d)'
  <2>1. EntriesKept(Target[d]) /\ SameBox(Target[d])
      BY <1>0, <1>3, <1>7, PlacesStay DEF SameBox
  <2>2. asked[d] \in Nat /\ asked'[d] \in Nat /\ asked[d] <= asked'[d] /\ EntryInv(d) /\ LineInv(d)
      BY <1>1, <1>4, <1>10 DEF SentInv, Served
  <2>3. pc'[d] = "add" => pc[d] = "add" \/ asked[d] < asked'[d]
      BY <1>4, <1>5
  <2>4. EntryInv(d)'
      BY <2>1, <2>2, <2>3, EntriesStay
  <2>5. ASSUME NEW i \in Places, OfSlave(i, Target[d])'
        PROVE  \E j \in Places : OfSlave(j, Target[d]) /\ Id(i)' = Id(j)
      BY <2>1, <2>5 DEF EntriesKept, Id
  <2> QED
      BY <2>1, <2>2, <2>4, <2>5, LineStays
<1>11. RequestInv(c)' /\ ToldInv(c)'
  <2>1. mbxcnt'[s] = CntOf(asked[c])'
      BY <1>4 DEF CntOf
  <2>2. mbx'[own'[c]] = Req(c, asked[c])' /\ asked'[c] # 0
      BY <1>4, <1>6 DEF Req, CntOf
  <2> QED
      BY <1>5, <1>6, <2>1, <2>2 DEF RequestInv, ToldInv, Done
<1>12. ASSUME NEW d \in Callers, d \in scene.callers, d # c PROVE RequestInv(d)' /\ ToldInv(d)'
  <2>1. Target[d] \in Slaves /\ Target[d] # s
      BY <1>1, <1>12, MailboxAssumption DEF OneCaller
  <2>2. RequestInv(d) /\ ToldInv(d) /\ asked'[d] = asked[d] /\ SameBox(Target[d])
      BY <1>3, <1>4, <1>12 DEF SentInv, Served, SameBox
  <2>3. mbxcnt'[Target[d]] = CntOf(asked[d])'
      BY <1>4, <2>1, <2>2 DEF RequestInv, CntOf
  <2>4. pc'[d] \in HoldsReq => asked'[d] # 0 /\ own'[d] # Null /\ mbx'[own'[d]] = Req(d, asked[d])'
      BY <1>5, <1>6, <1>7, <1>12, <2>2 DEF RequestInv, Req, CntOf
  <2>5. Done(d)' => Done(d)
      BY <1>0, <1>5, <1>12 DEF Done, Waits
  <2>6. There(d)' <=> There(d)
      BY <2>2, ThereStays
  <2> QED
      BY <1>6, <1>12, <2>2, <2>3, <2>4, <2>5, <2>6 DEF RequestInv, ToldInv
<1>13. \A d \in Callers : d \notin scene.callers => pc'[d] = "rest" /\ ~sent'[d]
    BY <1>1, <1>5, <1>6 DEF SentInv
<1> QED
    BY <1>8, <1>9, <1>10, <1>11, <1>12, <1>13 DEF SentInv, Served

LEMMA SentTalk ==
  ASSUME MailboxInv, SentInv, OneCaller, scene' = scene, NEW c \in Callers, Talk(c) \/ Expire(c),
         UNCHANGED <<queueVars, inVars, handlerVars>>
  PROVE  SentInv'
<1>0. /\ UNCHANGED <<queueState, ticket>> /\ UNCHANGED <<tail, place, mbxticket, loc, found, hpc>>
      /\ DOMAIN sent = Callers
    BY DEF queueVars, handlerVars, queueState, SentInv, SentType
<1>1. UNCHANGED slave /\ BoxesStay
    BY BoxesAsTheyWere DEF Talk, Begin, Release, Ask, Expire, slaveVars
<1>2. ASSUME Begin(c, Receive(c)) PROVE SentInv'
  <2>1. /\ pc[c] = "rest" /\ c \in scene.callers /\ Goto(c, Receive(c))
        /\ UNCHANGED <<mbx, own, asked, mbxcnt, sent>>
      BY <1>2 DEF Begin, poolVars
  <2>2. /\ Receive(c) \in Active /\ Receive(c) # "add" /\ Receive(c) \notin HoldsReq /\ ~Waits(c)
      BY <2>1 DEF Receive, Active, HoldsReq, Waits, Waiting
  <2> QED
      BY <1>0, <1>1, <2>1, <2>2, OneGoesOnAlone
<1>3. ASSUME Release(c) PROVE SentInv'
  <2>1. PICK at \in {"ask", "rest"} : Goto(c, at)
      BY <1>3 DEF Release
  <2>2. /\ pc[c] = "drop" /\ Drop(own[c]) /\ own' = [own EXCEPT ![c] = Null]
        /\ UNCHANGED <<asked, mbxcnt, sent>> /\ c \in scene.callers
      BY <1>3 DEF Release, SentInv
  <2>3. at \in Active \ HoldsReq /\ ~Waits(c)
      BY <2>2 DEF Active, HoldsReq, Waits, Waiting
  <2>4. PoolType /\ OwnerInv /\ QueueType
      BY DEF MailboxInv, MailboxType
  <2>5. LinesGoOn /\ DOMAIN slave' = Slaves /\ \A s \in Slaves : DOMAIN slave'[s] = Fields
      BY <1>0, <1>1, <2>2, <2>4, DropLeavesRequests, StillLines
  <2> QED
      BY <1>0, <2>1, <2>2, <2>3, <2>5, OneGivesBack
<1>4. ASSUME Ask(c, Send(c)), mbxpool # {} PROVE SentInv'
    BY <1>0, <1>4, SentAsk
<1>5. ASSUME Ask(c, Send(c)), mbxpool = {} PROVE SentInv'
  <2>1. /\ pc[c] = "ask" /\ c \in scene.callers /\ Goto(c, "rest")
        /\ UNCHANGED <<mbx, own, asked, mbxcnt>> /\ sent' = [sent EXCEPT ![c] = FALSE]
      BY <1>5 DEF Ask, poolVars, SentInv
  <2>2. /\ "rest" \in Active /\ "rest" \notin HoldsReq /\ "rest" # "add" /\ ~Waits(c)
        /\ DOMAIN sent' = Callers /\ ~sent'[c] /\ \A d \in Callers : d # c => sent'[d] = sent[d]
      BY <1>0, <2>1 DEF Active, HoldsReq, Waits, Waiting
  <2> QED
      BY <1>0, <1>1, <2>1, <2>2, OneGoesOnAlone
<1>6. ASSUME Expire(c) PROVE SentInv'
  <2>1. UNCHANGED <<asked, mbxcnt, pc, own, sent, mbx>>
      BY <1>6 DEF Expire, poolVars
  <2>2. PlaceInv'
      BY <1>0, <2>1, PlacesAsTheyWere DEF SentInv, Waits
  <2> QED
      BY <1>0, <1>1, <2>1, <2>2, QuietStep
<1> QED
    BY <1>2, <1>3, <1>4, <1>5, <1>6 DEF Talk

(* A request is written into its slave's mailbox, none before it. *)
LEMMA WrittenLines ==
  ASSUME SentInv, OneCaller, UNCHANGED <<scene, asked>>, NEW c \in Callers, c \in scene.callers,
         NEW s \in Slaves, s = Target[c], NEW n \in 1 .. asked[c], slave[s].in = Null,
         slave' = [slave EXCEPT ![s].in = Req(c, n)], \A d \in Callers : EntriesKept(Target[d]),
         n = asked[c] \/ \E j \in Places : OfSlave(j, s) /\ Id(j) = n,
         \A i \in Places : OfSlave(i, s) => n <= Id(i)
  PROVE  /\ LinesGoOn /\ DOMAIN slave' = Slaves /\ \A t \in Slaves : DOMAIN slave'[t] = Fields
         /\ n = asked[c] => There(c)'
<1> DEFINE m == Req(c, n)
<1>1. /\ DOMAIN slave = Slaves /\ \A t \in Slaves : DOMAIN slave[t] = Fields
      /\ \A d \in Callers : asked[d] \in Nat /\ Target[d] \in Slaves
      /\ scene \in Scenes
    BY MailboxAssumption DEF SentInv, SentType
<1>2. /\ slave'[s].in = m /\ slave'[s].cnt = slave[s].cnt /\ slave'[s].took = slave[s].took
      /\ DOMAIN slave' = Slaves /\ DOMAIN slave'[s] = Fields
      /\ \A t \in Slaves : t # s => slave'[t] = slave[t]
    BY <1>1 DEF Fields
<1>3. \A t \in Slaves : DOMAIN slave'[t] = Fields
    BY <1>1, <1>2
<1>4. ASSUME NEW d \in Callers, NEW i \in Places, OfSlave(i, Target[d])'
      PROVE  OfSlave(i, Target[d]) /\ Id(i)' = Id(i)
    BY <1>4 DEF EntriesKept, Id
<1>5. LineInv(c)' /\ (There(c) => There(c)') /\ (n = asked[c] => There(c)')
  <2>1. \A i \in Places : OfSlave(i, s)' => n <= Id(i)' /\ \E j \in Places : OfSlave(j, s) /\ Id(i)' = Id(j)
      BY <1>4
  <2>2. LineInv(c) /\ asked[c] \in Nat /\ asked'[c] = asked[c]
      BY <1>1 DEF SentInv, Served
  <2> HIDE DEF m
  <2> QED
      BY <1>1, <1>2, <2>1, <2>2, LineWritten DEF m
<1>6. ASSUME NEW d \in Callers, d \in scene.callers, d # c PROVE LineInv(d)' /\ (There(d) => There(d)')
  <2>1. Target[d] \in Slaves /\ Target[d] # s
      BY <1>1, <1>6 DEF OneCaller
  <2>2. SameBox(Target[d]) /\ LineInv(d) /\ asked'[d] = asked[d]
      BY <1>2, <1>6, <2>1 DEF SameBox, SentInv, Served
  <2>3. \A i \in Places : OfSlave(i, Target[d])' => \E j \in Places : OfSlave(j, Target[d]) /\ Id(i)' = Id(j)
      BY <1>4
  <2> QED
      BY <1>1, <2>2, <2>3, LineStays, ThereStays
<1> QED
    BY <1>2, <1>3, <1>5, <1>6 DEF LinesGoOn

(* A read, and the repeat bit, leave the requests alone. *)
LEMMA ReadKeepsBoxes ==
  ASSUME SentInv, NEW t \in Slaves, NEW bit,
         \E wkc \in {0, 1} : ReadMailbox(t, wkc) \/ WriteRepeat(t, bit, wkc)
  PROVE  BoxesStay
<1>1. DOMAIN slave = Slaves /\ \A s \in Slaves : DOMAIN slave[s] = Fields
    BY DEF SentInv, SentType
<1>2. CASE slave' = slave
    BY <1>2, BoxesAsTheyWere
<1>3. CASE \E v : slave' = [slave EXCEPT ![t].out = Null, ![t].hasty = v]
    BY <1>1, <1>3 DEF BoxesStay, SameBox, Fields
<1>4. CASE slave' = [slave EXCEPT ![t].out = Null, ![t].missed = TRUE]
    BY <1>1, <1>4 DEF BoxesStay, SameBox, Fields
<1>5. CASE slave' = [slave EXCEPT ![t].repeat = bit]
    BY <1>1, <1>5 DEF BoxesStay, SameBox, Fields
<1> QED
    BY <1>2, <1>3, <1>4, <1>5 DEF ReadMailbox, WriteRepeat

(***************************************************************************)
(* The steps of a caller that serves itself.                               *)
(***************************************************************************)
LEMMA SentGiveUp ==
  ASSUME MailboxInv, SentInv, NEW c \in Callers, c \in scene.callers, ~Waits(c),
         NEW wkc \in {0, 1}, GiveUp(c, wkc), wkc = 1 => There(c)',
         DOMAIN slave' = Slaves, \A s \in Slaves : DOMAIN slave'[s] = Fields, LinesGoOn,
         UNCHANGED <<scene, ticket, queueState>>
  PROVE  SentInv'
<1>1. /\ Drop(own[c]) /\ own' = [own EXCEPT ![c] = Null] /\ UNCHANGED <<asked, mbxcnt>>
      /\ sent' = [sent EXCEPT ![c] = wkc > 0]
    BY DEF GiveUp, Sent
<1>2. PICK at \in {"status", "rest"} : Goto(c, at)
    BY DEF GiveUp, Sent
<1>3. at \in Active \ HoldsReq
    BY DEF Active, HoldsReq
<1>4. /\ DOMAIN sent' = Callers /\ \A d \in Callers : d # c => sent'[d] = sent[d]
      /\ sent'[c] => wkc = 1
  <2> DEFINE told == wkc > 0
  <2>1. sent' = [sent EXCEPT ![c] = told] /\ DOMAIN sent = Callers
      BY <1>1 DEF SentInv, SentType
  <2>2. told => wkc = 1
      OBVIOUS
  <2> HIDE DEF told
  <2>3. sent'[c] = told
      BY <2>1
  <2> QED
      BY <2>1, <2>2, <2>3
<1> QED
    BY <1>1, <1>2, <1>3, <1>4, OneGivesBack

LEMMA SentWrite ==
  ASSUME MailboxInv, SentInv, OneCaller, scene' = scene, NEW c \in Callers, ~Cyclic(Target[c]),
         Write(c), UNCHANGED <<queueState, ticket>>
  PROVE  SentInv'
<1> DEFINE s == Target[c]
<1> PICK wkc \in {0, 1} :
      /\ WriteMailbox(s, mbx[own[c]], wkc)
      /\ IF wkc = 0 /\ pc[c] = "write"
         THEN Goto(c, "empty") /\ UNCHANGED <<poolVars, own, what, expired, asked, mbxcnt, sent>>
         ELSE GiveUp(c, wkc)
    BY DEF Write
<1>0. /\ pc[c] \in {"write", "retry"} /\ c \in scene.callers /\ s \in Slaves /\ ~Waits(c)
      /\ DOMAIN sent = Callers /\ asked[c] \in Nat /\ UNCHANGED <<place, tail>> /\ scene \in Scenes
    BY MailboxAssumption DEF Write, SentInv, SentType, Waits, Waiting, queueState
<1>1. PoolType /\ OwnerInv /\ QueueType
    BY DEF MailboxInv, MailboxType
<1>2. asked[c] # 0 /\ mbx[own[c]] = Req(c, asked[c]) /\ EntryInv(c)
    BY <1>0 DEF SentInv, Served, RequestInv, HoldsReq
<1>3. UNCHANGED asked /\ \A i \in Places : place[i].buf # Null => mbx'[place[i].buf] = mbx[place[i].buf]
  <2>1. CASE GiveUp(c, wkc)
      BY <1>1, <2>1, DropLeavesRequests DEF GiveUp, Sent
  <2>2. CASE UNCHANGED <<mbx, asked>>
      BY <2>2
  <2> QED
      BY <2>1, <2>2 DEF poolVars
<1>4. \A d \in Callers : EntriesKept(Target[d])
    BY <1>0, <1>3, PlacesStay
<1>5. /\ LinesGoOn /\ DOMAIN slave' = Slaves /\ \A t \in Slaves : DOMAIN slave'[t] = Fields
      /\ wkc = 1 => There(c)'
  <2>1. CASE slave' = slave /\ wkc = 0
      BY <1>0, <1>3, <2>1, StillLines
  <2>2. CASE slave[s].in = Null /\ slave' = [slave EXCEPT ![s].in = mbx[own[c]]]
    <3> PICK n \in 1 .. asked[c] : n = asked[c]
        BY <1>0, <1>2
    <3>1. slave' = [slave EXCEPT ![s].in = Req(c, n)]
        BY <1>2, <2>2
    <3>2. \A i \in Places : OfSlave(i, s) => n <= Id(i)
        BY <1>2 DEF EntryInv
    <3>3. LinesGoOn /\ DOMAIN slave' = Slaves /\ (\A t \in Slaves : DOMAIN slave'[t] = Fields) /\ There(c)'
        BY <1>0, <1>3, <1>4, <2>2, <3>1, <3>2, WrittenLines
    <3> QED
        BY <3>3
  <2> QED
      BY <2>1, <2>2 DEF WriteMailbox
<1>6. CASE GiveUp(c, wkc)
    BY <1>0, <1>5, <1>6, SentGiveUp
<1>7. CASE Goto(c, "empty") /\ UNCHANGED <<poolVars, own, what, expired, asked, mbxcnt, sent>>
  <2>1. "empty" \in Active /\ "empty" # "add" /\ pc[c] \in HoldsReq /\ UNCHANGED <<mbx, own, asked, mbxcnt, sent>>
      BY <1>0, <1>7 DEF Active, HoldsReq, poolVars
  <2> QED
      BY <1>0, <1>5, <1>7, <2>1, OneGoesOn
<1> QED
    BY <1>6, <1>7

LEMMA SentDirect ==
  ASSUME MailboxInv, SentInv, OneCaller, scene' = scene, NEW c \in Callers, ~Cyclic(Target[c]),
         Running', DirectStep(c) \/ Turn(c), UNCHANGED <<queueVars, inVars, handlerVars>>
  PROVE  SentInv'
<1>0. /\ UNCHANGED <<queueState, ticket>> /\ UNCHANGED <<tail, place, mbxticket, loc, found, hpc>>
      /\ DOMAIN sent = Callers /\ Target[c] \in Slaves /\ c \in Callers
      /\ PoolType /\ OwnerInv /\ QueueType
    BY MailboxAssumption DEF queueVars, handlerVars, queueState, SentInv, SentType, MailboxInv, MailboxType
<1>1. ASSUME UNCHANGED slave, NEW at \in Active \ HoldsReq, ~Waits(c), c \in scene.callers,
             Goto(c, at), UNCHANGED <<mbx, asked, mbxcnt, sent>>,
             \A d \in Callers : d # c => own'[d] = own[d]
      PROVE  SentInv'
  <2>1. at # "add" /\ at \in Active /\ at \notin HoldsReq /\ BoxesStay
      BY <1>1, BoxesAsTheyWere DEF HoldsReq
  <2> QED
      BY <1>0, <1>1, <2>1, OneGoesOnAlone
<1>2. ASSUME UNCHANGED slave, GiveUp(c, 0), ~Waits(c), c \in scene.callers PROVE SentInv'
  <2>1. LinesGoOn /\ DOMAIN slave' = Slaves /\ \A s \in Slaves : DOMAIN slave'[s] = Fields
      BY <1>0, <1>2, DropLeavesRequests, StillLines DEF GiveUp, Sent
  <2> QED
      BY <1>0, <1>2, <2>1, SentGiveUp
<1>3. pc[c] # "rest" => c \in scene.callers
    BY DEF SentInv
<1> USE DEF Active, HoldsReq, Waits, Waiting
<1>4. CASE Refuse(c)
    BY <1>2, <1>3, <1>4 DEF Refuse, slaveVars
<1>5. CASE Write(c)
    BY <1>0, <1>5, SentWrite
<1>6. CASE Empty(c)
  <2>1. pc[c] = "empty" /\ UNCHANGED slave
      BY <1>6 DEF Empty
  <2>2. CASE Goto(c, "retry") /\ UNCHANGED <<poolVars, own, what, expired, asked, mbxcnt, sent>>
    <3>1. "retry" \in Active /\ "retry" # "add" /\ BoxesStay /\ UNCHANGED <<mbx, own, asked, mbxcnt, sent>>
        BY <2>1, <2>2, BoxesAsTheyWere DEF poolVars
    <3> QED
        BY <1>0, <1>3, <2>1, <2>2, <3>1, OneGoesOnAlone
  <2>3. CASE GiveUp(c, 0)
      BY <1>2, <1>3, <2>1, <2>3
  <2> QED
      BY <1>6, <2>2, <2>3 DEF Empty
<1>7. CASE Status(c)
  <2>1. /\ pc[c] = "status" /\ UNCHANGED <<slave, mbx, asked, mbxcnt, sent>>
        /\ Goto(c, "read") \/ Goto(c, "drop")
        /\ \A d \in Callers : d # c => own'[d] = own[d]
      BY <1>0, <1>7 DEF Status, Timeless, Received, PoolType
  <2> QED
      BY <1>1, <1>3, <2>1
<1>8. CASE ReadAnswer(c)
  <2>1. /\ pc[c] = "read" /\ UNCHANGED <<asked, mbxcnt, sent>>
        /\ \E wkc \in {0, 1} : ReadMailbox(Target[c], wkc)
      BY <1>8 DEF ReadAnswer, Timeless
  <2>0. ~Goto(c, "crashed")
      BY DEF Goto, Running, MailboxInv, MailboxType, CallType
  <2>2. BoxesStay
      BY <1>0, <2>1, ReadKeepsBoxes
  <2>3. \/ Goto(c, "statex") /\ UNCHANGED <<mbxpool, mbx, own>>
        \/ Drop(own[c]) /\ own' = [own EXCEPT ![c] = Null] /\ Goto(c, Again(c, "read"))
        \/ Received(c, own[c]) /\ UNCHANGED <<mbxpool, mbx>>
      BY <1>8, <2>0 DEF ReadAnswer, poolVars
  <2>4. PICK at \in {"statex", "read", "drop"} : Goto(c, at)
      BY <2>3 DEF Again, Received
  <2>5. at \in Active /\ at # "add" /\ at \notin HoldsReq
      OBVIOUS
  <2>6. /\ \A d \in Callers : d # c => own'[d] = own[d]
        /\ \A d \in Callers : d # c /\ own[d] # Null => mbx'[own[d]] = mbx[own[d]]
        /\ \A i \in Places : place[i].buf # Null => mbx'[place[i].buf] = mbx[place[i].buf]
      BY <1>0, <2>3, DropLeavesRequests DEF Received, PoolType
  <2> QED
      BY <1>0, <1>3, <2>1, <2>2, <2>4, <2>5, <2>6, OneGoesOnAlone
<1>9. CASE Toggle(c)
  <2>1. /\ pc[c] = "toggle" /\ UNCHANGED <<mbx, own, asked, mbxcnt, sent>> /\ Goto(c, "ack")
        /\ \E wkc \in {0, 1} : WriteRepeat(Target[c], statex[c], wkc)
      BY <1>9 DEF Toggle, Timeless, poolVars
  <2>2. BoxesStay
      BY <1>0, <2>1, ReadKeepsBoxes
  <2> QED
      BY <1>0, <1>3, <2>1, <2>2, OneGoesOnAlone
<1>10. CASE Statex(c) \/ Ack(c) \/ Full(c)
  <2>1. /\ pc[c] \in {"statex", "ack", "full"} /\ UNCHANGED <<slave, mbx, own, asked, mbxcnt, sent>>
        /\ \E at \in {"toggle", "full", "read", "drop"} : Goto(c, at)
      BY <1>10 DEF Statex, Ack, Full, Again, Timeless, poolVars
  <2> QED
      BY <1>1, <1>3, <2>1
<1>11. CASE Turn(c)
  <2>1. UNCHANGED <<slave, asked, mbxcnt, pc, own, sent, mbx>>
      BY <1>11 DEF Turn, poolVars, callVars
  <2>2. PlaceInv' /\ BoxesStay
      BY <1>0, <2>1, PlacesAsTheyWere, BoxesAsTheyWere DEF SentInv
  <2> QED
      BY <1>0, <2>1, <2>2, QuietStep
<1> QED
    BY <1>4, <1>5, <1>6, <1>7, <1>8, <1>9, <1>10, <1>11 DEF DirectStep

(***************************************************************************)
(* The steps of a caller the handler serves.                               *)
(***************************************************************************)

(* The entries in use, and the head after them. *)
LEMMA PosInUse ==
  ASSUME QueueType, RingInv, QueueNotFull
  PROVE  /\ \A i \in Places : InUse(i) <=> Pos(i) < count
         /\ Pos(head) = count
         /\ \A i \in Places, s \in Slaves : OfSlave(i, s) => InUse(i)
<1>0. EC_MBXPOOLSIZE \in Nat /\ EC_MBXPOOLSIZE # 0 /\ Places = 0 .. EC_MBXPOOLSIZE - 1
    BY MailboxAssumption DEF Places
<1>1. head \in Places /\ tail \in Places /\ count \in Nat /\ count < EC_MBXPOOLSIZE
    BY DEF QueueType, QueueNotFull
<1>2. \A i \in Places : InUse(i) <=> Pos(i) < count
    BY <1>0, <1>1 DEF InUse, Pos
<1>3. Pos(head) = count
    BY <1>0, <1>1 DEF RingInv, Pos
<1>4. \A i \in Places, s \in Slaves : OfSlave(i, s) => InUse(i)
    BY DEF RingInv, OfSlave, Nowhere
<1> QED
    BY <1>2, <1>3, <1>4

LEMMA SentAdd ==
  ASSUME MailboxInv, SentInv, OneCaller, QueueNotFull, scene' = scene,
         NEW c \in Callers, Cyclic(Target[c]), AddQueue(c)
  PROVE  SentInv'
<1> DEFINE s == Target[c]
<1>0. /\ PoolType /\ QueueType /\ OwnerInv /\ QueueInv /\ HandlerType /\ CallType
      /\ RingInv /\ TicketInv /\ head \in Places /\ loc \in Places
      /\ place \in [Places -> Entry] /\ mbxticket \in [Places -> Tickets]
      /\ own \in [Callers -> Bufs \cup {Null}] /\ ticket \in [Callers -> Tickets]
      /\ scene \in Scenes /\ s \in Slaves /\ asked \in [Callers -> Nat]
    BY MailboxAssumption DEF MailboxInv, MailboxType, QueueInv, QueueType, PoolType, CallType,
       HandlerType, SentInv, SentType
<1> PICK h \in Places : h = head
    BY <1>0
<1> PICK t \in Places : t = FreeTicket /\ mbxticket[t] = -1
    BY <1>0, TicketIsFree
<1> DEFINE r == [state |-> "req", slave |-> s, buf |-> own[c], remove |-> FALSE]
<1>1. r \in Entry
    BY <1>0, MailboxAssumption DEF Entry
<1>2. PICK e \in Entry : e = r /\ e.slave = s /\ e.buf = own[c] /\ e.state = "req"
    BY <1>1
<1>3. /\ pc[c] = "add" /\ ticket' = [ticket EXCEPT ![c] = t]
      /\ mbxticket' = [mbxticket EXCEPT ![t] = h] /\ place' = [place EXCEPT ![h] = e]
      /\ own' = [own EXCEPT ![c] = Null] /\ Goto(c, "poll")
      /\ UNCHANGED <<tail, mbx, asked, mbxcnt, sent, slave, hpc, loc, found>>
    BY <1>2 DEF AddQueue, QueueNotFull, poolVars, inVars, handlerVars, slaveVars
<1>4. /\ ~InUse(h) /\ place[h] = Nowhere /\ (hpc \in {"write", "written"} => h # loc)
    BY <1>0, HeadIsFree
<1>5. /\ \A d \in Callers : d # c => own'[d] = own[d] /\ ticket'[d] = ticket[d] /\ pc'[d] = pc[d]
      /\ ticket'[c] = t /\ pc'[c] = "poll" /\ Waits(c)' /\ ~Waits(c)
      /\ place'[h] = e /\ \A i \in Places : i # h => place'[i] = place[i]
      /\ mbxticket'[t] = h /\ \A u \in Places : u # t => mbxticket'[u] = mbxticket[u]
    BY <1>0, <1>3 DEF Goto, CallType, Waits, Waiting
<1>6. /\ c \in scene.callers /\ own[c] # Null /\ asked[c] \in Nat \ {0} /\ mbx[own[c]] = Req(c, asked[c])
      /\ \A i \in Places : OfSlave(i, s) => Id(i) < asked[c]
      /\ mbx[own[c]].id = asked[c]
    BY <1>0, <1>3 DEF SentInv, Served, RequestInv, HoldsReq, EntryInv, Req, Request
<1>7. PlaceInv'
  <2>1. ASSUME NEW u \in Places, Out(u)' PROVE \E d \in Callers : Waits(d)' /\ ticket'[d] = u
    <3>1. CASE u = t
        BY <1>5, <3>1
    <3>2. CASE u # t
      <4>1. PICK d \in Callers : Waits(d) /\ ticket[d] = u
          BY <1>5, <2>1, <3>2 DEF Out, SentInv, PlaceInv
      <4> QED
          BY <1>5, <4>1 DEF Waits
    <3> QED
        BY <3>1, <3>2
  <2>2. ASSUME NEW i \in Places, place'[i].state \in {"req", "fail"}
        PROVE  place'[i].buf # Null /\ place'[i].slave \in Slaves
    <3>1. CASE i = h
        BY <1>0, <1>2, <1>5, <1>6, <3>1
    <3>2. CASE i # h
        BY <1>5, <2>2, <3>2 DEF SentInv, PlaceInv
    <3> QED
        BY <3>1, <3>2
  <2>3. /\ hpc' = "write" => place'[loc'].state \in {"req", "fail"} /\ found'.slave = place'[loc'].slave
        /\ hpc' = "written" => place'[loc'].state = "done"
      BY <1>0, <1>3, <1>4, <1>5 DEF SentInv, PlaceInv
  <2> QED
      BY <2>1, <2>2, <2>3 DEF PlaceInv
<1>8. SentType'
    BY <1>3 DEF SentInv, SentType
<1>9. \A d \in Callers : d \in scene.callers /\ d # c => Target[d] # s
    BY <1>0, <1>6 DEF OneCaller
<1>10. \A i \in Places : i # h => /\ OfSlave(i, s)' <=> OfSlave(i, s)
                                     /\ Id(i)' = Id(i)
    BY <1>3, <1>5 DEF OfSlave, Id
<1>11. /\ Id(h)' = asked[c] /\ OfSlave(h, s)' /\ mbx'[place'[h].buf] = Req(c, asked[c])
    BY <1>0, <1>2, <1>3, <1>5, <1>6 DEF OfSlave, Id
<1>12. EntryInv(c)'
  <2>0. \A n : Req(c, n)' = Req(c, n)
      BY DEF Req, CntOf
  <2>1. ASSUME NEW i \in Places, OfSlave(i, s)'
        PROVE  Cyclic(s)' /\ Id(i)' \in 1 .. asked'[c] /\ mbx'[place'[i].buf] = Req(c, Id(i))'
    <3>1. CASE i = h
        BY <1>3, <1>6, <1>11, <3>1 DEF Req, CntOf, Cyclic, EnableMbxCyclicForCoe
    <3>2. CASE i # h
      <4>1. OfSlave(i, s) /\ Id(i)' = Id(i) /\ mbx'[place'[i].buf] = mbx[place[i].buf]
          BY <1>3, <1>5, <1>10, <2>1, <3>2
      <4>2. Id(i) \in 1 .. asked[c] /\ mbx[place[i].buf] = Req(c, Id(i))
          BY <1>6, <4>1 DEF SentInv, Served, EntryInv
      <4> QED
          BY <1>3, <4>1, <4>2 DEF Req, CntOf, Cyclic, EnableMbxCyclicForCoe
    <3> QED
        BY <3>1, <3>2
  <2>2. ASSUME NEW i \in Places, NEW j \in Places, OfSlave(i, s)', OfSlave(j, s)', Pos(i)' < Pos(j)'
        PROVE  Id(i)' < Id(j)'
    <3>0. Pos(i) < Pos(j) /\ Pos(i) \in Int /\ Pos(j) \in Int /\ count \in Nat
        BY <1>0, <1>3, <2>2, PosIs DEF Pos, QueueType
    <3>1. CASE i = h
      <4>1. j # h /\ OfSlave(j, s)
          BY <1>10, <2>2, <3>0, <3>1
      <4>2. Pos(j) < count /\ Pos(i) = count
          BY <1>0, <3>1, <4>1, PosInUse
      <4> QED
          BY <3>0, <4>2
    <3>2. CASE i # h /\ j = h
        BY <1>6, <1>10, <1>11, <2>2, <3>2
    <3>3. CASE i # h /\ j # h
        BY <1>6, <1>10, <2>2, <3>0, <3>3 DEF SentInv, Served, EntryInv
    <3> QED
        BY <3>1, <3>2, <3>3
  <2> QED
      BY <1>5, <2>1, <2>2 DEF EntryInv
<1>13. ASSUME NEW d \in Callers, d \in scene.callers, d # c PROVE EntriesKept(Target[d])
  <2>1. \A i \in Places : OfSlave(i, Target[d])' => i # h
      BY <1>2, <1>5, <1>9, <1>13 DEF OfSlave
  <2>2. \A i \in Places : OfSlave(i, Target[d])' => OfSlave(i, Target[d]) /\ place'[i] = place[i]
      BY <1>5, <2>1 DEF OfSlave
  <2>3. \A i \in Places : Pos(i)' = Pos(i)
      BY <1>3 DEF Pos
  <2> QED
      BY <1>3, <2>2, <2>3 DEF EntriesKept
<1>14. ASSUME NEW d \in Callers, d \in scene.callers PROVE EntryInv(d)' /\ LineInv(d)' /\ (There(d) => There(d)')
  <2>1. /\ EntryInv(d) /\ LineInv(d) /\ SameBox(Target[d]) /\ asked'[d] = asked[d] /\ asked[d] \in Nat
      BY <1>0, <1>3, <1>14 DEF SentInv, Served, SameBox
  <2>2. EntryInv(d)'
    <3>1. CASE d = c
        BY <1>12, <3>1
    <3>2. CASE d # c
      <4>1. EntriesKept(Target[d]) /\ (pc'[d] = "add" => pc[d] = "add")
          BY <1>5, <1>13, <1>14, <3>2
      <4>2. asked'[d] \in Nat /\ asked[d] <= asked'[d]
          BY <2>1
      <4> QED
          BY <2>1, <4>1, <4>2, EntriesStay
    <3> QED
        BY <3>1, <3>2
  <2>3. ASSUME NEW i \in Places, OfSlave(i, Target[d])'
        PROVE  \/ \E j \in Places : OfSlave(j, Target[d]) /\ Id(i)' = Id(j)
               \/ Id(i)' = asked'[d]
    <3>1. CASE d = c
        BY <1>3, <1>10, <1>11, <2>3, <3>1
    <3>2. CASE d # c
        BY <1>13, <1>14, <2>3, <3>2 DEF EntriesKept, Id
    <3> QED
        BY <3>1, <3>2
  <2>4. asked'[d] \in Nat /\ asked[d] <= asked'[d]
      BY <2>1
  <2> QED
      BY <2>1, <2>2, <2>3, <2>4, LineStays, ThereStays
<1>15. LinesGoOn
    BY <1>14 DEF LinesGoOn
<1>16. ASSUME NEW d \in Callers, Done(d)' PROVE Done(d)
  <2>1. CASE d = c
      BY <1>2, <1>5, <1>16, <2>1 DEF Done
  <2>2. CASE d # c
    <3>1. Waits(d)
        BY <1>5, <1>16, <2>2 DEF Done, Waits
    <3>2. ticket[d] \in Places /\ ticket[d] # t /\ mbxticket[ticket[d]] \in Places /\ mbxticket[ticket[d]] # h
        BY <1>4, <3>1, WaitingHolds DEF Out
    <3> QED
        BY <1>5, <1>16, <2>2, <3>1, <3>2 DEF Done
  <2> QED
      BY <2>1, <2>2
<1>17. ASSUME NEW d \in Callers, d \in scene.callers, pc'[d] \in HoldsReq
       PROVE  pc[d] \in HoldsReq /\ own'[d] = own[d] /\ mbx'[own[d]] = mbx[own[d]]
  <2>1. d # c
      BY <1>5, <1>17 DEF HoldsReq
  <2> QED
      BY <1>3, <1>5, <1>17, <2>1
<1>18. \A d \in Callers : d \notin scene.callers => pc'[d] = "rest" /\ ~sent'[d]
    BY <1>3, <1>5, <1>6 DEF SentInv
<1> QED
    BY <1>3, <1>7, <1>8, <1>14, <1>15, <1>16, <1>17, <1>18, ServedGoOn

LEMMA SentNoPlace ==
  ASSUME MailboxInv, SentInv, ~QueueNotFull, scene' = scene, NEW c \in Callers, AddQueue(c)
  PROVE  SentInv'
<1>1. /\ pc[c] = "add" /\ Drop(own[c]) /\ own' = [own EXCEPT ![c] = Null] /\ Goto(c, "rest")
      /\ UNCHANGED <<slave, asked, mbxcnt, ticket, queueState>>
      /\ sent' = [sent EXCEPT ![c] = FALSE]
  <2>1. /\ pc[c] = "add" /\ Drop(own[c]) /\ own' = [own EXCEPT ![c] = Null] /\ Sent(c, 0, "slot")
        /\ UNCHANGED queueVars /\ UNCHANGED inVars /\ UNCHANGED handlerVars /\ UNCHANGED slaveVars
      BY DEF AddQueue, QueueNotFull
  <2>2. (0 > 0) = FALSE
      OBVIOUS
  <2>5. sent' = [sent EXCEPT ![c] = 0 > 0]
      BY <2>1 DEF Sent
  <2>3. Goto(c, "rest") /\ UNCHANGED <<asked, mbxcnt>>
      BY <2>1, <2>2 DEF Sent
  <2>4. sent' = [sent EXCEPT ![c] = FALSE]
      BY <2>2, <2>5, Zenon
  <2> QED
      BY <2>1, <2>3, <2>4 DEF queueVars, inVars, handlerVars, queueState, slaveVars
<1>2. c \in scene.callers /\ ~Waits(c) /\ "rest" \in Active \ HoldsReq
    BY <1>1 DEF SentInv, Waits, Waiting, Active, HoldsReq
<1>3. DOMAIN sent' = Callers /\ ~sent'[c] /\ \A d \in Callers : d # c => sent'[d] = sent[d]
    BY <1>1 DEF SentInv, SentType
<1>4. LinesGoOn /\ DOMAIN slave' = Slaves /\ \A s \in Slaves : DOMAIN slave'[s] = Fields
  <2>1. PoolType /\ OwnerInv /\ QueueType
      BY DEF MailboxInv, MailboxType
  <2>2. UNCHANGED <<place, tail>>
      BY <1>1 DEF queueState
  <2> QED
      BY <1>1, <2>1, <2>2, DropLeavesRequests, StillLines
<1> QED
    BY <1>1, <1>2, <1>3, <1>4, OneGivesBack

LEMMA SentGiveBack ==
  ASSUME MailboxInv, SentInv, scene' = scene, NEW c \in Callers, c \in scene.callers, Waits(c),
         GiveBack(c), NEW wkc \in {0, 1}, Sent(c, wkc, "slot"), wkc = 1 => Done(c),
         UNCHANGED <<slave, mbx, own, tail, hpc, loc, found>>
  PROVE  SentInv'
<1>0. /\ place \in [Places -> Entry] /\ mbxticket \in [Places -> Tickets]
      /\ ticket \in [Callers -> Tickets] /\ loc \in Places /\ DOMAIN pc = Callers
      /\ DOMAIN sent = Callers
    BY DEF MailboxInv, MailboxType, QueueType, CallType, HandlerType, SentInv, SentType
<1>1. ticket[c] \in Places /\ Out(ticket[c]) /\ mbxticket[ticket[c]] \in Places
    BY WaitingHolds
<1> PICK t \in Places, i \in Places : t = ticket[c] /\ i = mbxticket[t]
    BY <1>1
<1>2. /\ place' = [place EXCEPT ![i].remove = TRUE] /\ mbxticket' = [mbxticket EXCEPT ![t] = -1]
      /\ ticket' = [ticket EXCEPT ![c] = -1]
    BY DEF GiveBack
<1>3. \A j \in Places : /\ place'[j].buf = place[j].buf /\ place'[j].slave = place[j].slave
                        /\ place'[j].state = place[j].state
  <2>1. place'[i] = [place[i] EXCEPT !.remove = TRUE] /\ place[i] \in Entry
      BY <1>0, <1>2
  <2>2. /\ place'[i].buf = place[i].buf /\ place'[i].slave = place[i].slave
        /\ place'[i].state = place[i].state
      BY <2>1 DEF Entry
  <2>3. \A j \in Places : j # i => place'[j] = place[j]
      BY <1>0, <1>2
  <2> QED
      BY <2>2, <2>3
<1>4. /\ ticket'[c] = -1 /\ \A d \in Callers : d # c => ticket'[d] = ticket[d]
      /\ mbxticket'[t] = -1 /\ \A u \in Places : u # t => mbxticket'[u] = mbxticket[u]
    BY <1>0, <1>2
<1>5. /\ pc'[c] \in {"slot", "rest"} /\ \A d \in Callers : d # c => pc'[d] = pc[d]
      /\ UNCHANGED <<asked, mbxcnt>> /\ DOMAIN sent' = Callers
      /\ \A d \in Callers : d # c => sent'[d] = sent[d]
    BY <1>0 DEF Sent, Goto
<1>6. sent'[c] => wkc = 1
  <2> DEFINE told == wkc > 0
  <2>1. sent' = [sent EXCEPT ![c] = told]
      BY DEF Sent
  <2>2. told => wkc = 1
      OBVIOUS
  <2> HIDE DEF told
  <2>3. sent'[c] = told
      BY <1>0, <2>1
  <2> QED
      BY <2>2, <2>3
<1>7. PlaceInv'
  <2>1. ASSUME NEW u \in Places, Out(u)' PROVE \E d \in Callers : Waits(d)' /\ ticket'[d] = u
    <3>1. u # t /\ Out(u)
        BY <1>4, <2>1 DEF Out
    <3>2. PICK d \in Callers : Waits(d) /\ ticket[d] = u
        BY <3>1 DEF SentInv, PlaceInv
    <3>3. d # c
        BY <3>1, <3>2
    <3> QED
        BY <1>4, <1>5, <3>2, <3>3 DEF Waits
  <2>2. \A j \in Places : place'[j].state \in {"req", "fail"} =>
          place'[j].buf # Null /\ place'[j].slave \in Slaves
      BY <1>3 DEF SentInv, PlaceInv
  <2>3. /\ hpc' = "write" => place'[loc'].state \in {"req", "fail"} /\ found'.slave = place'[loc'].slave
        /\ hpc' = "written" => place'[loc'].state = "done"
      BY <1>0, <1>3 DEF SentInv, PlaceInv
  <2> QED
      BY <2>1, <2>2, <2>3 DEF PlaceInv
<1>8. SentType'
    BY <1>5 DEF SentInv, SentType
<1>9. /\ \A d \in Callers : d \in scene.callers => EntryInv(d)'
      /\ \A d \in Callers : EntriesKept(Target[d])
    BY <1>3, <1>5, AllEntriesStay
<1>10. LinesGoOn
    BY <1>5, <1>9, BoxesAsTheyWere, BoxesKeepLines
<1>11. ASSUME NEW d \in Callers, Done(d)' PROVE Done(d)
  <2>1. d # c /\ Waits(d)
      BY <1>5, <1>11 DEF Done, Waits, Waiting
  <2>2. ticket[d] \in Places /\ ticket[d] # t /\ mbxticket[ticket[d]] \in Places
      BY <2>1, WaitingHolds
  <2> QED
      BY <1>3, <1>4, <1>11, <2>1, <2>2 DEF Done
<1>12. ASSUME NEW d \in Callers, d \in scene.callers
       PROVE  /\ pc'[d] \in HoldsReq =>
                   pc[d] \in HoldsReq /\ own'[d] = own[d] /\ mbx'[own[d]] = mbx[own[d]]
              /\ sent'[d] \/ Done(d)' => sent[d] \/ Done(d) \/ There(d)'
    BY <1>5, <1>6, <1>11 DEF HoldsReq
<1>13. \A d \in Callers : d \notin scene.callers => pc'[d] = "rest" /\ ~sent'[d]
    BY <1>5 DEF SentInv
<1> QED
    BY <1>5, <1>7, <1>8, <1>9, <1>10, <1>12, <1>13, ServedGoOn

LEMMA SentCyclic ==
  ASSUME MailboxInv, SentInv, OneCaller, scene' = scene,
         NEW c \in Callers, Cyclic(Target[c]), CyclicCall(c)
  PROVE  SentInv'
<1>0. pc[c] # "rest" => c \in scene.callers
    BY DEF SentInv
<1>1. CASE AddQueue(c)
    BY <1>1, SentAdd, SentNoPlace
<1>2. CASE DoneQueue(c)
  <2>1. /\ pc[c] = "poll" /\ Waits(c) /\ c \in scene.callers
        /\ UNCHANGED <<slave, mbx, own, tail, hpc, loc, found>>
      BY <1>0, <1>2 DEF DoneQueue, Waits, Waiting, slaveVars, poolVars, handlerVars
  <2>2. CASE IsDone(c) /\ GiveBack(c) /\ Sent(c, 1, "slot")
      BY <2>1, <2>2, SentGiveBack DEF Done, IsDone
  <2>3. CASE Goto(c, "expire") /\ UNCHANGED <<place, mbxticket, ticket, what, expired, asked, mbxcnt, sent>>
    <3>1. pc'[c] = "expire" /\ \A d \in Callers : d # c => pc'[d] = pc[d]
        BY <2>3 DEF Goto, MailboxInv, MailboxType, CallType
    <3>2. \A d \in Callers : Waits(d)' <=> Waits(d)
        BY <2>1, <3>1 DEF Waits, Waiting
    <3>3. PlaceInv'
        BY <2>1, <2>3, <3>2, PlacesAsTheyWere DEF SentInv
    <3>4. /\ \A d \in Callers : d \in scene.callers => EntryInv(d)'
          /\ \A d \in Callers : EntriesKept(Target[d])
        BY <2>1, <2>3, <3>1, AllEntriesStay
    <3>5. LinesGoOn
        BY <2>1, <2>3, <3>4, BoxesAsTheyWere, BoxesKeepLines
    <3>6. SentType'
        BY <2>1, <2>3 DEF SentInv, SentType
    <3>7. \A d \in Callers : Done(d)' => Done(d)
        BY <2>1, <2>3, <3>2 DEF Done
    <3>8. \A d \in Callers : pc'[d] \in HoldsReq => pc[d] \in HoldsReq
        BY <3>1 DEF HoldsReq
    <3>9. \A d \in Callers : d \notin scene.callers => pc'[d] = "rest" /\ ~sent'[d]
        BY <2>1, <2>3, <3>1 DEF SentInv
    <3> QED
        BY <2>1, <2>3, <3>3, <3>4, <3>5, <3>6, <3>7, <3>8, <3>9, ServedGoOn
  <2> QED
      BY <1>2, <2>2, <2>3 DEF DoneQueue
<1>3. CASE ExpireQueue(c)
  <2>1. /\ pc[c] = "expire" /\ Waits(c) /\ c \in scene.callers /\ GiveBack(c) /\ Sent(c, 0, "slot")
        /\ UNCHANGED <<slave, mbx, own, tail, hpc, loc, found>>
      BY <1>0, <1>3 DEF ExpireQueue, Waits, Waiting, slaveVars, poolVars, handlerVars
  <2> QED
      BY <2>1, SentGiveBack
<1>4. CASE SeeSlot(c) \/ CopySlot(c) \/ ClearSlot(c)
  <2>1. /\ pc[c] \in {"slot", "grab", "clear"} /\ DOMAIN sent = Callers
        /\ UNCHANGED <<slave, mbx, asked, mbxcnt, sent, ticket, queueState>>
        /\ own' = own \/ own' = [own EXCEPT ![c] = Null] \/ own' = [own EXCEPT ![c] = inptr[c]]
      BY <1>4 DEF SeeSlot, CopySlot, ClearSlot, SlotStep, Timeless, Received, slaveVars,
         poolVars, queueVars, handlerVars, queueState, SentInv, SentType
  <2>2. PICK at \in {"grab", "clear", "drop"} : Goto(c, at)
      BY <1>4 DEF SeeSlot, CopySlot, ClearSlot, Received
  <2>3. c \in scene.callers /\ ~Waits(c) /\ at \in Active /\ at # "add" /\ at \notin HoldsReq
      BY <1>0, <2>1 DEF Waits, Waiting, Active, HoldsReq
  <2>4. \A d \in Callers : d # c => own'[d] = own[d]
      BY <2>1 DEF MailboxInv, MailboxType, PoolType
  <2>5. BoxesStay
      BY <2>1, BoxesAsTheyWere
  <2> QED
      BY <2>1, <2>2, <2>3, <2>4, <2>5, OneGoesOnAlone
<1> QED
    BY <1>1, <1>2, <1>3, <1>4 DEF CyclicCall

(***************************************************************************)
(* The steps of the handler and of the slaves.                             *)
(***************************************************************************)
LEMMA SentIn ==
  ASSUME SentInv, scene' = scene,
         Exchange \/ OutBegin \/ \E s \in Slaves : PassBy(s) \/ GiveUpRmp(s) \/ Rmp(s) \/ Fetch(s)
  PROVE  SentInv'
<1>1. /\ UNCHANGED <<asked, mbxcnt, pc, own, sent, mbx, tail, place, mbxticket, ticket, loc, found>>
      /\ hpc' \notin {"write", "written"}
  <2>1. CASE Exchange \/ OutBegin
      BY <2>1 DEF Exchange, InBegin, OutBegin, callVars, queueVars, poolVars
  <2>2. ASSUME NEW s \in Slaves, PassBy(s) \/ GiveUpRmp(s) \/ Rmp(s) \/ Fetch(s)
        PROVE  /\ UNCHANGED <<asked, mbxcnt, pc, own, sent, mbx, tail, place, mbxticket, ticket, loc, found>>
               /\ hpc' \notin {"write", "written"}
      BY <2>2 DEF PassBy, GiveUpRmp, Rmp, Fetch, Worked, callVars, queueVars, poolVars
  <2> QED
      BY <2>1, <2>2
<1>2. BoxesStay
  <2>1. CASE UNCHANGED slave
      BY <2>1, BoxesAsTheyWere
  <2>2. ASSUME NEW s \in Slaves, Rmp(s) \/ Fetch(s), slave' # slave PROVE BoxesStay
    <3>1. \E wkc \in {0, 1} : ReadMailbox(s, wkc) \/ WriteRepeat(s, instate[s], wkc)
        BY <2>2 DEF Rmp, Fetch
    <3> QED
        BY <3>1, ReadKeepsBoxes
  <2> QED
      BY <2>1, <2>2 DEF Exchange, OutBegin, PassBy, GiveUpRmp, slaveVars
<1>3. PlaceInv'
    BY <1>1, PlacesAsTheyWere DEF SentInv, Waits
<1> QED
    BY <1>1, <1>2, <1>3, QuietStep

LEMMA SentPick ==
  ASSUME MailboxInv, SentInv, scene' = scene, Pick
  PROVE  SentInv'
<1>1. /\ UNCHANGED <<slave, asked, mbxcnt, pc, own, sent, mbx, tail, place, mbxticket, ticket>>
    BY DEF Pick, callVars, queueVars, poolVars, slaveVars
<1>2. hpc' = "write" => loc' = tail /\ found' = place[tail] /\ place[tail].state \in {"req", "fail"}
    BY DEF Pick, Handling
<1>3. hpc' # "written"
    BY DEF Pick
<1>4. PlaceInv'
  <2>1. \A t \in Places : Out(t)' => \E c \in Callers : Waits(c)' /\ ticket'[c] = t
      BY <1>1 DEF SentInv, PlaceInv, Out, Waits
  <2> QED
      BY <1>1, <1>2, <1>3, <2>1 DEF SentInv, PlaceInv
<1> QED
    BY <1>1, <1>4, BoxesAsTheyWere, QuietStep

(* The entry at the tail is written to its slave. *)
LEMMA WriteOutLines ==
  ASSUME MailboxInv, SentInv, OneCaller, UNCHANGED <<scene, asked>>, hpc = "write",
         \A d \in Callers : EntriesKept(Target[d]), NEW s \in Slaves, s = place[loc].slave,
         slave[s].in = Null, slave' = [slave EXCEPT ![s].in = mbx[place[loc].buf]]
  PROVE  /\ LinesGoOn /\ DOMAIN slave' = Slaves /\ \A t \in Slaves : DOMAIN slave'[t] = Fields
         /\ \A d \in Callers : d \in scene.callers /\ Target[d] = s /\ Id(loc) = asked[d] => There(d)'
<1>1. /\ DOMAIN slave = Slaves /\ \A t \in Slaves : DOMAIN slave[t] = Fields
      /\ \A d \in Callers : Target[d] \in Slaves /\ asked[d] \in Nat
      /\ loc \in Places /\ loc = tail /\ QueueType /\ place[loc].buf # Null
    BY MailboxAssumption DEF SentInv, SentType, PlaceInv, MailboxInv, MailboxType, HandlerType, HandlerInv
<1>2. CASE \E d \in Callers : d \in scene.callers /\ Target[d] = s
  <2> PICK d \in Callers : d \in scene.callers /\ Target[d] = s
      BY <1>2
  <2>1. OfSlave(loc, s) /\ EntryInv(d)
      BY <1>1 DEF OfSlave, SentInv, Served
  <2>2. Id(loc) \in 1 .. asked[d] /\ mbx[place[loc].buf] = Req(d, Id(loc))
      BY <1>1, <2>1 DEF EntryInv
  <2> PICK n \in 1 .. asked[d] : n = Id(loc)
      BY <2>2
  <2>3. ASSUME NEW i \in Places, OfSlave(i, s) PROVE n <= Id(i)
    <3>1. CASE i = loc
        BY <1>1, <3>1
    <3>2. CASE i # loc
      <4>1. Pos(loc) < Pos(i)
          BY <1>1, <3>2, PosIs
      <4> QED
          BY <1>1, <2>1, <2>3, <4>1 DEF EntryInv
    <3> QED
        BY <3>1, <3>2
  <2>4. slave' = [slave EXCEPT ![s].in = Req(d, n)] /\ \E j \in Places : OfSlave(j, s) /\ Id(j) = n
      BY <1>1, <2>1, <2>2
  <2>5. /\ LinesGoOn /\ DOMAIN slave' = Slaves /\ \A t \in Slaves : DOMAIN slave'[t] = Fields
        /\ n = asked[d] => There(d)'
      BY <2>3, <2>4, WrittenLines
  <2>6. \A e \in Callers : e \in scene.callers /\ Target[e] = s => e = d
      BY DEF OneCaller, SentInv, SentType
  <2> QED
      BY <2>5, <2>6
<1>3. CASE \A d \in Callers : d \in scene.callers => Target[d] # s
  <2>1. ASSUME NEW d \in Callers, d \in scene.callers PROVE LineInv(d)' /\ (There(d) => There(d)')
    <3>1. Target[d] \in Slaves /\ Target[d] # s
        BY <1>1, <1>3, <2>1
    <3>2. SameBox(Target[d]) /\ LineInv(d) /\ asked'[d] = asked[d] /\ asked[d] \in Nat
        BY <1>1, <2>1, <3>1 DEF SameBox, SentInv, Served
    <3>3. \A i \in Places : OfSlave(i, Target[d])' => \E j \in Places : OfSlave(j, Target[d]) /\ Id(i)' = Id(j)
        BY DEF EntriesKept, Id
    <3> QED
        BY <3>2, <3>3, LineStays, ThereStays
  <2>2. DOMAIN slave' = Slaves /\ \A t \in Slaves : DOMAIN slave'[t] = Fields
      BY <1>1 DEF Fields
  <2> QED
      BY <1>3, <2>1, <2>2 DEF LinesGoOn
<1> QED
    BY <1>2, <1>3

LEMMA SentWriteOut ==
  ASSUME MailboxInv, SentInv, OneCaller, scene' = scene, WriteOut
  PROVE  SentInv'
<1>0. /\ hpc = "write" /\ hpc' \in {"written", "rotate"} /\ place \in [Places -> Entry] /\ loc \in Places
      /\ UNCHANGED <<asked, mbxcnt, pc, own, sent, mbx, tail, mbxticket, ticket, loc, found>>
      /\ place[loc] \in Entry /\ place[loc].state \in {"req", "fail"} /\ found.slave = place[loc].slave
      /\ place[loc].slave \in Slaves /\ found.buf = place[loc].buf
    BY DEF WriteOut, Handling, callVars, queueVars, poolVars, MailboxInv, MailboxType, QueueType,
       HandlerType, HandlerInv, SentInv, PlaceInv
<1> PICK s \in Slaves : s = place[loc].slave
    BY <1>0
<1> PICK st \in {"done", "fail", place[loc].state} :
      /\ place' = [place EXCEPT ![loc].state = st]
      /\ \/ UNCHANGED slave
         \/ slave[s].in = Null /\ slave' = [slave EXCEPT ![s].in = mbx[place[loc].buf]]
      /\ st = "done" => slave[s].in = Null /\ slave' = [slave EXCEPT ![s].in = mbx[place[loc].buf]]
      /\ hpc' = "written" => st = "done"
  <2>1. CASE UNCHANGED <<slave, lost, place>> /\ hpc' = "rotate"
    <3>1. place' = [place EXCEPT ![loc].state = place[loc].state]
        BY <1>0, <2>1 DEF Entry
    <3> QED
        BY <1>0, <2>1, <3>1
  <2>2. ASSUME NEW wkc \in {0, 1}, WriteMailbox(s, mbx[place[loc].buf], wkc),
               place' = [place EXCEPT ![loc].state = IF wkc > 0 THEN "done" ELSE "fail"],
               hpc' = IF wkc > 0 THEN "written" ELSE "rotate"
        PROVE  \E st \in {"done", "fail"} :
                 /\ place' = [place EXCEPT ![loc].state = st]
                 /\ \/ UNCHANGED slave
                    \/ slave[s].in = Null /\ slave' = [slave EXCEPT ![s].in = mbx[place[loc].buf]]
                 /\ st = "done" => slave[s].in = Null /\ slave' = [slave EXCEPT ![s].in = mbx[place[loc].buf]]
                 /\ hpc' = "written" => st = "done"
    <3> PICK st \in {"done", "fail"} : st = IF wkc > 0 THEN "done" ELSE "fail"
        OBVIOUS
    <3>1. place' = [place EXCEPT ![loc].state = st] /\ (st = "done" <=> wkc = 1)
        BY <2>2
    <3>2. \/ UNCHANGED slave /\ wkc = 0
          \/ slave[s].in = Null /\ slave' = [slave EXCEPT ![s].in = mbx[place[loc].buf]]
        BY <2>2 DEF WriteMailbox
    <3>3. hpc' = "written" => st = "done"
        BY <2>2
    <3> WITNESS st \in {"done", "fail"}
    <3>4. st = "done" => slave[s].in = Null /\ slave' = [slave EXCEPT ![s].in = mbx[place[loc].buf]]
        BY <3>1, <3>2
    <3>5. UNCHANGED slave \/ (slave[s].in = Null /\ slave' = [slave EXCEPT ![s].in = mbx[place[loc].buf]])
        BY <3>2
    <3> QED
        BY <3>1, <3>3, <3>4, <3>5
  <2> QED
      BY <1>0, <2>1, <2>2 DEF WriteOut
<1>1. /\ \A i \in Places : place'[i].buf = place[i].buf /\ place'[i].slave = place[i].slave
      /\ place'[loc].state = st /\ \A i \in Places : i # loc => place'[i].state = place[i].state
  <2>1. place'[loc] = [place[loc] EXCEPT !.state = st] /\ \A i \in Places : i # loc => place'[i] = place[i]
      BY <1>0
  <2>2. place'[loc].state = st /\ place'[loc].buf = place[loc].buf /\ place'[loc].slave = place[loc].slave
      BY <1>0, <2>1 DEF Entry
  <2> QED
      BY <2>1, <2>2
<1>2. /\ \A d \in Callers : d \in scene.callers => EntryInv(d)'
      /\ \A d \in Callers : EntriesKept(Target[d])
    BY <1>0, <1>1, AllEntriesStay
<1>3. /\ LinesGoOn /\ DOMAIN slave' = Slaves /\ \A t \in Slaves : DOMAIN slave'[t] = Fields
      /\ st = "done" =>
           \A d \in Callers : d \in scene.callers /\ Target[d] = s /\ Id(loc) = asked[d] => There(d)'
  <2>1. CASE slave[s].in = Null /\ slave' = [slave EXCEPT ![s].in = mbx[place[loc].buf]]
      BY <1>0, <1>2, <2>1, WriteOutLines
  <2>2. CASE UNCHANGED slave /\ st # "done"
    <3>1. BoxesStay
        BY <2>2, BoxesAsTheyWere
    <3>2. LinesGoOn
        BY <1>0, <1>2, <3>1, BoxesKeepLines
    <3> QED
        BY <2>2, <3>1, <3>2 DEF BoxesStay
  <2> QED
      BY <2>1, <2>2
<1>4. SentType'
    BY <1>0, <1>3 DEF SentInv, SentType
<1>5. PlaceInv'
  <2>1. \A t \in Places : Out(t)' => \E c \in Callers : Waits(c)' /\ ticket'[c] = t
      BY <1>0 DEF SentInv, PlaceInv, Out, Waits
  <2>2. ASSUME NEW i \in Places, place'[i].state \in {"req", "fail"}
        PROVE  place'[i].buf # Null /\ place'[i].slave \in Slaves
      BY <1>0, <1>1, <2>2 DEF SentInv, PlaceInv
  <2> QED
      BY <1>0, <1>1, <2>1, <2>2 DEF PlaceInv
<1>6. ASSUME NEW d \in Callers, d \in scene.callers, Done(d)' PROVE Done(d) \/ There(d)'
  <2>1. Waits(d)
      BY <1>0, <1>6 DEF Done, Waits
  <2>2. /\ mbxticket[ticket[d]] \in Places /\ place[mbxticket[ticket[d]]].slave = Target[d]
        /\ Asked(d, place[mbxticket[ticket[d]]].buf)
      BY <2>1, WaitingHolds
  <2> PICK i \in Places : i = mbxticket[ticket[d]]
      BY <2>2
  <2>3. place'[i].state = "done"
      BY <1>0, <1>6 DEF Done
  <2>4. CASE i # loc
      BY <1>1, <2>1, <2>3, <2>4 DEF Done
  <2>5. CASE i = loc
    <3>1. st = "done" /\ Target[d] = s
        BY <1>1, <2>2, <2>3, <2>5
    <3>2. place[loc].buf # Null
        BY <1>0 DEF SentInv, PlaceInv
    <3>3. Id(loc) = asked[d]
        BY <2>2, <2>5, <3>2 DEF Asked, Id
    <3> QED
        BY <1>3, <1>6, <3>1, <3>3
  <2> QED
      BY <2>4, <2>5
<1> QED
    BY <1>0, <1>2, <1>3, <1>4, <1>5, <1>6, CallersWait

(* The buffer of a written entry is given back. *)
LEMMA SentWritten ==
  ASSUME MailboxInv, SentInv, scene' = scene, Written
  PROVE  SentInv'
<1>0. /\ hpc = "written" /\ hpc' = "rotate" /\ place \in [Places -> Entry] /\ loc \in Places
      /\ UNCHANGED <<slave, asked, mbxcnt, pc, own, sent, tail, mbxticket, ticket, loc, found>>
      /\ place[loc] \in Entry /\ place[loc].state = "done" /\ found.buf = place[loc].buf
      /\ Drop(place[loc].buf) /\ place' = [place EXCEPT ![loc].buf = Null]
      /\ PoolType /\ OwnerInv /\ QueueType
    BY DEF Written, Handling, callVars, slaveVars, queueVars, MailboxInv, MailboxType, QueueType,
       HandlerType, HandlerInv, SentInv, PlaceInv
<1>1. /\ place'[loc].buf = Null /\ place'[loc].state = "done"
      /\ \A i \in Places : i # loc => place'[i] = place[i]
  <2>1. place'[loc] = [place[loc] EXCEPT !.buf = Null] /\ \A i \in Places : i # loc => place'[i] = place[i]
      BY <1>0
  <2>2. place'[loc].buf = Null /\ place'[loc].state = "done"
      BY <1>0, <2>1 DEF Entry
  <2> QED
      BY <2>1, <2>2
<1>2. /\ \A d \in Callers : own[d] # Null => mbx'[own[d]] = mbx[own[d]]
      /\ \A j \in Places : j # loc /\ place[j].buf # Null => mbx'[place[j].buf] = mbx[place[j].buf]
    BY <1>0, DropLeavesEntries
<1>3. ASSUME NEW d \in Callers PROVE EntriesKept(Target[d])
  <2>1. \A i \in Places : OfSlave(i, Target[d])' => i # loc
      BY <1>1 DEF OfSlave
  <2>2. \A i \in Places : OfSlave(i, Target[d])' =>
          OfSlave(i, Target[d]) /\ mbx'[place'[i].buf] = mbx[place[i].buf]
      BY <1>1, <1>2, <2>1 DEF OfSlave
  <2>3. \A i \in Places : Pos(i)' = Pos(i)
      BY <1>0 DEF Pos
  <2> QED
      BY <2>2, <2>3 DEF EntriesKept
<1>4. ASSUME NEW d \in Callers, d \in scene.callers PROVE EntryInv(d)'
    BY <1>0, <1>3, <1>4, EntriesStay DEF SentInv, SentType, Served
<1>5. LinesGoOn
    BY <1>0, <1>3, BoxesAsTheyWere, BoxesKeepLines
<1>6. SentType'
    BY <1>0 DEF SentInv, SentType
<1>7. PlaceInv'
  <2>1. \A t \in Places : Out(t)' => \E c \in Callers : Waits(c)' /\ ticket'[c] = t
      BY <1>0 DEF SentInv, PlaceInv, Out, Waits
  <2>2. ASSUME NEW i \in Places, place'[i].state \in {"req", "fail"}
        PROVE  place'[i].buf # Null /\ place'[i].slave \in Slaves
      BY <1>1, <2>2 DEF SentInv, PlaceInv
  <2> QED
      BY <1>0, <2>1, <2>2 DEF PlaceInv
<1>8. ASSUME NEW d \in Callers, Done(d)' PROVE Done(d)
  <2>1. Waits(d) /\ mbxticket[ticket[d]] \in Places
      BY <1>0, <1>8, WaitingHolds DEF Done, Waits
  <2> QED
      BY <1>0, <1>1, <1>8, <2>1 DEF Done
<1> QED
    BY <1>0, <1>2, <1>4, <1>5, <1>6, <1>7, <1>8, CallersWait

(* The tail goes on: every other place is one nearer to it. *)
LEMMA PosShifts ==
  ASSUME QueueType, tail' = Next1(tail)
  PROVE  \A i \in Places : i # tail => Pos(i)' = Pos(i) - 1
<1>1. tail \in Places /\ tail' = After(tail)
    BY Next1Is DEF QueueType
<1> QED
    BY <1>1, MailboxAssumption DEF Places, After, Pos

LEMMA SentDropQueue ==
  ASSUME MailboxInv, SentInv, hpc' # "astray", scene' = scene, DropQueue
  PROVE  SentInv'
<1>0. /\ hpc = "remove" /\ hpc' = "pick" /\ place \in [Places -> Entry] /\ loc \in Places
      /\ UNCHANGED <<slave, asked, mbxcnt, pc, own, sent, mbxticket, ticket>>
      /\ PoolType /\ OwnerInv /\ QueueType /\ tail \in Places /\ count \in Nat
    BY DEF DropQueue, Handling, callVars, slaveVars, MailboxInv, MailboxType, QueueType, HandlerType
<1>1. \A t \in Places : Out(t)' => \E c \in Callers : Waits(c)' /\ ticket'[c] = t
    BY <1>0 DEF SentInv, PlaceInv, Out, Waits
<1>2. CASE ~place[loc].remove
  <2>1. UNCHANGED <<mbx, place, tail>>
      BY <1>2 DEF DropQueue, poolVars
  <2>2. PlaceInv'
      BY <1>0, <1>1, <2>1 DEF SentInv, PlaceInv
  <2> QED
      BY <1>0, <2>1, <2>2, BoxesAsTheyWere, QuietStep
<1>3. CASE place[loc].remove
  <2>1. loc = tail
      BY <1>3 DEF DropQueue
  <2>2. /\ Drop(place[loc].buf) /\ place' = [place EXCEPT ![loc] = Nowhere] /\ tail' = Next1(tail)
      BY <1>3 DEF DropQueue, Discard
  <2>3. /\ place'[loc] = Nowhere /\ \A i \in Places : i # loc => place'[i] = place[i]
        /\ Nowhere.buf = Null /\ Nowhere.state = "none"
      BY <1>0, <2>2 DEF Nowhere
  <2>4. /\ \A d \in Callers : own[d] # Null => mbx'[own[d]] = mbx[own[d]]
        /\ \A j \in Places : j # loc /\ place[j].buf # Null => mbx'[place[j].buf] = mbx[place[j].buf]
      BY <1>0, <2>2, DropLeavesEntries
  <2>5. ASSUME NEW d \in Callers PROVE EntriesKept(Target[d])
    <3>1. \A i \in Places : OfSlave(i, Target[d])' => i # loc
        BY <2>3 DEF OfSlave
    <3>2. \A i \in Places : OfSlave(i, Target[d])' =>
            OfSlave(i, Target[d]) /\ mbx'[place'[i].buf] = mbx[place[i].buf]
        BY <2>3, <2>4, <3>1 DEF OfSlave
    <3>3. \A i \in Places : i # loc => Pos(i)' = Pos(i) - 1 /\ Pos(i) \in Int
        BY <1>0, <2>1, <2>2, PosShifts, PosIs
    <3>4. \A i, j \in Places : i # loc /\ j # loc /\ Pos(i)' < Pos(j)' => Pos(i) < Pos(j)
        BY <3>3
    <3> QED
        BY <3>1, <3>2, <3>4 DEF EntriesKept
  <2>6. ASSUME NEW d \in Callers, d \in scene.callers PROVE EntryInv(d)'
      BY <1>0, <2>5, <2>6, EntriesStay DEF SentInv, SentType, Served
  <2>7. LinesGoOn
      BY <1>0, <2>5, BoxesAsTheyWere, BoxesKeepLines
  <2>8. SentType'
      BY <1>0 DEF SentInv, SentType
  <2>9. PlaceInv'
    <3>1. ASSUME NEW i \in Places, place'[i].state \in {"req", "fail"}
          PROVE  place'[i].buf # Null /\ place'[i].slave \in Slaves
        BY <2>3, <3>1 DEF SentInv, PlaceInv
    <3> QED
        BY <1>0, <1>1, <3>1 DEF PlaceInv
  <2>10. ASSUME NEW d \in Callers, Done(d)' PROVE Done(d)
    <3>1. Waits(d) /\ mbxticket[ticket[d]] \in Places /\ ~place[mbxticket[ticket[d]]].remove
        BY <1>0, <2>10, WaitingHolds DEF Done, Waits
    <3>2. mbxticket[ticket[d]] # loc
        BY <1>3, <3>1
    <3> QED
        BY <1>0, <2>3, <2>10, <3>1, <3>2 DEF Done
  <2> QED
      BY <1>0, <2>4, <2>6, <2>7, <2>8, <2>9, <2>10, CallersWait
<1> QED
    BY <1>2, <1>3

(* An entry goes to the head.  Its caller waits for it, so that it is the  *)
(* last request of that caller, and the only one in the queue.             *)
LEMMA SentRotate ==
  ASSUME MailboxInv, SentInv, OneCaller, scene' = scene, Rotate
  PROVE  SentInv'
<1>0. /\ hpc = "rotate" /\ hpc' = "remove" /\ place \in [Places -> Entry] /\ loc = tail
      /\ UNCHANGED <<slave, asked, mbxcnt, pc, own, sent, mbx, ticket, loc, found>>
      /\ QueueType /\ tail \in Places /\ head \in Places /\ mbxticket \in [Places -> Tickets]
      /\ -1 \notin Places
    BY MailboxAssumption DEF Rotate, Handling, callVars, slaveVars, poolVars, MailboxInv, MailboxType,
       QueueType, HandlerInv, Places
<1>1. CASE UNCHANGED <<mbxticket, place, tail>>
  <2>1. PlaceInv'
      BY <1>0, <1>1, PlacesAsTheyWere DEF SentInv, Waits
  <2> QED
      BY <1>0, <1>1, <2>1, BoxesAsTheyWere, QuietStep
<1>2. CASE /\ mbxticket' = [t \in Places |-> Carry(t)] /\ Holders # {} /\ head # tail
           /\ place' = [place EXCEPT ![tail] = Nowhere, ![head] = place[tail]]
           /\ tail' = Next1(tail)
  <2> PICK h \in Places, l \in Places : h = head /\ l = tail
      BY <1>0
  <2>0. QueueNotFull
      BY <1>0, <1>2, MailboxAssumption DEF MailboxInv, RingInv, QueueType, QueueNotFull, Places
  <2>1. /\ place[h] = Nowhere /\ Nowhere.buf = Null /\ Nowhere.state = "none" /\ ~InUse(h) /\ h # l
      BY <1>2, <2>0, HeadIsFree DEF Nowhere, MailboxInv, MailboxType, QueueInv
  <2>2. /\ place'[l] = Nowhere /\ place'[h] = place[l]
        /\ \A i \in Places : i # h /\ i # l => place'[i] = place[i]
      BY <1>0, <1>2
  <2>3. \A t \in Places : mbxticket'[t] = IF mbxticket[t] = l THEN h ELSE mbxticket[t]
      BY <1>0, <1>2 DEF Carry, Holders
  <2>4. PICK c \in Callers : Waits(c) /\ mbxticket[ticket[c]] = l
    <3>1. PICK t \in Places : mbxticket[t] = l
        BY <1>0, <1>2 DEF Holders
    <3>2. Out(t)
        BY <1>0, <3>1 DEF Out
    <3> QED
        BY <3>1, <3>2 DEF SentInv, PlaceInv
  <2>5. place[l].slave = Target[c] /\ Asked(c, place[l].buf) /\ c \in scene.callers
      BY <2>4, WaitingHolds DEF SentInv, Waits, Waiting
  <2>6. \A i \in Places : i # l => Pos(i)' = Pos(i) - 1 /\ Pos(i) \in Int
      BY <1>0, <1>2, PosShifts, PosIs
  <2>7. ASSUME NEW d \in Callers, d \in scene.callers, ~OfSlave(l, Target[d])
        PROVE  EntriesKept(Target[d])
    <3>1. \A i \in Places : OfSlave(i, Target[d])' => i # h /\ i # l
        BY <2>1, <2>2, <2>7 DEF OfSlave
    <3>2. \A i \in Places : OfSlave(i, Target[d])' =>
            OfSlave(i, Target[d]) /\ mbx'[place'[i].buf] = mbx[place[i].buf]
        BY <1>0, <2>2, <3>1 DEF OfSlave
    <3>3. \A i, j \in Places : i # l /\ j # l /\ Pos(i)' < Pos(j)' => Pos(i) < Pos(j)
        BY <2>6
    <3> QED
        BY <3>1, <3>2, <3>3 DEF EntriesKept
  <2>8. ASSUME NEW d \in Callers, d \in scene.callers, OfSlave(l, Target[d])
        PROVE  /\ Id(l) = asked[d] /\ \A i \in Places : OfSlave(i, Target[d])' => i = h
               /\ Id(h)' = Id(l) /\ mbx'[place'[h].buf] = mbx[place[l].buf]
    <3> DEFINE s == Target[d]
    <3>1. d = c
        BY <2>5, <2>8 DEF OneCaller, OfSlave, SentInv, SentType
    <3>2. Id(l) = asked[d] /\ EntryInv(d) /\ asked[d] \in Nat
        BY <2>5, <2>8, <3>1 DEF Asked, OfSlave, Id, SentInv, SentType, Served
    <3>3. ASSUME NEW i \in Places, OfSlave(i, s), i # l PROVE FALSE
      <4>1. Pos(l) < Pos(i)
          BY <1>0, <3>3, PosIs
      <4>2. Id(l) < Id(i) /\ Id(i) \in 1 .. asked[d]
          BY <2>8, <3>2, <3>3, <4>1 DEF EntryInv
      <4> QED
          BY <3>2, <4>2
    <3>4. ASSUME NEW i \in Places, OfSlave(i, s)' PROVE i = h
      <4>1. i # l
          BY <2>1, <2>2, <3>4 DEF OfSlave
      <4>2. i # h => OfSlave(i, s)
          BY <2>2, <3>4, <4>1 DEF OfSlave
      <4> QED
          BY <3>3, <4>1, <4>2
    <3>5. Id(h)' = Id(l) /\ mbx'[place'[h].buf] = mbx[place[l].buf]
        BY <1>0, <2>2 DEF Id
    <3> QED
        BY <3>2, <3>4, <3>5
  <2>9. ASSUME NEW d \in Callers, d \in scene.callers
        PROVE  EntryInv(d)' /\ LineInv(d)' /\ (There(d) => There(d)')
    <3> DEFINE s == Target[d]
    <3>1. /\ EntryInv(d) /\ LineInv(d) /\ asked[d] \in Nat /\ asked'[d] \in Nat /\ asked'[d] = asked[d]
          /\ asked[d] <= asked'[d] /\ SameBox(s) /\ pc'[d] = pc[d]
        BY <1>0, <2>9 DEF SentInv, SentType, Served, SameBox
    <3>2. CASE ~OfSlave(l, s)
      <4>1. EntriesKept(s)
          BY <2>7, <2>9, <3>2
      <4>2. EntryInv(d)'
          BY <3>1, <4>1, EntriesStay
      <4>3. \A i \in Places : OfSlave(i, s)' => \E j \in Places : OfSlave(j, s) /\ Id(i)' = Id(j)
          BY <4>1 DEF EntriesKept, Id
      <4> QED
          BY <3>1, <4>2, <4>3, LineStays, ThereStays
    <3>3. CASE OfSlave(l, s)
      <4>1. /\ Id(l) = asked[d] /\ \A i \in Places : OfSlave(i, s)' => i = h
            /\ Id(h)' = Id(l) /\ mbx'[place'[h].buf] = mbx[place[l].buf]
          BY <2>8, <2>9, <3>3
      <4>2. /\ Cyclic(s)' /\ Id(h)' \in 1 .. asked'[d] /\ mbx'[place'[h].buf] = Req(d, Id(h))'
        <5>1. Cyclic(s) /\ Id(l) \in 1 .. asked[d] /\ mbx[place[l].buf] = Req(d, Id(l))
            BY <3>1, <3>3 DEF EntryInv
        <5>2. Req(d, Id(h))' = Req(d, Id(l))
            BY <4>1 DEF Req, CntOf
        <5> QED
            BY <3>1, <4>1, <5>1, <5>2 DEF Cyclic, EnableMbxCyclicForCoe
      <4>3. pc[d] # "add"
          BY <3>1, <3>3, <4>1 DEF EntryInv
      <4>4. \A i, j \in Places : OfSlave(i, s)' /\ OfSlave(j, s)' => ~(Pos(i)' < Pos(j)')
        <5>1. Pos(h)' \in Int
            BY <2>1, <2>6
        <5> QED
            BY <4>1, <5>1
      <4>5. EntryInv(d)'
          BY <3>1, <4>1, <4>2, <4>3, <4>4 DEF EntryInv
      <4>6. \A i \in Places : OfSlave(i, s)' => \E j \in Places : OfSlave(j, s) /\ Id(i)' = Id(j)
          BY <3>3, <4>1
      <4> QED
          BY <3>1, <4>5, <4>6, LineStays, ThereStays
    <3> QED
        BY <3>2, <3>3
  <2>10. LinesGoOn
      BY <2>9 DEF LinesGoOn
  <2>11. SentType'
      BY <1>0 DEF SentInv, SentType
  <2>12. PlaceInv'
    <3>1. ASSUME NEW t \in Places, Out(t)' PROVE \E d \in Callers : Waits(d)' /\ ticket'[d] = t
      <4>1. Out(t)
          BY <1>0, <2>3, <3>1 DEF Out
      <4> QED
          BY <1>0, <4>1 DEF SentInv, PlaceInv, Waits
    <3>2. ASSUME NEW i \in Places, place'[i].state \in {"req", "fail"}
          PROVE  place'[i].buf # Null /\ place'[i].slave \in Slaves
        BY <2>1, <2>2, <3>2 DEF SentInv, PlaceInv
    <3> QED
        BY <1>0, <3>1, <3>2 DEF PlaceInv
  <2>13. ASSUME NEW d \in Callers, Done(d)' PROVE Done(d)
    <3>1. Waits(d)
        BY <1>0, <2>13 DEF Done, Waits
    <3>2. /\ ticket[d] \in Places /\ mbxticket[ticket[d]] \in Places
          /\ mbxticket[ticket[d]] # h
        BY <2>1, <3>1, WaitingHolds
    <3>3. place'[mbxticket'[ticket[d]]] = place[mbxticket[ticket[d]]]
      <4>1. CASE mbxticket[ticket[d]] = l
          BY <2>2, <2>3, <3>2, <4>1
      <4>2. CASE mbxticket[ticket[d]] # l
          BY <2>2, <2>3, <3>2, <4>2
      <4> QED
          BY <4>1, <4>2
    <3> QED
        BY <1>0, <2>13, <3>1, <3>3 DEF Done
  <2> QED
      BY <1>0, <2>9, <2>10, <2>11, <2>12, <2>13, CallersWait
<1> QED
    BY <1>1, <1>2 DEF Rotate

(* A slave takes a request, sends something of its own, or obeys. *)
LEMMA SentSlave ==
  ASSUME MailboxInv, SentInv, OneInSeven, scene' = scene, NEW t \in Slaves, SlaveStep(t)
  PROVE  SentInv'
<1>0. /\ UNCHANGED <<asked, mbxcnt, pc, own, sent, mbx, tail, place, mbxticket, ticket, loc, found, hpc>>
      /\ DOMAIN slave = Slaves /\ \A s \in Slaves : DOMAIN slave[s] = Fields
    BY DEF SlaveStep, Serve, Repeat, Alarm, poolVars, callVars, queueVars, handlerVars, SentInv, SentType
<1>1. PlaceInv'
    BY <1>0, PlacesAsTheyWere DEF SentInv, Waits
<1>2. CASE Repeat(t) \/ \E k : Alarm(t, k)
  <2>1. CASE Repeat(t)
    <3>1. slave' = [slave EXCEPT ![t].ack = slave[t].repeat, ![t].missed = FALSE,
                                 ![t].out = IF slave[t].out = Null THEN slave[t].last ELSE slave[t].out]
        BY <2>1 DEF Repeat
    <3>2. BoxesStay
        BY <1>0, <3>1 DEF BoxesStay, SameBox, Fields
    <3> QED
        BY <1>0, <1>1, <3>2, QuietStep
  <2>2. ASSUME NEW k, Alarm(t, k) PROVE SentInv'
    <3>1. slave' = [slave EXCEPT ![t] = Post(t, slave[t], k)]
        BY <2>2 DEF Alarm
    <3>2. slave'[t] = Post(t, slave[t], k) /\ DOMAIN slave' = Slaves /\ \A s \in Slaves : s # t => slave'[s] = slave[s]
        BY <1>0, <3>1
    <3>3. SameBox(t) /\ DOMAIN slave'[t] = Fields
        BY <1>0, <3>2 DEF Post, SameBox, Fields
    <3>4. BoxesStay
        BY <1>0, <3>2, <3>3 DEF BoxesStay, SameBox
    <3> QED
        BY <1>0, <1>1, <3>4, QuietStep
  <2> QED
      BY <1>2, <2>1, <2>2
<1>3. CASE Serve(t)
  <2>1. /\ DOMAIN slave' = Slaves /\ DOMAIN slave'[t] = Fields /\ \A s \in Slaves : s # t => slave'[s] = slave[s]
    <3>1. CASE slave' = [slave EXCEPT ![t].in = Null]
        BY <1>0, <3>1 DEF Fields
    <3>2. CASE slave[t].in.cnt # slave[t].cnt
      <4> DEFINE v == slave[t]
                 w == [v EXCEPT !.in = Null, !.cnt = v.in.cnt, !.took = v.took \cup {<<v.in.by, v.in.id>>}]
      <4>1. slave' = [slave EXCEPT ![t] = Post(t, w, "answer")]
          BY <1>3, <3>2 DEF Serve
      <4>2. DOMAIN w = Fields
          BY <1>0
      <4> HIDE DEF w
      <4>3. DOMAIN Post(t, w, "answer") = Fields
          BY <4>2 DEF Post, Fields
      <4> QED
          BY <1>0, <4>1, <4>3
    <3> QED
        BY <1>3, <3>1, <3>2 DEF Serve
  <2>2. \A d \in Callers : EntriesKept(Target[d])
      BY <1>0, PlacesStay
  <2>3. \A d \in Callers : d \in scene.callers => EntryInv(d)'
      BY <1>0, AllEntriesStay
  <2>4. ASSUME NEW d \in Callers, d \in scene.callers PROVE LineInv(d)' /\ (There(d) => There(d)')
    <3>1. LineInv(d) /\ asked[d] \in Nat /\ asked'[d] = asked[d] /\ Target[d] \in Slaves
        BY <1>0, <2>4, MailboxAssumption DEF SentInv, SentType, Served
    <3>2. CASE Target[d] = t
        BY <1>0, <1>3, <2>4, <3>1, <3>2, LineTaken DEF SentInv
    <3>3. CASE Target[d] # t
      <4>1. SameBox(Target[d])
          BY <2>1, <3>1, <3>3 DEF SameBox
      <4>2. \A i \in Places : OfSlave(i, Target[d])' => \E j \in Places : OfSlave(j, Target[d]) /\ Id(i)' = Id(j)
          BY <2>2 DEF EntriesKept, Id
      <4> QED
          BY <3>1, <4>1, <4>2, LineStays, ThereStays
    <3> QED
        BY <3>2, <3>3
  <2>5. LinesGoOn
      BY <2>4 DEF LinesGoOn
  <2>6. SentType'
      BY <1>0, <2>1 DEF SentInv, SentType
  <2>7. \A d \in Callers : Done(d)' => Done(d)
      BY <1>0 DEF Done, Waits
  <2> QED
      BY <1>0, <1>1, <2>3, <2>5, <2>6, <2>7, CallersWait
<1> QED
    BY <1>2, <1>3 DEF SlaveStep

-----------------------------------------------------------------------------
LEMMA InitSent == Init => SentInv
<1> SUFFICES ASSUME Init PROVE SentInv
    OBVIOUS
<1> USE DEF Init, LinkInit, DirectInit, CyclicInit
<1>0. /\ -1 \notin Places /\ scene \in Scenes /\ \A c \in Callers : Target[c] \in Slaves
    BY MailboxAssumption DEF Places
<1>1. SentType
    BY DEF SentType, Fields
<1>2. PlaceInv
    BY <1>0 DEF PlaceInv, Out, Nowhere
<1>3. \A i \in Places : place[i].buf = Null
    BY DEF Nowhere
<1>4. ASSUME NEW c \in Callers PROVE Served(c)
  <2>1. RequestInv(c)
      BY <1>0 DEF RequestInv, CntOf, HoldsReq
  <2>2. EntryInv(c)
      BY <1>3 DEF EntryInv, OfSlave
  <2>3. Line(c, 0)
      BY <1>0, <1>3 DEF Line, CntOf, OfSlave
  <2>4. ToldInv(c)
      BY DEF ToldInv, Done, Waits, Waiting
  <2> QED
      BY <2>1, <2>2, <2>3, <2>4 DEF Served, LineInv
<1>5. \A c \in Callers : pc[c] = "rest" /\ ~sent[c]
    OBVIOUS
<1> QED
    BY <1>1, <1>2, <1>4, <1>5 DEF SentInv

LEMMA NextSent ==
  ASSUME MailboxInv, SentInv, Running', OneInSeven, OneCaller, [Next]_vars
  PROVE  SentInv'
<1>1. CASE UNCHANGED vars
  <2>1. /\ UNCHANGED <<scene, slave, asked, mbxcnt, pc, own, sent, ticket, mbx, tail, place, mbxticket>>
        /\ UNCHANGED <<loc, found, hpc>>
      BY <1>1 DEF vars, slaveVars, poolVars, callVars, queueVars, handlerVars
  <2>2. PlaceInv'
      BY <2>1, PlacesAsTheyWere DEF SentInv, Waits
  <2> QED
      BY <2>1, <2>2, BoxesAsTheyWere, QuietStep
<1>2. ASSUME scene' = scene, NEW c \in Callers, CallStep(c) PROVE SentInv'
    BY <1>2, SentTalk, SentDirect, SentCyclic DEF CallStep
<1>3. ASSUME scene' = scene, NEW t \in Slaves, SlaveStep(t) PROVE SentInv'
    BY <1>3, SentSlave
<1>4. ASSUME scene' = scene, HandlerStep PROVE SentInv'
    BY <1>4, SentIn, SentPick, SentWriteOut, SentWritten, SentRotate, SentDropQueue
       DEF HandlerStep, Running
<1> QED
    BY <1>1, <1>2, <1>3, <1>4 DEF Next

LEMMA SentInvTells ==
  ASSUME AloneAtSlave /\ Running => SentInv
  PROVE  SentIsThere
<1> SUFFICES ASSUME AloneAtSlave, Running, NEW c \in Callers, sent[c]
             PROVE  LET s == slave[Target[c]] IN
                    s.in = Request(c, asked[c], mbxcnt[Target[c]]) \/ <<c, asked[c]>> \in s.took
    BY DEF SentIsThere
<1>1. RequestInv(c) /\ There(c)
    BY DEF SentInv, Served, ToldInv
<1> QED
    BY <1>1 DEF RequestInv, There, Req

(* What mbxsend says was sent is in the slave's mailbox or was taken, as   *)
(* long as the counter, which repeats after seven requests, is not outrun. *)
(* The other exceptions are those of the property.                         *)
THEOREM RequestsArrive == Spec /\ []OneInSeven => []SentIsThere
<1> DEFINE Inv == AloneAtSlave /\ Running => MailboxInv /\ SlotInv /\ SentInv
<1>1. Init => Inv
    BY InitSent, InitMailbox, SlotInit
<1>2. Inv /\ OneInSeven /\ [Next]_vars => Inv'
  <2> SUFFICES ASSUME Inv, OneInSeven, [Next]_vars, AloneAtSlave', Running'
               PROVE  (MailboxInv /\ SlotInv /\ SentInv)'
      OBVIOUS
  <2>1. AloneAtSlave
      BY DEF Next, vars, AloneAtSlave, AloneAtSlot, AloneAtMailbox, Cyclic, EnableMbxCyclicForCoe
  <2>2. Running
      BY DEF Next, vars, Running, handlerVars, callVars
  <2>3. OneCaller /\ AloneAtSlot
      BY <2>1, OneCallerIs DEF AloneAtSlave
  <2> QED
      BY <2>1, <2>2, <2>3, NextMailbox, NextSlot, NextSent
<1>3. Inv => SentIsThere
    BY SentInvTells
<1> QED
    BY <1>1, <1>2, <1>3, PTL DEF Spec
=============================================================================
