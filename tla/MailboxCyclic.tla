---------------------------- MODULE MailboxCyclic ----------------------------
(***************************************************************************)
(* The cyclic mailbox handler of SOEM ec_main.c: callers put requests into *)
(* a queue of the group and wait on a ticket, the handler thread writes    *)
(* them to the slaves after each exchange of process data, and moves the   *)
(* answers into one in-slot per slave, where the callers find them.        *)
(*                                                                         *)
(* The queue is a ring under a mutex; between its critical sections the    *)
(* handler works on the place it found at the tail.                        *)
(***************************************************************************)
EXTENDS MailboxLink

VARIABLES
  head, tail, count,    \* listhead, listtail, listcount
  place,       \* every place of the ring: [state, slave, buf, remove]
  mbxticket,   \* the place of every ticket, -1 for a free one
  ticket,      \* the ticket a caller waits on
  status,      \* mbxstatus: the slave's mailbox was full at the last exchange
  coembxin,    \* the in-slot of every slave, a buffer or Null (coembxinfull)
  inptr,       \* what a caller has copied from the in-slot it is emptying
  rmp, instate,   \* mbxrmpstate and the repeat bit of mbxinstateex
  hpc,         \* where the handler is
  visit, firstpos, lastpos,   \* slaves it has visited, and where it began
  limitcnt, limit, listleft,       \* its work so far, what it may do, entries left
  loc, found   \* the queue place in hand and what the handler read there

queueVars == <<head, tail, count, place, mbxticket, ticket>>
inVars == <<status, coembxin, inptr, rmp, instate>>
handlerVars == <<hpc, visit, firstpos, lastpos, limitcnt, limit, listleft, loc, found>>

CONSTANT Lookup   \* mbxstatuslookup: the mailbox slaves in order

ASSUME LookupAssumption ==
  /\ Lookup \in Seq(Slaves) /\ Lookup # <<>>
  /\ \A i, j \in 1 .. Len(Lookup) : Lookup[i] = Lookup[j] => i = j

(* soem_mbxhandler: the work limit of one call of the handler. *)
Limit == IF scene.limit <= 0 THEN 1 ELSE scene.limit

Places == 0 .. EC_MBXPOOLSIZE - 1
Nowhere == [state |-> "none", slave |-> Null, buf |-> Null, remove |-> FALSE]
Next1(i) == (i + 1) % EC_MBXPOOLSIZE

CyclicInit ==
  /\ head = 0 /\ tail = 0 /\ count = 0
  /\ place = [i \in Places |-> Nowhere] /\ mbxticket = [t \in Places |-> -1]
  /\ ticket = [c \in Callers |-> -1]
  /\ status = [s \in Slaves |-> FALSE] /\ coembxin = [s \in Slaves |-> Null]
  /\ inptr = [c \in Callers |-> Null]
  /\ rmp = [s \in Slaves |-> 0] /\ instate = [s \in Slaves |-> FALSE]
  /\ hpc = "idle" /\ visit = 0 /\ firstpos = 0 /\ lastpos = 0
  /\ limitcnt = 0 /\ limit = 0 /\ listleft = 0 /\ loc = 0 /\ found = Nowhere

(***************************************************************************)
(* The callers.                                                            *)
(***************************************************************************)
FreeTicket == CHOOSE t \in Places : mbxticket[t] < 0 /\ \A u \in 0 .. t - 1 : mbxticket[u] >= 0

AddQueue(c) ==
  /\ pc[c] = "add"
  /\ IF count < EC_MBXPOOLSIZE
     THEN /\ ticket' = [ticket EXCEPT ![c] = FreeTicket]
          /\ mbxticket' = [mbxticket EXCEPT ![FreeTicket] = head]
          /\ place' = [place EXCEPT ![head] = [state |-> "req", slave |-> Target[c],
                                               buf |-> own[c], remove |-> FALSE]]
          /\ head' = Next1(head) /\ count' = count + 1
          /\ own' = [own EXCEPT ![c] = Null] /\ Goto(c, "poll")
          /\ UNCHANGED <<tail, poolVars, what, expired, asked, mbxcnt, sent>>
     ELSE /\ expired[c] /\ Drop(own[c])
          /\ own' = [own EXCEPT ![c] = Null] /\ Sent(c, 0, "slot") /\ UNCHANGED queueVars
  /\ UNCHANGED <<slaveVars, handVars, inVars, handlerVars>>

(* The ticket is given back and its place marked for removal.              *)
GiveBack(c) ==
  /\ place' = [place EXCEPT ![mbxticket[ticket[c]]].remove = TRUE]
  /\ mbxticket' = [mbxticket EXCEPT ![ticket[c]] = -1] /\ ticket' = [ticket EXCEPT ![c] = -1]

IsTried(c) == place[mbxticket[ticket[c]]].state # "req"   \* a mutant

IsDone(c) == place[mbxticket[ticket[c]]].state = "done"

DoneQueue(c) ==
  /\ pc[c] = "poll"
  /\ IF IsDone(c) THEN GiveBack(c) /\ Sent(c, 1, "slot")
     ELSE /\ expired[c] /\ Goto(c, "expire")
          /\ UNCHANGED <<place, mbxticket, ticket, what, expired, asked, mbxcnt, sent>>
  /\ UNCHANGED <<slaveVars, poolVars, handVars, own, head, tail, count, inVars, handlerVars>>

ExpireQueue(c) ==
  /\ pc[c] = "expire" /\ GiveBack(c) /\ Sent(c, 0, "slot")
  /\ UNCHANGED <<slaveVars, poolVars, handVars, own, head, tail, count, inVars, handlerVars>>

(* The in-slot is looked at, copied and emptied without a lock: a second   *)
(* caller of the slave may copy the same buffer, or the mark of an empty   *)
(* slot.                                                                   *)
SlotStep == Timeless /\ UNCHANGED <<slaveVars, poolVars, handVars, queueVars, status, rmp, instate,
                                    handlerVars>>

SeeSlot(c) ==
  /\ pc[c] = "slot" /\ SlotStep /\ UNCHANGED <<coembxin, inptr>>
  /\ IF coembxin[Target[c]] # Null THEN Goto(c, "grab") /\ UNCHANGED own
     ELSE expired[c] /\ Received(c, Null)

CopySlot(c) ==
  /\ pc[c] = "grab" /\ SlotStep /\ UNCHANGED <<coembxin, own>>
  /\ inptr' = [inptr EXCEPT ![c] = coembxin[Target[c]]] /\ Goto(c, "clear")

ClearSlot(c) ==
  /\ pc[c] = "clear" /\ SlotStep
  /\ Received(c, inptr[c]) /\ inptr' = [inptr EXCEPT ![c] = Null]
  /\ coembxin' = [coembxin EXCEPT ![Target[c]] = Null]

CyclicCall(c) ==
  \/ AddQueue(c) \/ DoneQueue(c) \/ ExpireQueue(c)
  \/ SeeSlot(c) \/ CopySlot(c) \/ ClearSlot(c)

(***************************************************************************)
(* The handler: the exchange brings the status of all in-mailboxes, or is  *)
(* lost and leaves none; then ecx_mbxhandler runs.                         *)
(***************************************************************************)
InBegin ==
  /\ hpc' = "in" /\ visit' = 0 /\ firstpos' = lastpos + 1 /\ limitcnt' = 0
  /\ UNCHANGED <<lastpos, limit, listleft, loc, found>>

Exchange ==
  /\ hpc = "idle" /\ InBegin
  /\ \E wkc \in {0, 1} :
       /\ Asks(Null, wkc)
       /\ status' = [s \in Slaves |-> wkc > 0 /\ slave[s].out # Null]
  /\ UNCHANGED <<slave, alarms, poolVars, handVars, callVars, queueVars, coembxin, inptr, rmp, instate>>

(* ecx_mbxinhandler goes on with the next slave until it has seen all or   *)
(* reached its limit.                                                      *)
Offset == IF firstpos + visit >= Len(Lookup) THEN firstpos + visit - Len(Lookup)
          ELSE firstpos + visit
Visited == Lookup[Offset + 1]

Worked(n) ==
  /\ limitcnt' = limitcnt + n /\ lastpos' = Offset /\ visit' = visit + 1
  /\ hpc' = IF visit + 1 >= Len(Lookup) \/ (n > 0 /\ limitcnt + n >= Limit) THEN "out" ELSE "in"
  /\ UNCHANGED <<firstpos, limit, listleft, loc, found>>

Visiting(s) == hpc = "in" /\ s = Visited

PassBy(s) ==
  /\ Visiting(s) /\ (Cyclic(s) => rmp[s] = 0 /\ ~(status[s] /\ mbxpool # {}))
  /\ Worked(0)
  /\ UNCHANGED <<slaveVars, poolVars, handVars, callVars, queueVars, inVars>>

(* The robust mailbox protocol, one datagram per visit: read the repeat    *)
(* bit and toggle it, write it, wait until the slave has taken it.  It is  *)
(* given up for a slave that the check thread has marked lost.             *)
GiveUpRmp(s) ==
  /\ Visiting(s) /\ Cyclic(s) /\ rmp[s] # 0 /\ Worked(0)
  /\ rmp' = [rmp EXCEPT ![s] = 0]
  /\ UNCHANGED <<slaveVars, poolVars, handVars, callVars, queueVars, status, coembxin, inptr, instate>>

Rmp(s) ==
  /\ Visiting(s) /\ Cyclic(s) /\ rmp[s] # 0 /\ Worked(1)
  /\ \E wkc \in {0, 1} :
       \/ /\ rmp[s] = 1 /\ Asks(s, wkc) /\ UNCHANGED slave
          /\ IF wkc > 0
             THEN instate' = [instate EXCEPT ![s] = ~slave[s].repeat] /\ rmp' = [rmp EXCEPT ![s] = 2]
             ELSE UNCHANGED <<instate, rmp>>
       \/ /\ rmp[s] = 2 /\ WriteRepeat(s, instate[s], wkc)
          /\ rmp' = [rmp EXCEPT ![s] = IF wkc > 0 THEN 3 ELSE 2] /\ UNCHANGED instate
       \/ /\ rmp[s] = 3 /\ Asks(s, wkc) /\ UNCHANGED <<slave, instate>>
          /\ rmp' = [rmp EXCEPT ![s] = IF wkc > 0 /\ slave[s].ack = instate[s] THEN 0 ELSE 3]
  /\ UNCHANGED <<alarms, poolVars, handVars, callVars, queueVars, status, coembxin, inptr>>

(* A full mailbox is read into a buffer from the pool.  Errors and         *)
(* emergencies are dealt with here; an answer goes into the slave's        *)
(* in-slot, or is lost when the last one is still there.                   *)
Keep(s, b, m) ==
  /\ Deal(s, m.id)
  /\ IF m.kind = "answer" /\ coembxin[s] = Null
     THEN /\ coembxin' = [coembxin EXCEPT ![s] = b] /\ Take
          /\ UNCHANGED skipped
     ELSE /\ UNCHANGED <<mbxpool, coembxin>>
          /\ skipped' = [skipped EXCEPT ![s] = IF m.kind = "answer" THEN @ \cup {m.id} ELSE @]

RepeatAlways(wkc) == 1   \* a mutant

AfterFetch(wkc) == IF wkc = 0 THEN 1 ELSE 0

Fetch(s) ==
  /\ Visiting(s) /\ Cyclic(s) /\ rmp[s] = 0 /\ status[s] /\ mbxpool # {} /\ Worked(1)
  /\ \E wkc \in {0, 1} :
       /\ ReadMailbox(s, wkc)
       /\ rmp' = [rmp EXCEPT ![s] = AfterFetch(wkc)]
       /\ IF wkc = 0 THEN UNCHANGED <<mbxpool, coembxin, handVars>>
          ELSE Keep(s, Free, slave[s].out)
  /\ UNCHANGED <<alarms, mbx, callVars, queueVars, status, inptr, instate>>

(***************************************************************************)
(* ecx_mbxouthandler works on as many entries as the queue had when it     *)
(* began, within the limit that is left.                                   *)
(***************************************************************************)
Handling(at) == hpc = at /\ UNCHANGED <<visit, firstpos, lastpos, limit>>

OutBegin ==
  /\ hpc = "out" /\ hpc' = "pick"
  /\ listleft' = count /\ limit' = Limit - limitcnt /\ limitcnt' = 0
  /\ visit' = 0 /\ firstpos' = 0
  /\ UNCHANGED <<slaveVars, poolVars, handVars, callVars, queueVars, inVars, lastpos, loc, found>>

Pick ==
  /\ Handling("pick")
  /\ IF limitcnt <= limit /\ listleft > 0
     THEN /\ listleft' = listleft - 1 /\ loc' = tail /\ found' = place[tail]
          /\ IF place[tail].state \in {"req", "fail"}
             THEN hpc' = "write" /\ limitcnt' = limitcnt + 1
             ELSE hpc' = "rotate" /\ UNCHANGED limitcnt
     ELSE hpc' = "idle" /\ limitcnt' = 0 /\ listleft' = 0 /\ UNCHANGED <<loc, found>>
  /\ UNCHANGED <<slaveVars, poolVars, handVars, callVars, queueVars, inVars>>

(* A slave below PRE_OP is not written to.                                 *)
WriteOut ==
  /\ Handling("write")
  /\ \E wkc \in {0, 1} :
       \/ /\ WriteMailbox(found.slave, mbx[found.buf], wkc)
          /\ place' = [place EXCEPT ![loc].state = IF wkc > 0 THEN "done" ELSE "fail"]
          /\ hpc' = IF wkc > 0 THEN "written" ELSE "rotate"
       \/ /\ wkc = 0 /\ UNCHANGED <<slave, lost, place>> /\ hpc' = "rotate"
  /\ UNCHANGED <<alarms, poolVars, handVars, callVars, head, tail, count, mbxticket, ticket, inVars,
                 limitcnt, listleft, loc, found>>

Written ==
  /\ Handling("written") /\ hpc' = "rotate"
  /\ Drop(found.buf) /\ place' = [place EXCEPT ![loc].buf = Null]
  /\ UNCHANGED <<slaveVars, handVars, callVars, head, tail, count, mbxticket, ticket, inVars,
                 limitcnt, listleft, loc, found>>

(* ecx_mbxrotatequeue: the entry goes to the head with its ticket.  One    *)
(* whose ticket has been given back stays.  The copy the code leaves       *)
(* behind is overwritten before it is read and is cleared here.            *)
Holders == {t \in Places : mbxticket[t] = loc}

LeaveBehind(t) == mbxticket[t]   \* a mutant

Carry(t) == IF t \in Holders THEN head ELSE mbxticket[t]

Rotate ==
  /\ Handling("rotate") /\ hpc' = "remove"
  /\ IF head # tail /\ Holders # {}
     THEN /\ mbxticket' = [t \in Places |-> Carry(t)]
          /\ place' = [place EXCEPT ![tail] = Nowhere, ![head] = place[tail]]
          /\ head' = Next1(head) /\ tail' = Next1(tail)
     ELSE UNCHANGED <<mbxticket, place, head, tail>>
  /\ UNCHANGED <<slaveVars, poolVars, handVars, callVars, count, ticket, inVars,
                 limitcnt, listleft, loc, found>>

(* ecx_mbxdropqueue, and the buffer of a request that was never written.   *)
(* In a full queue the place the handler has rotated an entry away from    *)
(* may be a new entry's by now.  If its caller has given up, the tail      *)
(* passes the entry that is there instead of this one.                     *)
Forget(b) == UNCHANGED poolVars   \* a mutant

Discard(b) == Drop(b)

DropQueue ==
  /\ Handling("remove") /\ loc' = 0 /\ found' = Nowhere
  /\ hpc' = IF place[loc].remove /\ loc # tail THEN "astray" ELSE "pick"
  /\ IF place[loc].remove
     THEN /\ Discard(place[loc].buf)
          /\ place' = [place EXCEPT ![loc] = Nowhere]
          /\ tail' = Next1(tail) /\ count' = count - 1
     ELSE UNCHANGED <<poolVars, place, tail, count>>
  /\ UNCHANGED <<slaveVars, handVars, callVars, head, mbxticket, ticket, inVars,
                 limitcnt, listleft>>

HandlerStep ==
  \/ Exchange \/ OutBegin \/ Pick \/ WriteOut \/ Written \/ Rotate \/ DropQueue
  \/ \E s \in Slaves : PassBy(s) \/ GiveUpRmp(s) \/ Rmp(s) \/ Fetch(s)
=============================================================================
