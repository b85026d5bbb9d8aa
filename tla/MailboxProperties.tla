-------------------------- MODULE MailboxProperties --------------------------
(***************************************************************************)
(* The mailbox transport as a whole: every slave is either served by the   *)
(* calling threads themselves or by the cyclic handler (mbxhandlerstate).  *)
(***************************************************************************)
EXTENDS MailboxDirect, MailboxCyclic

vars == <<slaveVars, poolVars, handVars, callVars, statex, queueVars, inVars, handlerVars, scene>>

Init == LinkInit /\ DirectInit /\ CyclicInit

Receive(c) == IF Cyclic(Target[c]) THEN "slot" ELSE "status"
Send(c) == IF Cyclic(Target[c]) THEN "add" ELSE "write"

Talk(c) == Begin(c, Receive(c)) \/ Release(c) \/ Ask(c, Send(c))
CallStep(c) ==
  \/ /\ Talk(c) \/ Expire(c)
     /\ UNCHANGED <<statex, queueVars, inVars, handlerVars>>
  \/ /\ ~Cyclic(Target[c]) /\ (DirectStep(c) \/ Turn(c))
     /\ UNCHANGED <<queueVars, inVars, handlerVars>>
  \/ Cyclic(Target[c]) /\ CyclicCall(c) /\ UNCHANGED statex

SlaveStep(s) ==
  /\ \/ Serve(s) \/ Repeat(s)
     \/ \E c \in scene.callers, k \in {"emergency", "error"} : s = Target[c] /\ Alarm(s, k)
  /\ UNCHANGED <<statex, queueVars, inVars, handlerVars>>

(* The model ends where the program does, with a message copied through    *)
(* NULL, and where the tail of a full queue has passed another entry: what *)
(* the code makes of the ring then is not modelled.                        *)
Running == hpc # "astray" /\ \A c \in Callers : pc[c] # "crashed"

Next ==
  /\ Running /\ UNCHANGED scene
  /\ \/ \E c \in Callers : CallStep(c)
     \/ \E s \in Slaves : SlaveStep(s)
     \/ scene.mode = "cyclic" /\ HandlerStep /\ UNCHANGED statex

Spec == Init /\ [][Next]_vars

-----------------------------------------------------------------------------
(* Who shares a slave: the handler's in-slot is emptied without a lock,    *)
(* and two callers that read a mailbox themselves take each other's        *)
(* answers.                                                                *)
AloneAtSlot ==
  \A c, d \in scene.callers : Cyclic(Target[c]) /\ Target[c] = Target[d] => c = d
AloneAtMailbox ==
  \A c, d \in scene.callers : ~Cyclic(Target[c]) /\ Target[c] = Target[d] => c = d
AloneAtSlave == AloneAtSlot /\ AloneAtMailbox

(* No buffer of the pool is lost or given out twice: whatever handler,     *)
(* time limits and slaves do, every buffer is free, in a caller's hands,   *)
(* in one place of the queue or in one in-slot (ecx_getmbx, ecx_dropmbx    *)
(* and the transfers of ownership between them).  It is so while no two    *)
(* callers share an in-slot, and until a full queue has gone astray: then  *)
(* an entry is outside the ring and its buffer never comes back.           *)
Owners(b) ==
  LET calls == {c \in Callers : own[c] = b}
      rings == {i \in Places : place[i].buf = b}
      slots == {s \in Slaves : coembxin[s] = b}
  IN Cardinality(calls) + Cardinality(rings) + Cardinality(slots)
       + (IF b \in mbxpool THEN 1 ELSE 0)
OneOwner == AloneAtSlot /\ Running => \A b \in Bufs : Owners(b) = 1

(* A caller's ticket stands for its own request, wherever the rotation has *)
(* carried it (ecx_mbxaddqueue, ecx_mbxrotatequeue): the one it waits for, *)
(* in the ring, for its slave.  It does so in a full queue too, until one  *)
(* has gone astray, and while no two callers share an in-slot.             *)
InRing(i) == (i - tail) % EC_MBXPOOLSIZE < count
TicketIsOwn ==
  AloneAtSlot /\ Running => \A c \in Callers : pc[c] \in {"poll", "expire"} =>
    LET i == mbxticket[ticket[c]] IN
    /\ i >= 0 /\ InRing(i) /\ place[i].slave = Target[c] /\ ~place[i].remove
    /\ place[i].buf # Null =>
         mbx[place[i].buf].by = c /\ mbx[place[i].buf].id = asked[c]
    /\ \A d \in Callers \ {c} : ticket[d] # ticket[c]

(* When mbxsend says a request was sent, the slave has it or has had it.   *)
(* A slave with two callers is excepted, and a queue gone astray.  It is   *)
(* promised as long as one of seven requests in a row arrives (OneInSeven  *)
(* of the theorem RequestsArrive; callers of the run ask less often): the  *)
(* eighth has the counter of the one taken last, and the slave drops it.   *)
SentIsThere ==
  AloneAtSlave /\ Running => \A c \in Callers : sent[c] =>
    LET s == slave[Target[c]] IN
    s.in = Request(c, asked[c], mbxcnt[Target[c]]) \/ <<c, asked[c]>> \in s.took

(* The master deals with a slave's messages once each and in their order,  *)
(* whatever datagrams are lost; it never sees only those the slave         *)
(* overwrote or an unread one kept out, and one twice only when it was     *)
(* read while the slave had not yet obeyed an earlier repeat request, for  *)
(* whose acknowledgement a receive did not wait to the end (the robust     *)
(* mailbox protocol in ecx_mbxreceive and ecx_mbxinhandler), or when it is *)
(* a mailbox error that a caller reads itself: the receive goes on after   *)
(* it, takes the empty mailbox for a loss and asks for a repeat.  A slave  *)
(* whose mailbox two callers read is excepted.                             *)
Erred(s) == ~Cyclic(s) /\ slave[s].last # Null /\ slave[s].last.kind = "error"
InOrderOnce ==
  [][AloneAtMailbox => \A s \in Slaves : seen'[s] # seen[s] =>
       LET before == IF seen[s] = <<>> THEN 0 ELSE Last(seen[s])
           now == Last(seen'[s])
       IN \/ now > before /\ before + 1 .. now - 1 \subseteq skipped'[s]
          \/ now = before /\ (slave[s].hasty \/ Erred(s))]_vars

=============================================================================
