---------------------------- MODULE MailboxDirect ----------------------------
(***************************************************************************)
(* ecx_mbxsend, ecx_mbxempty and ecx_mbxreceive (SOEM ec_main.c) for a     *)
(* slave without the cyclic handler, the way the program uses them: every  *)
(* step is one datagram of the calling thread.                             *)
(***************************************************************************)
EXTENDS MailboxLink

VARIABLE statex      \* SMstatex of the caller: the repeat bit it last read or wrote

GiveUp(c, wkc) ==
  Drop(own[c]) /\ own' = [own EXCEPT ![c] = Null] /\ Sent(c, wkc, "status")

(* A slave without mailbox or below PRE_OP is not written to.              *)
Refuse(c) == pc[c] = "write" /\ GiveUp(c, 0) /\ UNCHANGED <<slaveVars, handVars, statex>>

(* Writing the request; when it does not get through, once more as soon as *)
(* the slave's mailbox is empty.                                           *)
Write(c) ==
  /\ pc[c] \in {"write", "retry"}
  /\ \E wkc \in {0, 1} :
       /\ WriteMailbox(Target[c], mbx[own[c]], wkc)
       /\ IF wkc = 0 /\ pc[c] = "write"
          THEN Goto(c, "empty") /\ UNCHANGED <<poolVars, own, what, expired, asked, mbxcnt, sent>>
          ELSE GiveUp(c, wkc)
  /\ UNCHANGED <<alarms, handVars, statex>>

Empty(c) ==
  /\ pc[c] = "empty"
  /\ \E wkc \in {0, 1} :
       /\ Asks(Target[c], wkc)
       /\ IF wkc > 0 /\ slave[Target[c]].in = Null
          THEN Goto(c, "retry") /\ UNCHANGED <<poolVars, own, what, expired, asked, mbxcnt, sent>>
          ELSE expired[c] /\ GiveUp(c, 0)
  /\ UNCHANGED <<slave, alarms, handVars, statex>>

(* Waiting for the answer: a loop goes round until the slave has what it   *)
(* waits for or the time is over.                                          *)
Status(c) ==
  /\ pc[c] = "status"
  /\ \E wkc \in {0, 1} :
       /\ Asks(Target[c], wkc)
       /\ IF wkc > 0 /\ slave[Target[c]].out # Null
          THEN /\ Goto(c, "read")
               /\ IF mbxpool = {} THEN UNCHANGED <<mbxpool, own>>
                  ELSE Take /\ own' = [own EXCEPT ![c] = Free]
          ELSE expired[c] /\ Received(c, Null) /\ UNCHANGED mbxpool
  /\ Timeless /\ UNCHANGED <<slave, alarms, mbx, handVars, statex>>

(* do ... while (wkc <= 0 and not expired)                                 *)
Again(c, at) == IF expired[c] THEN "drop" ELSE at

(* A mailbox error is reported and its buffer dropped, but the loop goes   *)
(* on with no buffer; every other message goes to the caller, an emergency *)
(* too (the test looks at the caller's pointer instead of the message).    *)
(* Without a buffer, and with an empty pool there is none from the start,  *)
(* a message that arrives is copied through NULL and the program ends.     *)
ReadAnswer(c) ==
  /\ pc[c] = "read"
  /\ LET s == Target[c] IN
     \E wkc \in {0, 1} :
       /\ ReadMailbox(s, wkc)
       /\ CASE wkc = 0 -> Goto(c, "statex") /\ UNCHANGED <<poolVars, own, seen>>
            [] wkc = 1 /\ own[c] = Null -> Goto(c, "crashed") /\ UNCHANGED <<poolVars, own, seen>>
            [] wkc = 1 /\ own[c] # Null /\ slave[s].out.kind = "error" ->
                 /\ Drop(own[c]) /\ own' = [own EXCEPT ![c] = Null]
                 /\ Deal(s, slave[s].out.id) /\ Goto(c, Again(c, "read"))
            [] OTHER -> /\ Deal(s, slave[s].out.id)
                        /\ Received(c, own[c]) /\ UNCHANGED poolVars
  /\ Timeless /\ UNCHANGED <<alarms, skipped, statex>>

(* The read was lost.  The repeat bit is read and toggled, the slave's     *)
(* acknowledgement and the repeated message are waited for; once the time  *)
(* is over every loop falls through, and a bit never read is arbitrary.    *)
Toggled(bit) == ~bit

Statex(c) ==
  /\ pc[c] = "statex"
  /\ \E wkc \in {0, 1} :
       /\ Asks(Target[c], wkc)
       /\ IF wkc > 0 THEN statex' = [statex EXCEPT ![c] = Toggled(slave[Target[c]].repeat)]
          ELSE expired[c] /\ \E bit \in BOOLEAN : statex' = [statex EXCEPT ![c] = bit]
  /\ Goto(c, "toggle") /\ Timeless /\ UNCHANGED <<slave, alarms, poolVars, handVars, own>>

Toggle(c) ==
  /\ pc[c] = "toggle"
  /\ \E wkc \in {0, 1} : WriteRepeat(Target[c], statex[c], wkc)
  /\ Goto(c, "ack") /\ Timeless /\ UNCHANGED <<alarms, poolVars, handVars, own, statex>>

Acked(c) == slave[Target[c]].ack = statex[c]

Ack(c) ==
  /\ pc[c] = "ack"
  /\ \E wkc \in {0, 1} :
       /\ Asks(Target[c], wkc)
       /\ (wkc > 0 /\ Acked(c)) \/ expired[c]
  /\ Goto(c, "full") /\ Timeless /\ UNCHANGED <<slave, alarms, poolVars, handVars, own, statex>>

Full(c) ==
  /\ pc[c] = "full"
  /\ \E wkc \in {0, 1} :
       /\ Asks(Target[c], wkc)
       /\ (wkc > 0 /\ slave[Target[c]].out # Null) \/ expired[c]
  /\ Goto(c, Again(c, "read")) /\ Timeless
  /\ UNCHANGED <<slave, alarms, poolVars, handVars, own, statex>>

(* A turn of a waiting loop that changes nothing but may lose a datagram.  *)
Turn(c) ==
  /\ pc[c] \in {"empty", "status", "statex", "ack", "full"} /\ ~expired[c] /\ MayLose
  /\ UNCHANGED <<slave, alarms, poolVars, handVars, callVars, statex>>

DirectInit == statex = [c \in Callers |-> FALSE]

DirectStep(c) ==
  \/ Refuse(c) \/ Write(c) \/ Empty(c) \/ Status(c) \/ ReadAnswer(c)
  \/ Statex(c) \/ Toggle(c) \/ Ack(c) \/ Full(c)
=============================================================================
