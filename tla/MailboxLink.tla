----------------------------- MODULE MailboxLink -----------------------------
(***************************************************************************)
(* The mailbox buffers of the EtherCAT master (the pool of SOEM ec_main.c) *)
(* and what its datagrams do to the two mailboxes of a slave: sync manager *)
(* 0 takes requests, sync manager 1 holds answers.  A datagram is done, or *)
(* lost before or after it passed the slave.                               *)
(*                                                                         *)
(* A slave posts one message at a time, numbered in the order it posts     *)
(* them, and keeps the last one: when the repeat bit of SM1 changes and    *)
(* the mailbox is empty, it posts that message again.                      *)
(*                                                                         *)
(* A caller works through conversations as the services of ec_coe.c,       *)
(* ec_foe.c and ec_soe.c do: empty the slave's mailbox (a receive with     *)
(* time limit 0), send a request, receive the answer.                      *)
(***************************************************************************)
EXTENDS Integers, Sequences, FiniteSets, SequencesExt, TLC

CONSTANTS
  Slaves, Callers,
  Target,      \* the slave every caller talks to
  EC_MBXPOOLSIZE,   \* buffers in the pool, and places in a queue
  Scenes,      \* the scenes considered: whether the cyclic handler is enabled, the slaves
               \* with CoE, the handler's work limit, the mailbox counter of earlier
               \* requests, the callers that take part, and as bounds those of them whose
               \* time limits may pass, the requests of each, the datagrams lost and the alarms
  Null

ASSUME MailboxAssumption ==
  /\ Target \in [Callers -> Slaves] /\ EC_MBXPOOLSIZE \in Nat \ {0}
  /\ Null \notin 1 .. EC_MBXPOOLSIZE
  /\ Null \notin [kind : {"answer", "emergency", "error"}, id : Nat]
  /\ Null \notin [kind : {"request"}, by : Callers, id : Nat, cnt : Nat]
  /\ Scenes \subseteq [mode : {"direct", "cyclic"}, coe : SUBSET Slaves, limit : Int, cnt : 0 .. 7,
                       callers : SUBSET Callers, hurried : SUBSET Callers, ask : Nat, lost : Nat, alarms : Nat]

VARIABLES
  scene,       \* never changes
  mbxpool,     \* the free buffers
  mbx,         \* the request in every buffer that holds one
  slave,       \* the mailboxes of every slave
  lost, alarms,     \* losses and alarms so far
  seen,        \* numbers of the messages of every slave that the master dealt with
  skipped,     \* messages of every slave that were overwritten or overran
  pc, what,    \* where a caller is, and why it receives: "purge" or "answer"
  own,         \* the buffer a caller holds
  expired,     \* its osal_timer has run out
  asked, sent, \* its requests so far, and whether mbxsend said the last one was sent
  mbxcnt       \* mbx_cnt of every slave: the counter of the last request to it

slaveVars == <<slave, lost, alarms>>
poolVars == <<mbxpool, mbx>>
handVars == <<seen, skipped>>
callVars == <<pc, what, own, expired, asked, mbxcnt, sent>>

Bufs == 1 .. EC_MBXPOOLSIZE
Request(c, n, cnt) == [kind |-> "request", by |-> c, id |-> n, cnt |-> cnt]
Message(kind, n) == [kind |-> kind, id |-> n]

(* ec_nextmbxcnt: 0 is never used again. *)
NextMbxCnt(cnt) == IF cnt + 1 > 7 THEN 1 ELSE cnt + 1

(* soem_enable_mbx_cyclic_for_coe: every slave with CoE is served by the   *)
(* handler from then on (ecx_slavembxcyclic), the others by their callers. *)
EnableMbxCyclicForCoe == IF scene.mode = "cyclic" THEN scene.coe ELSE {}
Cyclic(s) == s \in EnableMbxCyclicForCoe

LinkInit ==
  /\ scene \in Scenes
  /\ mbxpool = Bufs /\ mbx = [b \in Bufs |-> Null]
  /\ slave = [s \in Slaves |-> [in |-> Null, out |-> Null, last |-> Null, missed |-> FALSE,
                                repeat |-> FALSE, ack |-> FALSE, hasty |-> FALSE,
                                posted |-> 0, cnt |-> scene.cnt, took |-> {}]]
  /\ lost = 0 /\ alarms = 0
  /\ seen = [s \in Slaves |-> <<>>] /\ skipped = [s \in Slaves |-> {}]
  /\ pc = [c \in Callers |-> "rest"] /\ what = [c \in Callers |-> "purge"]
  /\ own = [c \in Callers |-> Null] /\ expired = [c \in Callers |-> FALSE]
  /\ asked = [c \in Callers |-> 0] /\ sent = [c \in Callers |-> FALSE]
  /\ mbxcnt = [s \in Slaves |-> scene.cnt]

(***************************************************************************)
(* The pool: ecx_getmbx and ecx_dropmbx.  Which of the free buffers is     *)
(* taken and what a free one contains makes no difference.                 *)
(***************************************************************************)
Free == CHOOSE b \in mbxpool : \A d \in mbxpool : b <= d

Take == mbxpool' = mbxpool \ {Free}

Drop(b) ==
  /\ mbxpool' = mbxpool \cup ({b} \cap Bufs)
  /\ mbx' = IF b \in Bufs THEN [mbx EXCEPT ![b] = Null] ELSE mbx

(***************************************************************************)
(* A slave.  It obeys the repeat bit before it posts another message.      *)
(***************************************************************************)
Post(s, v, kind) ==
  LET n == v.posted + 1 IN
  [v EXCEPT !.out = Message(kind, n), !.last = Message(kind, n), !.posted = n, !.missed = FALSE,
            !.hasty = FALSE]
Obeyed(s) == slave[s].repeat = slave[s].ack
Overwrites(s) == IF slave[s].missed THEN {slave[s].last.id} ELSE {}

(* A request with the counter of the one before is that one written twice, *)
(* and is dropped.                                                         *)
Serve(s) ==
  /\ slave[s].in # Null /\ slave[s].out = Null /\ Obeyed(s)
  /\ LET v == slave[s]
         taken == [v EXCEPT !.in = Null, !.cnt = v.in.cnt, !.took = @ \cup {<<v.in.by, v.in.id>>}]
     IN
     IF v.in.cnt = v.cnt
     THEN slave' = [slave EXCEPT ![s].in = Null] /\ UNCHANGED skipped
     ELSE /\ slave' = [slave EXCEPT ![s] = Post(s, taken, "answer")]
          /\ skipped' = [skipped EXCEPT ![s] = @ \cup Overwrites(s)]
  /\ UNCHANGED <<poolVars, lost, alarms, seen, callVars>>

Alarm(s, kind) ==
  /\ alarms < scene.alarms /\ slave[s].out = Null /\ Obeyed(s)
  /\ alarms' = alarms + 1
  /\ slave' = [slave EXCEPT ![s] = Post(s, @, kind)]
  /\ skipped' = [skipped EXCEPT ![s] = @ \cup Overwrites(s)]
  /\ UNCHANGED <<poolVars, lost, seen, callVars>>

Repeat(s) ==
  /\ ~Obeyed(s)
  /\ slave' = [slave EXCEPT ![s].ack = slave[s].repeat, ![s].missed = FALSE,
                            ![s].out = IF @ = Null THEN slave[s].last ELSE @]
  /\ UNCHANGED <<poolVars, lost, alarms, handVars, callVars>>

(***************************************************************************)
(* Datagrams.  A register that is read is answered or lost; a mailbox is   *)
(* only touched when it is full (read) or empty (write).  A read is hasty   *)
(* when the slave has a repeat bit to obey yet.                            *)
(***************************************************************************)
MayLose == lost < scene.lost /\ lost' = lost + 1

Asks(s, wkc) ==
  \/ wkc = 1 /\ UNCHANGED lost
  \/ wkc = 0 /\ MayLose

ReadMailbox(s, wkc) ==
  \/ /\ wkc = 1 /\ slave[s].out # Null
     /\ slave' = [slave EXCEPT ![s].out = Null, ![s].hasty = ~Obeyed(s)] /\ UNCHANGED lost
  \/ /\ wkc = 0 /\ slave[s].out = Null /\ UNCHANGED <<slave, lost>>
  \/ /\ wkc = 0 /\ MayLose
     /\ \/ UNCHANGED slave
        \/ slave[s].out # Null /\ slave' = [slave EXCEPT ![s].out = Null, ![s].missed = TRUE]

WriteMailbox(s, m, wkc) ==
  LET full == [slave EXCEPT ![s].in = m] IN
  \/ wkc = 1 /\ slave[s].in = Null /\ slave' = full /\ UNCHANGED lost
  \/ wkc = 0 /\ slave[s].in # Null /\ UNCHANGED <<slave, lost>>
  \/ wkc = 0 /\ MayLose /\ \/ UNCHANGED slave
                           \/ slave[s].in = Null /\ slave' = full

WriteRepeat(s, bit, wkc) ==
  LET set == [slave EXCEPT ![s].repeat = bit] IN
  \/ wkc = 1 /\ slave' = set /\ UNCHANGED lost
  \/ wkc = 0 /\ MayLose /\ slave' \in {slave, set}

(***************************************************************************)
(* A caller.                                                               *)
(***************************************************************************)
Goto(c, at) == pc' = [pc EXCEPT ![c] = at]
Timeless == UNCHANGED <<what, expired, asked, mbxcnt, sent>>

Deal(s, n) == seen' = [seen EXCEPT ![s] = Append(@, n)]

Expire(c) ==
  /\ c \in scene.hurried
  /\ pc[c] \notin {"rest", "ask", "drop", "grab", "clear"} /\ ~expired[c]
  /\ expired' = [expired EXCEPT ![c] = TRUE]
  /\ UNCHANGED <<slaveVars, poolVars, handVars, pc, what, own, asked, mbxcnt, sent>>

(* The conversation: the mailbox is emptied without waiting.               *)
Begin(c, receive) ==
  /\ pc[c] = "rest" /\ c \in scene.callers /\ asked[c] < scene.ask
  /\ Goto(c, receive) /\ what' = [what EXCEPT ![c] = "purge"]
  /\ expired' = [expired EXCEPT ![c] = TRUE]
  /\ UNCHANGED <<slaveVars, poolVars, handVars, own, asked, mbxcnt, sent>>

(* A receive is over; what it brought is given back to the pool in the end.*)
Received(c, b) == Goto(c, "drop") /\ own' = [own EXCEPT ![c] = b]

Release(c) ==
  /\ pc[c] = "drop"
  /\ Drop(own[c]) /\ own' = [own EXCEPT ![c] = Null]
  /\ Goto(c, IF what[c] = "purge" THEN "ask" ELSE "rest")
  /\ what' = [what EXCEPT ![c] = "purge"] /\ expired' = [expired EXCEPT ![c] = FALSE]
  /\ UNCHANGED <<slaveVars, handVars, asked, mbxcnt, sent>>

Ask(c, send) ==
  /\ pc[c] = "ask" /\ sent' = [sent EXCEPT ![c] = FALSE]
  /\ IF mbxpool = {}
     THEN Goto(c, "rest") /\ UNCHANGED <<poolVars, own, asked, mbxcnt>>
     ELSE /\ asked' = [asked EXCEPT ![c] = @ + 1]
          /\ mbxcnt' = [mbxcnt EXCEPT ![Target[c]] = NextMbxCnt(@)]
          /\ Take /\ own' = [own EXCEPT ![c] = Free]
          /\ mbx' = [mbx EXCEPT ![Free] = Request(c, asked[c] + 1, mbxcnt'[Target[c]])]
          /\ Goto(c, send)
  /\ UNCHANGED <<slaveVars, handVars, what, expired>>

(* mbxsend has returned wkc; a request that was sent is waited for.        *)
Sent(c, wkc, receive) ==
  /\ sent' = [sent EXCEPT ![c] = wkc > 0]
  /\ IF wkc > 0
     THEN /\ Goto(c, receive) /\ what' = [what EXCEPT ![c] = "answer"]
     ELSE Goto(c, "rest") /\ UNCHANGED what
  /\ expired' = [expired EXCEPT ![c] = FALSE]
  /\ UNCHANGED <<asked, mbxcnt>>
=============================================================================
