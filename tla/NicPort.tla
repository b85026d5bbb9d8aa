------------------------------ MODULE NicPort ------------------------------
(***************************************************************************)
(* The Ethernet port of the EtherCAT master (oshw/win32/nicdrv.c and the   *)
(* primitives of ec_base.c), shared by the threads of the program: the PDO *)
(* loop, the SDO worker and the automation thread.  Every request owns an  *)
(* index; the frame carries it round the ring and comes back to the one    *)
(* socket of the port, where any waiting thread may be the one to read it. *)
(*                                                                         *)
(* A frame is its index and a tag that names the request it was built for. *)
(* One step of a thread is one critical section, or the code between two   *)
(* accesses to the shared arrays.                                          *)
(***************************************************************************)
EXTENDS Integers, Sequences, FiniteSets, SequencesExt

CONSTANTS
  Blocking,   \* threads that call the blocking primitives (srconfirm)
  Cyclic,     \* threads that send process data and receive it later
  MaxBuf,     \* EC_MAXBUF
  Burst,      \* frames of one process data cycle
  MaxTries,   \* transmissions that fit in the time limit of srconfirm
  Rounds,     \* requests of each thread (bound)
  MaxLoss,    \* frames the ring loses although a request waits for them (bound)
  MaxFail,    \* sends that fail at the socket (bound)
  Null

ASSUME PortAssumption ==
  /\ IsFiniteSet(Blocking) /\ IsFiniteSet(Cyclic) /\ Blocking \cap Cyclic = {}
  /\ Null \notin Blocking \cup Cyclic
  /\ MaxBuf \in Nat \ {0} /\ Burst \in Nat \ {0} /\ MaxTries \in Nat \ {0}
  /\ Rounds \in [Blocking \cup Cyclic -> Nat] /\ MaxLoss \in Nat /\ MaxFail \in Nat

Threads == Blocking \cup Cyclic
Indexes == 0 .. MaxBuf - 1

VARIABLES
  lastidx,   \* port->lastidx
  stat,      \* port->rxbufstat
  txbuf,     \* the request each transmit buffer was last built for
  rxbuf,     \* the request whose answer each receive buffer holds
  wire,      \* frames on the ring and in the socket, oldest first
  rxlock,    \* the thread that holds rx_mutex
  pc,        \* where each thread is
  own,       \* the [idx, tag] pairs a thread has allocated, oldest first
  round,     \* requests a thread has begun
  tries,     \* transmissions of the request so far
  hand,      \* another request's frame, read and not yet stored
  answer,    \* what the last wait came to: "none", "frame" or "noframe"
  losses,    \* frames lost so far that a request waited for
  failed,    \* requests whose send failed at the socket
  strays     \* frames stored after the request had given up

portVars == <<lastidx, stat, txbuf, rxbuf, wire, rxlock>>
threadVars == <<pc, own, round, tries, hand, answer>>
vars == <<lastidx, stat, txbuf, rxbuf, wire, rxlock, pc, own, round, tries,
          hand, answer, losses, failed, strays>>

Tag(t) == <<t, round[t], Len(own[t])>>
First(t) == own[t][1].idx
Owned(t) == {own[t][n].idx : n \in DOMAIN own[t]}
Polling(t) == pc[t] \in {"poll", "again"}

(* ecx_setupnic for the primary port: every buffer is free.                *)
Init ==
  /\ lastidx = 0 /\ stat = [i \in Indexes |-> "empty"]
  /\ txbuf = [i \in Indexes |-> Null] /\ rxbuf = [i \in Indexes |-> Null]
  /\ wire = <<>> /\ rxlock = Null
  /\ pc = [t \in Threads |-> "idle"] /\ own = [t \in Threads |-> <<>>]
  /\ round = [t \in Threads |-> 0] /\ tries = [t \in Threads |-> 0]
  /\ hand = [t \in Threads |-> Null]
  /\ answer = [t \in Threads |-> "none"]
  /\ losses = 0 /\ failed = {} /\ strays = 0

(***************************************************************************)
(* ecx_getindex: the first free index after the last one given out, or,    *)
(* when a whole turn finds none, the one it started from.                  *)
(***************************************************************************)
NextIndex ==
  LET nth(k) == (lastidx + k) % MaxBuf
      free == {k \in 1 .. MaxBuf : stat[nth(k)] = "empty"}
  IN  IF free = {} THEN nth(1) ELSE nth(CHOOSE k \in free : \A j \in free : k <= j)

(* The one assumption on time: an index comes round again only after all   *)
(* the others were used, and by then a frame that carried it has arrived   *)
(* and been read or is lost, and a thread that held it has stored it.      *)
Settled(i) ==
  /\ \A n \in DOMAIN wire : wire[n].idx # i
  /\ \A t \in Threads : pc[t] = "store" => hand[t].idx # i

GetIndex(t) ==
  /\ pc[t] = "idle" /\ round[t] < Rounds[t]
  /\ LET i == NextIndex IN
     /\ Settled(i)
     /\ stat' = [stat EXCEPT ![i] = "alloc"] /\ lastidx' = i
     /\ own' = [own EXCEPT ![t] = Append(@, [idx |-> i, tag |-> Tag(t)])]
     /\ txbuf' = [txbuf EXCEPT ![i] = Tag(t)]      \* ecx_setupdatagram
  /\ pc' = [pc EXCEPT ![t] = "out"] /\ tries' = [tries EXCEPT ![t] = 0]
  /\ UNCHANGED <<rxbuf, wire, rxlock, round, hand, answer, losses, failed, strays>>

(***************************************************************************)
(* ecx_outframe: mark the buffer and send it.  A send error frees the      *)
(* buffer; no caller looks at the result.                                  *)
(***************************************************************************)
Outframe(t, i) ==
  \/ /\ stat' = [stat EXCEPT ![i] = "tx"]
     /\ wire' = Append(wire, [idx |-> i, tag |-> txbuf[i]])
     /\ failed' = failed
  \/ /\ Cardinality(failed) < MaxFail
     /\ stat' = [stat EXCEPT ![i] = "empty"] /\ wire' = wire
     /\ failed' = failed \cup {Last(own[t]).tag}

(* The caller of ecx_outframe_red: the process data loop goes on with its  *)
(* next frame, everyone else starts a timer and waits.                     *)
SendFrame(t) ==
  /\ pc[t] = "out"
  /\ Outframe(t, Last(own[t]).idx)
  /\ tries' = [tries EXCEPT ![t] = @ + 1]
  /\ pc' = [pc EXCEPT ![t] = IF t \in Cyclic /\ Len(own[t]) < Burst
                             THEN "idle" ELSE "poll"]
  /\ UNCHANGED <<lastidx, txbuf, rxbuf, rxlock, own, round, hand, answer, losses, strays>>

(***************************************************************************)
(* ecx_inframe.  The first look at the buffer is outside rx_mutex, the     *)
(* second one, the read of the socket and the storing are inside.          *)
(***************************************************************************)
Complete(t) ==
  /\ stat' = [stat EXCEPT ![First(t)] = "complete"]
  /\ answer' = [answer EXCEPT ![t] = "frame"] /\ pc' = [pc EXCEPT ![t] = "done"]

TakeStored(t) ==
  /\ Polling(t) /\ stat[First(t)] = "rcvd"
  /\ Complete(t)
  /\ UNCHANGED <<lastidx, txbuf, rxbuf, wire, rxlock, own, round, tries, hand, losses, failed, strays>>

(* The look that found nothing may lie before a frame stored meanwhile.    *)
EnterRx(t) ==
  /\ Polling(t)
  /\ rxlock = Null /\ rxlock' = t
  /\ pc' = [pc EXCEPT ![t] = "locked"]
  /\ UNCHANGED <<lastidx, stat, txbuf, rxbuf, wire, own, round, tries, hand, answer, losses, failed, strays>>

TakeStoredLocked(t) ==
  /\ pc[t] = "locked" /\ stat[First(t)] = "rcvd"
  /\ Complete(t) /\ rxlock' = Null
  /\ UNCHANGED <<lastidx, txbuf, rxbuf, wire, own, round, tries, hand, losses, failed, strays>>

(* ecx_recvpkt finds nothing: the frames, if any, are still on the ring.   *)
NothingYet(t) ==
  /\ pc[t] = "locked" /\ stat[First(t)] # "rcvd"
  /\ rxlock' = Null /\ pc' = [pc EXCEPT ![t] = "again"]
  /\ UNCHANGED <<lastidx, stat, txbuf, rxbuf, wire, own, round, tries, hand, answer, losses, failed, strays>>

(* A mutant: any frame will do.                                            *)
ReadAnyFrame(t) ==
  /\ pc[t] = "locked" /\ stat[First(t)] # "rcvd" /\ wire # <<>>
  /\ rxbuf' = [rxbuf EXCEPT ![First(t)] = Head(wire).tag] /\ wire' = Tail(wire)
  /\ Complete(t) /\ rxlock' = Null
  /\ UNCHANGED <<lastidx, txbuf, own, round, tries, hand, losses, failed, strays>>

ReadOwnFrame(t) ==
  /\ pc[t] = "locked" /\ stat[First(t)] # "rcvd"
  /\ wire # <<>> /\ Head(wire).idx = First(t)
  /\ rxbuf' = [rxbuf EXCEPT ![First(t)] = Head(wire).tag] /\ wire' = Tail(wire)
  /\ Complete(t) /\ rxlock' = Null
  /\ UNCHANGED <<lastidx, txbuf, own, round, tries, hand, losses, failed, strays>>

(* Another request's frame: kept if its buffer is marked as sent, else     *)
(* dropped ("strange things happened").                                    *)
ReadOtherFrame(t) ==
  /\ pc[t] = "locked" /\ stat[First(t)] # "rcvd"
  /\ wire # <<>> /\ Head(wire).idx # First(t)
  /\ wire' = Tail(wire)
  /\ IF stat[Head(wire).idx] = "tx"
     THEN /\ hand' = [hand EXCEPT ![t] = Head(wire)]
          /\ pc' = [pc EXCEPT ![t] = "store"] /\ rxlock' = rxlock
     ELSE /\ hand' = hand
          /\ pc' = [pc EXCEPT ![t] = "again"] /\ rxlock' = Null
  /\ UNCHANGED <<lastidx, stat, txbuf, rxbuf, own, round, tries, answer, losses, failed, strays>>

StoreOther(t) ==
  /\ pc[t] = "store"
  /\ rxbuf' = [rxbuf EXCEPT ![hand[t].idx] = hand[t].tag]
  /\ stat' = [stat EXCEPT ![hand[t].idx] = "rcvd"]
  /\ strays' = strays + IF \E u \in Threads : hand[t].idx \in Owned(u) THEN 0 ELSE 1
  /\ hand' = [hand EXCEPT ![t] = Null] /\ rxlock' = Null
  /\ pc' = [pc EXCEPT ![t] = "again"]
  /\ UNCHANGED <<lastidx, txbuf, wire, own, round, tries, answer, losses, failed>>

(***************************************************************************)
(* The loop of ecx_waitinframe_red in single NIC mode, and the one of      *)
(* ecx_srconfirm round it.  Between two polls the timer may have expired   *)
(* (osal_timer_is_expired): the frame is sent again while the request's    *)
(* own time limit allows it, or the request ends without an answer.        *)
(***************************************************************************)
Resend(t) ==
  /\ pc[t] = "again" /\ t \in Blocking /\ tries[t] < MaxTries
  /\ pc' = [pc EXCEPT ![t] = "out"]
  /\ UNCHANGED <<portVars, own, round, tries, hand, answer, losses, failed, strays>>

GiveUp(t) ==
  /\ pc[t] = "again"
  /\ pc' = [pc EXCEPT ![t] = "done"] /\ answer' = [answer EXCEPT ![t] = "noframe"]
  /\ UNCHANGED <<portVars, own, round, tries, hand, losses, failed, strays>>

(***************************************************************************)
(* The end of a primitive, and of one turn of the loop of                  *)
(* ecx_receive_processdata_group: the data is copied out of the buffer     *)
(* if the frame came, and the buffer is freed with ecx_setbufstat.         *)
(***************************************************************************)
Release(t) ==
  /\ pc[t] = "done"
  /\ stat' = [stat EXCEPT ![First(t)] = "empty"]
  /\ own' = [own EXCEPT ![t] = Tail(@)]
  /\ answer' = [answer EXCEPT ![t] = "none"]
  /\ IF Len(own[t]) = 1
     THEN pc' = [pc EXCEPT ![t] = "idle"] /\ round' = [round EXCEPT ![t] = @ + 1]
     ELSE pc' = [pc EXCEPT ![t] = "poll"] /\ round' = round
  /\ UNCHANGED <<lastidx, txbuf, rxbuf, wire, rxlock, tries, hand, losses, failed, strays>>

(* The ring loses a frame. *)
Lose ==
  /\ \E n \in DOMAIN wire :
       /\ wire' = RemoveAt(wire, n)
       /\ IF \E t \in Threads : wire[n].idx \in Owned(t)
          THEN losses < MaxLoss /\ losses' = losses + 1
          ELSE UNCHANGED losses
  /\ UNCHANGED <<lastidx, stat, txbuf, rxbuf, rxlock, threadVars, failed, strays>>

Step(t) ==
  \/ GetIndex(t) \/ SendFrame(t) \/ TakeStored(t) \/ EnterRx(t)
  \/ TakeStoredLocked(t) \/ NothingYet(t) \/ ReadOwnFrame(t) \/ ReadOtherFrame(t)
  \/ StoreOther(t) \/ Resend(t) \/ GiveUp(t) \/ Release(t)

Next == Lose \/ \E t \in Threads : Step(t)

Spec == Init /\ [][Next]_vars

-----------------------------------------------------------------------------
(***************************************************************************)
(* Properties.                                                             *)
(***************************************************************************)
OneOwner ==
  \A t, u \in Threads : \A n \in DOMAIN own[t], m \in DOMAIN own[u] :
    own[t][n].idx = own[u][m].idx => t = u /\ n = m
OwnAnswer == \A t \in Threads : answer[t] = "frame" => rxbuf[First(t)] = own[t][1].tag

(* The indexes left over when every thread has all its frames under way.   *)
Spare == MaxBuf - (Cardinality(Blocking) + Burst * Cardinality(Cyclic))

(* No index has two owners, whatever is lost, late or sent twice and       *)
(* whichever thread reads a frame: the scan of ecx_getindex and the        *)
(* releases of the primitives keep the buffers apart.  Two faults wear     *)
(* this out: a send error frees an index in use, and a frame stored after  *)
(* its request has given up keeps its index for good.                      *)
(* The answer a primitive copies out of its buffer is the answer to its    *)
(* own request, not that of a request that used the index before or of     *)
(* another thread.                                                         *)
AnswerIsOwn == failed = {} /\ strays <= Spare => OneOwner /\ OwnAnswer
=============================================================================
