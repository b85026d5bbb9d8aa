------------------------------ MODULE ErrorList ------------------------------
(***************************************************************************)
(* The error list of the EtherCAT master (SOEM ec_main.c): a ring that     *)
(* every function of the library pushes its errors on and that the         *)
(* program pops.  It has no lock: a push stores the error, then moves the  *)
(* head, then the tail if the ring was full; a pop looks, takes, and moves *)
(* the tail; two threads may do these steps in any order.                  *)
(***************************************************************************)
EXTENDS Integers, Sequences, FiniteSets

CONSTANTS
  MaxElist,   \* EC_MAXELIST: the ring has one slot more
  Threads,
  NoError

ASSUME ErrorListAssumption == MaxElist \in Nat \ {0}

VARIABLES
  head, tail, ring,   \* elist.head, elist.tail, elist.Error
  ecaterror,
  place,        \* where each thread is in ecx_pusherror or ecx_poperror
  ec,        \* the error each thread pushes or has popped
  log,       \* the errors pushed and neither popped nor overwritten since
  due,       \* what each thread should get from its pop, by the log
  met        \* two threads have been in the list at once

listVars == <<head, tail, ring, ecaterror, place, ec, log, due, met>>

Slots == 0 .. MaxElist
Inside == {t \in Threads : place[t] # "out"}
Garbage == <<"garbage">>   \* read from beyond the ring

ListInit ==
  /\ head = 0 /\ tail = 0 /\ ring = [s \in Slots |-> NoError] /\ ecaterror = FALSE
  /\ place = [t \in Threads |-> "out"] /\ ec = [t \in Threads |-> NoError]
  /\ log = <<>> /\ due = [t \in Threads |-> NoError] /\ met = FALSE

EnterList(t, where) ==
  /\ place[t] = "out" /\ place' = [place EXCEPT ![t] = where]
  /\ met' = (met \/ Inside # {})

Wrapped(n) == IF n > MaxElist THEN 0 ELSE n

(* Of more errors than there is room for, the last ones stay.              *)
Latest(s) == IF Len(s) > MaxElist THEN Tail(s) ELSE s

-----------------------------------------------------------------------------
(* ecx_pusherror.                                                          *)
Push(t, e) ==
  /\ EnterList(t, "store") /\ ec' = [ec EXCEPT ![t] = e]
  /\ log' = Latest(Append(log, e))
  /\ UNCHANGED <<head, tail, ring, ecaterror, due>>

Store(t) ==
  /\ place[t] = "store" /\ place' = [place EXCEPT ![t] = "head"]
  /\ ring' = IF head \in Slots THEN [ring EXCEPT ![head] = ec[t]] ELSE ring
  /\ UNCHANGED <<head, tail, ecaterror, ec, log, due, met>>

MoveHead(t) ==
  /\ place[t] = "head" /\ place' = [place EXCEPT ![t] = "full"] /\ head' = Wrapped(head + 1)
  /\ UNCHANGED <<tail, ring, ecaterror, ec, log, due, met>>

KeepOldest(t) ==   \* a mutant: the tail stays when the ring is full
  /\ place[t] = "full" /\ place' = [place EXCEPT ![t] = "out"] /\ ecaterror' = TRUE
  /\ UNCHANGED <<head, tail, ring, ec, log, due, met>>

DropOldest(t) ==
  /\ place[t] = "full" /\ place' = [place EXCEPT ![t] = "out"] /\ ecaterror' = TRUE
  /\ tail' = IF head = tail THEN Wrapped(tail + 1) ELSE tail
  /\ UNCHANGED <<head, ring, ec, log, due, met>>

(* What the library pushes: the origin of the error and its type.  The     *)
(* first two come out of a transfer that fails, the others out of any      *)
(* mailbox that is received meanwhile.                                     *)
SDOerror(t, of) == Push(t, Append(of, "SDO_ERROR"))
PacketError(t, of) == Push(t, Append(of, "PACKET_ERROR"))
MbxError(t, of) == Push(t, Append(of, "MBX_ERROR"))
MbxEmergencyError(t, of) == Push(t, Append(of, "EMERGENCY"))

(* ecx_err2string: every type is told with its origin, an abort with the   *)
(* whole abort code, the others with the 16 bits of the error code.        *)
Err2String(e) ==
  [error |-> e, bits |-> IF Len(e) > 0 /\ e[Len(e)] = "SDO_ERROR" THEN 32 ELSE 16]

-----------------------------------------------------------------------------
(* ecx_poperror: on an empty list the caller gets the last error once more *)
(* and is told so.                                                         *)
Pop(t) ==
  /\ EnterList(t, IF head # tail THEN "take" ELSE "take none")
  /\ due' = [due EXCEPT ![t] = IF log = <<>> THEN NoError ELSE Head(log)]
  /\ log' = IF log = <<>> THEN log ELSE Tail(log)
  /\ UNCHANGED <<head, tail, ring, ecaterror, ec>>

Take(t) ==
  /\ place[t] = "take" /\ place' = [place EXCEPT ![t] = "tail"]
  /\ ec' = [ec EXCEPT ![t] = IF tail \in Slots THEN ring[tail] ELSE Garbage]
  /\ UNCHANGED <<head, tail, ring, ecaterror, log, due, met>>

TakeNone(t) ==
  /\ place[t] = "take none" /\ place' = [place EXCEPT ![t] = "out"]
  /\ ec' = [ec EXCEPT ![t] = NoError] /\ ecaterror' = FALSE
  /\ UNCHANGED <<head, tail, ring, log, due, met>>

MoveTail(t) ==
  /\ place[t] = "tail" /\ place' = [place EXCEPT ![t] = "out"] /\ tail' = Wrapped(tail + 1)
  /\ UNCHANGED <<head, ring, ecaterror, ec, log, due, met>>

PushStep(t) == Store(t) \/ MoveHead(t) \/ DropOldest(t)
PopStep(t) == Take(t) \/ TakeNone(t) \/ MoveTail(t)

(* ecx_iserror. *)
ErrorWaits == head # tail

(* memset of the context by soem_open, whoever is in the list meanwhile.   *)
Reset ==
  /\ head' = 0 /\ tail' = 0 /\ ring' = [s \in Slots |-> NoError] /\ ecaterror' = FALSE
  /\ log' = <<>> /\ met' = (met \/ Inside # {})
  /\ UNCHANGED <<place, ec, due>>
=============================================================================
