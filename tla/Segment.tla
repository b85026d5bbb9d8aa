------------------------------ MODULE Segment ------------------------------
(***************************************************************************)
(* An EtherCAT segment in line and the addressed datagrams of SOEM         *)
(* (ec_base.c).  Place s of the line holds the device places[s]; only the  *)
(* first reach places are connected.  A datagram is executed by every      *)
(* device it addresses and comes back with the number of them, or is lost  *)
(* before or after the devices saw it.  AL states are the numbers of the   *)
(* AL status register, 16 is the error (or acknowledge) bit.               *)
(***************************************************************************)
EXTENDS Integers, Sequences, FiniteSets, FiniteSetsExt, TLC

CONSTANTS
  Slaves,      \* 1 .. slavecount, a slave's number is its place
  Spares,      \* devices that may take the place of another
  Identity,    \* what a device is known by: its Words
  MaxEvents,   \* changes of the line or of a device from outside (bound)
  MaxLoss,     \* datagrams lost (bound)
  MaxSlow,     \* state changes that outlast the master's patience (bound)
  MaxTrouble   \* of all these together

Devices == Slaves \cup Spares

(* The alias address, and product, manufacturer and revision of the EEPROM.*)
Words == {"alias", "id", "man", "rev"}

ASSUME SegmentAssumption ==
  /\ IsFiniteSet(Slaves) /\ Slaves # {} /\ Slaves = 1 .. Cardinality(Slaves)
  /\ Spares \cap Slaves = {}
  /\ Identity \in [Devices -> [Words -> Nat]]
  /\ MaxEvents \in Nat /\ MaxLoss \in Nat /\ MaxSlow \in Nat /\ MaxTrouble \in Nat

VARIABLES
  places,    \* the device at every place
  reach,     \* how many places are connected
  dev,       \* registers of every device
  events, losses, slow   \* budgets used

lineVars == <<places, reach>>
segmentVars == <<places, reach, dev, events, losses, slow>>

None == 0
INIT == 1
PREOP == 2
SAFEOP == 4
OP == 8
ERROR == 16        \* EC_STATE_ERROR, and EC_STATE_ACK in a request
State(al) == al % ERROR
IsError(al) == al >= ERROR

TEMP == Cardinality(Slaves) + 1   \* EC_TEMPNODE
Nowhere == TEMP + 1               \* an address nobody has (0xfffe)

(* A device after power-on: no station address, nothing programmed.        *)
Fresh == [adr |-> 0, al |-> INIT, want |-> None, sm |-> FALSE, fmmu |-> FALSE]

Trouble == events + losses + slow < MaxTrouble

Connected == {places[s] : s \in {t \in Slaves : t <= reach}}

(* Who executes a datagram: all, the one at a place, those with an address.*)
Broadcast == Connected
At(s) == IF s <= reach THEN {places[s]} ELSE {}
Addressed(a) == {d \in Connected : dev[d].adr = a}

(***************************************************************************)
(* One datagram, executed by hits: written is what the registers of each   *)
(* device would be after it.                                               *)
(***************************************************************************)
Datagram(hits, written, wkc) ==
  LET done == [d \in Devices |-> IF d \in hits THEN written[d] ELSE dev[d]] IN
  \/ wkc = Cardinality(hits) /\ dev' = done /\ UNCHANGED losses
  \/ /\ wkc = -1 /\ losses < MaxLoss /\ Trouble
     /\ losses' = losses + 1 /\ dev' \in {dev, done}

Counters == {-1} \cup 0 .. Cardinality(Slaves)
Read(hits, wkc) == wkc \in Counters /\ Datagram(hits, dev, wkc)

BRD(wkc) == Read(Broadcast, wkc)
BWR(written, wkc) == wkc \in Counters /\ Datagram(Broadcast, written, wkc)
APRD(s, wkc) == Read(At(s), wkc)
APWR(s, written, wkc) == wkc \in Counters /\ Datagram(At(s), written, wkc)
FPRD(a, wkc) == Read(Addressed(a), wkc)
FPWR(a, written, wkc) == wkc \in Counters /\ Datagram(Addressed(a), written, wkc)

(* Several devices with one address: the last one on the line answers.     *)
Answering(hits) == places[Max({s \in Slaves : places[s] \in hits})]

(* The data is taken over only when somebody answered; the word variants   *)
(* return zero otherwise.                                                  *)
Taken(wkc, hits, value, old) == IF wkc > 0 THEN value[Answering(hits)] ELSE old

(* A broadcast read brings the bitwise or of all answers; a state is one   *)
(* bit.                                                                    *)
Shown(st) == IF \E d \in Connected : State(dev[d].al) = st THEN st ELSE 0
OredStates ==
  Shown(INIT) + Shown(PREOP) + Shown(SAFEOP) + Shown(OP)
    + IF \E d \in Connected : IsError(dev[d].al) THEN ERROR ELSE 0

(* The writes the functions make.  A device takes no further request       *)
(* before it has read the last one.                                        *)
Requested(al) == [d \in Devices |-> IF dev[d].want = None THEN [dev[d] EXCEPT !.want = al] ELSE dev[d]]
Named(a) == [d \in Devices |-> [dev[d] EXCEPT !.adr = a]]

(***************************************************************************)
(* The devices.  A request is served some time later: INIT always, other   *)
(* states step by step and only with the sync managers programmed; in the  *)
(* error state only with the acknowledge bit.  A refusal shows the error.  *)
(***************************************************************************)
Reachable(r, target) ==
  CASE target = PREOP -> r.sm
    [] target = SAFEOP -> State(r.al) \in {PREOP, SAFEOP, OP}
    [] target = OP -> State(r.al) \in {SAFEOP, OP}
    [] OTHER -> FALSE

Served(r) ==
  LET target == State(r.want)
      ack == IsError(r.want) IN
  [r EXCEPT !.want = None,
            !.al = IF target = INIT THEN INIT
                   ELSE IF IsError(r.al) /\ ~ack THEN r.al
                   ELSE IF Reachable(r, target) THEN target
                   ELSE State(r.al) + ERROR]

Serve(d) ==
  /\ dev[d].want # None
  /\ dev' = [dev EXCEPT ![d] = Served(dev[d])]
  /\ UNCHANGED <<lineVars, events, losses, slow>>

(* From outside: the cable behind place k is pulled, it is joined again    *)
(* with devices that kept their power, were switched off or were replaced  *)
(* (by one that comes without power), a device restarts, or leaves OP with *)
(* an error.                                                               *)
Event == events < MaxEvents /\ Trouble /\ events' = events + 1 /\ UNCHANGED <<losses, slow>>

SwitchedOff(off) == [d \in Devices |-> IF d \in off THEN Fresh ELSE dev[d]]

Cut ==
  /\ Event
  /\ \E k \in 0 .. reach - 1 : reach' = k
  /\ UNCHANGED <<places, dev>>

Join ==
  /\ Event
  /\ reach < Cardinality(Slaves) /\ reach' = Cardinality(Slaves)
  /\ \E off \in SUBSET {places[s] : s \in {t \in Slaves : t > reach}} :
       \/ UNCHANGED places /\ dev' = SwitchedOff(off)
       \/ \E s \in Slaves, x \in Spares :
            /\ s > reach /\ \A t \in Slaves : places[t] # x
            /\ places' = [places EXCEPT ![s] = x] /\ dev' = SwitchedOff(off \cup {x})

Restart(d) ==
  /\ Event /\ d \in Connected
  /\ dev' = [dev EXCEPT ![d] = Fresh]
  /\ UNCHANGED lineVars

Fail(d) ==
  /\ Event /\ d \in Connected /\ dev[d].al = OP
  /\ dev' = [dev EXCEPT ![d].al = SAFEOP + ERROR]
  /\ UNCHANGED lineVars

Outside == Cut \/ Join \/ \E d \in Devices : Restart(d) \/ Fail(d)
Device == \E d \in Devices : Serve(d)
=============================================================================
