----------------------------- MODULE ClockSetup -----------------------------
(***************************************************************************)
(* Topology and distributed clocks (SOEM ec_config.c, ec_dc.c): the parent *)
(* of every slave, the ports its frame enters and leaves by, the delay     *)
(* from the reference clock to it, the time of its first sync pulse.       *)
(*                                                                         *)
(* A frame leaves a slave by the ports 3, 1, 2 in turn and a slave latches *)
(* the time at which the frame comes in by each of its ports.  `list` is   *)
(* the slave list, list[0] the master's own record.                        *)
(***************************************************************************)
EXTENDS Integers, Sequences, FiniteSets, SequencesExt, FiniteSetsExt

CONSTANTS
  Half,       \* 2^31: port times are int32
  SyncDelay   \* head start of the first sync pulse

ASSUME ClockAssumption == Half \in Nat /\ Half > 0 /\ SyncDelay \in Nat /\ SyncDelay > 0

Ports == 0 .. 3

Int32(x) == ((x + Half) % (2 * Half)) - Half

Quotient(x, n) == IF x >= 0 THEN x \div n ELSE -((-x) \div n)   \* C's division

FirstOf(order, ports, other) ==
  LET found == SelectSeq(order, LAMBDA p : p \in ports)
  IN  IF found = <<>> THEN other ELSE found[1]

(***************************************************************************)
(* The parent of slave s: back through the slaves before it, skipping      *)
(* finished branches.                                                      *)
(***************************************************************************)
Topology(slave) == Cardinality(slave.active)

NoBranches(slave) == IF Topology(slave) = 1 THEN -1 ELSE 0   \* a mutant

Branches(slave) ==
  CASE Topology(slave) = 1 -> -1
    [] Topology(slave) = 3 -> 1
    [] Topology(slave) = 4 -> 2
    [] OTHER -> 0

FindParent(list, s) ==
  LET topoc[v \in 1 .. s] == IF v = s THEN 0 ELSE topoc[v + 1] + Branches(list[v])
  IN  Max({v \in 1 .. s - 1 : v = 1 \/ (topoc[v] >= 0 /\ Topology(list[v]) > 1)})

(***************************************************************************)
(* Ports.                                                                  *)
(***************************************************************************)
prevport(active, port) ==
  FirstOf(CASE port = 0 -> <<2, 1, 3>>
            [] port = 1 -> <<3, 0, 2>>
            [] port = 2 -> <<1, 3, 0>>
            [] OTHER -> <<0, 2, 1>>, active, port)

(* The first port of the parent not yet given to a child.                  *)
LastPort(consumed) == FirstOf(<<2, 1, 3, 0>>, consumed, 0)   \* a mutant

parentport(consumed) == FirstOf(<<3, 1, 2, 0>>, consumed, 0)

Consume(list, s) == [list EXCEPT ![s].consumed = @ \ {parentport(@)}]

(* The frame enters by the port with the lowest time; a slave without any  *)
(* active port takes what the stack holds.                                 *)
EntryPort(slave, junk) ==
  LET earliest(best, p) == IF slave.rt[p] < slave.rt[best] THEN p ELSE best
      listed == SelectSeq(<<0, 3, 1, 2>>, LAMBDA p : p \in slave.active)
  IN  IF listed = <<>> THEN junk ELSE FoldLeft(earliest, listed[1], Tail(listed))

(***************************************************************************)
(* ecx_configdc, one slave.  clock is [ref, last, hold]: a DC slave was    *)
(* seen, the latest of them, the branching slave of a branch that has none.*)
(***************************************************************************)
(* The nearest DC slave above s (0: none) and the slave of that path below *)
(* it.                                                                     *)
DcParent(list, s) ==
  LET above[k \in 0 .. s] ==
        LET p == list[k].parent
        IN  IF p = 0 \/ list[p].hasdc THEN [parent |-> p, child |-> k] ELSE above[p]
  IN  above[s]

ChainClock(list, clock, s) ==
  IF ~list[0].hasdc THEN [list EXCEPT ![0].hasdc = TRUE, ![0].next = s, ![s].prev = 0]
  ELSE [list EXCEPT ![clock.last].next = s, ![s].prev = clock.last]

(* The delay: half of what the parent saw pass on this port less what the  *)
(* slave itself saw, plus what earlier branches of the parent took.        *)
LaterChild(child, parent) == child - parent > 1

porttime(slave, port) == IF port \in Ports THEN slave.rt[port] ELSE 0

Delay(list, s, parent, child) ==
  LET time(k, p) == porttime(list[k], p)
      up == list[parent]
      back == prevport(up.active, list[s].pport)
      dt3 == Int32(time(parent, list[s].pport) - time(parent, back))
      own == IF Topology(list[s]) > 1
               THEN Int32(time(s, prevport(list[s].active, list[s].entry)) - time(s, list[s].entry))
               ELSE 0
      dt1 == IF own > dt3 THEN -own ELSE own
      before == IF LaterChild(child, parent) THEN Int32(time(parent, back) - time(parent, up.entry)) ELSE 0
      dt2 == IF before < 0 THEN -before ELSE before
  IN  Quotient(dt3 - dt1, 2) + dt2 + up.delay

(* The slave's record once its port times are known: entry port, the port  *)
(* it hangs on, its delay.                                                 *)
Measured(list, s, junk) ==
  LET in == EntryPort(list[s], junk)
      entered == [list EXCEPT ![s].entry = in, ![s].consumed = @ \ {in}]
      d == DcParent(list, s)
      hung == [Consume(entered, d.parent) EXCEPT
                 ![s].pport = IF Topology(list[d.parent]) = 1 THEN list[d.parent].entry
                              ELSE parentport(entered[d.parent].consumed)]
  IN  IF d.parent = 0 THEN entered
      ELSE [hung EXCEPT ![s].delay = Delay(hung, s, d.parent, d.child)]

(* A slave without DC: a branch without any gives its port back.           *)
PassBy(list, clock, s) ==
  LET p == list[s].parent
      hold == IF p > 0 /\ Topology(list[p]) > 2 THEN p ELSE clock.hold
      ends == hold > 0 /\ Topology(list[s]) = 1
      still == [list EXCEPT ![s].rt = [q \in Ports |-> 0]]
  IN  [list |-> IF ends THEN Consume(still, hold) ELSE still, hold |-> IF ends THEN 0 ELSE hold]

(***************************************************************************)
(* ecx_dcsync0 and ecx_dcsync01: the first pulse, from the system time now.*)
(***************************************************************************)
RoundedDown(now, cycle, shift) ==   \* a mutant
  IF cycle > 0 THEN (now \div cycle) * cycle + cycle + shift
  ELSE now + SyncDelay + shift

FirstTrigger(now, cycle, shift) ==
  IF cycle > 0 THEN ((now + SyncDelay) \div cycle) * cycle + cycle + shift
  ELSE now + SyncDelay + shift

TrueCycle(cycle0, cycle1) == (cycle1 \div cycle0 + 1) * cycle0
=============================================================================
