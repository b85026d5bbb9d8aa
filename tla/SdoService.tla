----------------------------- MODULE SdoService -----------------------------
(***************************************************************************)
(* What the SDO worker promises the threads that wait for it, without the  *)
(* queue, the locks and the coalescing:                                    *)
(*   - one transfer is under way at a time;                                *)
(*   - a read transfer serves every reader that was waiting for its object *)
(*     when the transfer began and none that came later, so no reader is   *)
(*     given a value older than its request;                               *)
(*   - transfers come in the order of their turns: a write and the first   *)
(*     reader of an object take a turn each, later readers share that one; *)
(*     each write reaches the slave at most once;                          *)
(*   - a waiter is answered at most once, by the transfer that served it,  *)
(*     or told "false" when the service has gone down.                     *)
(***************************************************************************)
EXTENDS Naturals, Sequences

CONSTANTS Clients, Keys, Values, Null

VARIABLES
  phase,    \* "new", "up" or "down"
  open,     \* open[k]: readers waiting for a transfer of object k
  line,     \* the turns, oldest first: a write, or an object to read
  busy,     \* the transfer under way: "none", "read", "write", or "done"
  writing,  \* the write that is being transferred
  served,   \* the waiters the transfer under way will answer
  result,   \* what each client's last request came to
  device    \* the objects in the slave

vars == <<phase, open, line, busy, writing, served, result, device>>

Turn(op, vals) == [op : {op}, key : Keys, val : vals, waiters : SUBSET Clients]
Turns == Turn("Read", {Null}) \cup Turn("Write", Values)

Init ==
  /\ phase = "new" /\ open = [k \in Keys |-> {}] /\ line = <<>>
  /\ busy = "none" /\ writing = Null /\ served = {}
  /\ result = [c \in Clients |-> "none"]
  /\ device \in [Keys -> Values]

Launch ==
  /\ phase = "new" /\ phase' = "up"
  /\ UNCHANGED <<open, line, busy, writing, served, result, device>>

(* A client has taken its result, or its request ended in an exception. *)
Leave(c) ==
  /\ result' = [result EXCEPT ![c] = "none"]
  /\ open' = [k \in Keys |-> open[k] \ {c}]
  /\ served' = served \ {c}
  /\ UNCHANGED <<phase, line, busy, writing, device>>

(* A reader joins those that wait for the next transfer of its object. *)
AcceptRead(c, k) ==
  /\ open' = [open EXCEPT ![k] = @ \cup {c}]
  /\ UNCHANGED <<phase, line, busy, writing, served, result, device>>

(* A write, or an object whose readers are waiting, is queued for transfer. *)
Accept(turn) ==
  /\ line' = Append(line, turn)
  /\ UNCHANGED <<phase, open, busy, writing, served, result, device>>

ItsTurn(op) == phase = "up" /\ busy = "none" /\ line # <<>> /\ Head(line).op = op

BeginRead ==
  /\ ItsTurn("Read")
  /\ busy' = "read" /\ served' = open[Head(line).key]
  /\ open' = [open EXCEPT ![Head(line).key] = {}]
  /\ line' = Tail(line)
  /\ UNCHANGED <<phase, writing, result, device>>

BeginWrite ==
  /\ ItsTurn("Write")
  /\ busy' = "write" /\ writing' = Head(line) /\ served' = Head(line).waiters
  /\ line' = Tail(line)
  /\ UNCHANGED <<phase, open, result, device>>

(* The bus carries it out; a failed write may have reached the slave. *)
Transfer ==
  /\ \/ busy = "read" /\ UNCHANGED device
     \/ /\ busy = "write"
        /\ device' \in {device, [device EXCEPT ![writing.key] = writing.val]}
  /\ busy' = "done" /\ writing' = Null
  /\ UNCHANGED <<phase, open, line, served, result>>

Finish(outcome) ==
  /\ busy = "done"
  /\ result' = [c \in Clients |->
                  IF c \in served /\ result[c] = "none" THEN outcome ELSE result[c]]
  /\ busy' = "none" /\ served' = {}
  /\ UNCHANGED <<phase, open, line, writing, device>>

(* The service goes down, possibly with a transfer under way or done, whose *)
(* waiters are then told nothing.                                           *)
GoDown ==
  /\ phase = "up" /\ busy \in {"none", "write", "done"}
  /\ phase' = "down" /\ busy' = "none" /\ writing' = Null /\ served' = {}
  /\ UNCHANGED <<open, line, result, device>>

Abandon(k, W) ==
  /\ phase = "down" /\ W \subseteq open[k]
  /\ open' = [open EXCEPT ![k] = @ \ W]
  /\ result' = [c \in Clients |->
                  IF c \in W /\ result[c] = "none" THEN "false" ELSE result[c]]
  /\ UNCHANGED <<phase, line, busy, writing, served, device>>

Next ==
  \/ Launch \/ BeginRead \/ BeginWrite \/ Transfer \/ GoDown
  \/ \E c \in Clients : Leave(c)
  \/ \E c \in Clients, k \in Keys : AcceptRead(c, k)
  \/ \E turn \in Turns : Accept(turn)
  \/ \E outcome \in {"true", "false"} : Finish(outcome)
  \/ \E k \in Keys, W \in SUBSET Clients : Abandon(k, W)

Spec == Init /\ [][Next]_vars
=============================================================================
