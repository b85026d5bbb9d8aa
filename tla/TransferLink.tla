---------------------------- MODULE TransferLink ----------------------------
(***************************************************************************)
(* The mailbox as the services of SOEM see it, and a caller in one of      *)
(* their functions (CoE, FoE, SoE, EoE).                                   *)
(*                                                                         *)
(* What Mailbox* show of the transport is taken for granted here: a        *)
(* message goes through at most once and in order.  A send may fail with   *)
(* or without the slave having got the message, an answer may be late or   *)
(* lost for good, and the slave may vanish.                                *)
(*                                                                         *)
(* The data of a transfer are the numbers of its bytes: a piece [a, b) is  *)
(* the pair <<a, b>>, and what was put together is a sequence of pieces.   *)
(***************************************************************************)
EXTENDS Integers, Sequences, SequencesExt, TLC

CONSTANTS
  Jobs,        \* the calls considered, see JobFields
  MaxFaults,   \* bound on failed sends, late or lost answers and vanished slaves
  Null

(* op: the function; size: bytes of the object, file or frame; room: the   *)
(* caller's buffer; l, rl: mbx_l and mbx_rl of the slave; early: a request *)
(* of an earlier call that the slave has not answered yet; moody: the      *)
(* slave may refuse or be busy.                                            *)
JobFields == {"op", "size", "room", "l", "rl", "early", "moody"}

ASSUME TransferAssumption ==
  MaxFaults \in Nat /\ \A j \in Jobs : DOMAIN j = JobFields

VARIABLES
  job,         \* the call, never changes
  pc,          \* purge, send, empty, receive; done, dry (no buffer) or crashed
  req,         \* the message to send
  loc,         \* the local variables of the function
  buf,         \* the caller's buffer
  wkc,         \* what the function returned
  outbox, inbox,    \* the slave's mailboxes, for requests and for answers
  dev,         \* the slave's side of the transfer, see TransferSlave
  alive,       \* the slave is there
  faults,      \* faults so far
  missed, late,     \* an answer was lost; one is still to come that nobody waits for
  unsent,      \* a message was not sent: its send failed, or it had no buffer
  worked       \* the last purge, send or receive gave a wkc above 0

callVars == <<pc, req, loc, buf, wkc>>
linkVars == <<outbox, inbox, dev, alive, faults, missed, late, unsent, worked>>
vars == <<job, callVars, linkVars>>

Span(piece) == piece[2] - piece[1]
Lower(a, b) == IF a < b THEN a ELSE b
Glue(b, piece) ==
  IF Span(piece) = 0 THEN b
  ELSE IF b # <<>> /\ Last(b)[2] = piece[1]
       THEN Append(Front(b), <<Last(b)[1], piece[2]>>) ELSE Append(b, piece)
Length(b) == FoldLeft(LAMBDA n, piece : n + Span(piece), 0, b)
Entire(n) == Glue(<<>>, <<0, n>>)

(* The pieces of the object of the call; another object or frame begins at *)
(* the next thousand.                                                      *)
Piece == {p \in Nat \X Nat : p[1] <= p[2] /\ (p[1] % 1000) + Span(p) <= job.size}

(* The pieces a message of n bytes is cut into, at most cap bytes each.    *)
Pieces(base, n, cap) ==
  [i \in 1 .. IF n = 0 THEN 1 ELSE (n + cap - 1) \div cap |->
     <<base + (i - 1) * cap, base + Lower(n, i * cap)>>]

-----------------------------------------------------------------------------
(* ecx_mbxsend and ecx_mbxreceive.                                         *)
Fault == faults < MaxFaults /\ faults' = faults + 1

Stuck == ~alive \/ (outbox # Null /\ inbox # Null /\ dev.todo # <<>>)
Send(m, ok) ==
  /\ worked' = ok /\ UNCHANGED <<inbox, dev, alive, missed>>
  /\ \/ ok /\ alive /\ outbox = Null /\ outbox' = m /\ UNCHANGED <<faults, late, unsent>>
     \/ ~ok /\ Stuck /\ unsent' = TRUE /\ UNCHANGED <<outbox, faults, late>>
     \/ ~ok /\ Fault /\ alive /\ unsent' = TRUE /\ UNCHANGED <<outbox, late>>
     \/ ~ok /\ Fault /\ alive /\ outbox = Null /\ outbox' = m /\ late' = TRUE /\ UNCHANGED unsent

Quiet == inbox = Null /\ (~alive \/ (outbox = Null /\ dev.todo = <<>>))
Receive(m) ==
  /\ worked' = (m # Null) /\ UNCHANGED <<outbox, dev, alive, unsent>>
  /\ \/ m # Null /\ inbox = m /\ inbox' = Null /\ UNCHANGED <<faults, missed, late>>
     \/ m = Null /\ Quiet /\ UNCHANGED <<inbox, faults, missed, late>>
     \/ m = Null /\ Fault /\ late' = TRUE /\ UNCHANGED <<inbox, missed>>
     \/ /\ m = Null /\ Fault /\ inbox # Null /\ inbox' = Null /\ missed' = TRUE
        /\ UNCHANGED late

(* Emptying the slave's mailbox at the beginning, without waiting.  What   *)
(* it brings may also be a message of an earlier call that does not matter *)
(* here otherwise.                                                         *)
Purge ==
  /\ pc = "purge" /\ pc' = "send"
  /\ \/ inbox' = Null /\ worked' \in {inbox # Null, TRUE} /\ UNCHANGED faults
     \/ Fault /\ worked' = FALSE /\ UNCHANGED inbox
  /\ UNCHANGED <<job, req, loc, buf, wkc, outbox, dev, alive, missed, late, unsent>>

Vanish ==
  /\ alive /\ Fault /\ alive' = FALSE /\ outbox' = Null /\ inbox' = Null
  /\ UNCHANGED <<job, callVars, dev, missed, late, unsent, worked>>

-----------------------------------------------------------------------------
(* The steps of a call.                                                    *)
Return(w) == pc' = "done" /\ wkc' = w /\ UNCHANGED <<req, loc>>
Keep == UNCHANGED buf
Begin(r, l) == pc = "purge" /\ req = r /\ loc = l   \* at the start of the function
Say(m) == pc' = "send" /\ req' = m /\ UNCHANGED wkc
Wait == pc' = "receive" /\ UNCHANGED <<req, wkc>>

Sending(op, ok) == job.op = op /\ pc = "send" /\ Send(req, ok) /\ UNCHANGED job
Receiving(op, m) == job.op = op /\ pc = "receive" /\ Receive(m) /\ UNCHANGED job

(* The pool has no buffer for the message (ecx_getmbx).                    *)
NoBuffer(ops) ==
  /\ job.op \in ops /\ pc = "send" /\ Keep /\ unsent' = TRUE
  /\ UNCHANGED <<job, outbox, inbox, dev, alive, faults, missed, late, worked>>

Ends(how) == pc' = how /\ UNCHANGED <<req, loc, wkc>>

(* Functions that send one request and take one answer.                    *)
SendOnce(op) ==
  \E ok \in BOOLEAN :
    /\ Sending(op, ok) /\ Keep
    /\ IF ok THEN Wait /\ UNCHANGED loc ELSE Return(0)
Answers == {Null, inbox}
=============================================================================
