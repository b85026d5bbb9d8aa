---------------------------- MODULE TransferSlave ----------------------------
(***************************************************************************)
(* A slave that keeps to the CoE, FoE, SoE and EoE protocols, as far as    *)
(* the services of SOEM rely on it.  It takes a request when it has posted *)
(* all answers to the last one, and posts them in order into its mailbox.  *)
(*                                                                         *)
(* dev: todo, the messages it still has to post; base, at, toggle: the     *)
(* object being read, how far, and the toggle bit it expects; got, want:   *)
(* what has arrived of a write and its announced size; no: its last FoE    *)
(* packet; stored: the object, file or frame it holds in the end; busy: it *)
(* has said so.                                                            *)
(***************************************************************************)
EXTENDS TransferLink

Idle(todo) ==
  [todo |-> todo, base |-> 0, at |-> 0, toggle |-> FALSE, got |-> <<>>, want |-> 0, no |-> 0,
   stored |-> <<>>, busy |-> FALSE]

Reply(m) == [dev EXCEPT !.todo = <<m>>]
Abort == [kind |-> "abort"]
Series(n, cap, M(_, _, _)) ==
  LET ps == Pieces(0, n, cap) IN [i \in DOMAIN ps |-> M(i, ps[i], Len(ps) - i)]

-----------------------------------------------------------------------------
(* CoE.  Another object or subindex holds other data.                      *)
Uploaded(r) ==
  LET base == IF r.index = "x" /\ r.sub = 1 THEN 0 ELSE 1000
      n == Lower(job.size, IF job.size <= 4 THEN 4 ELSE job.rl - 16)
  IN [Reply([kind |-> IF job.size <= 4 THEN "expedited" ELSE "normal", index |-> r.index,
             sub |-> r.sub, size |-> job.size, piece |-> <<base, base + n>>])
      EXCEPT !.base = base, !.at = n, !.toggle = FALSE]

UploadedSegment(r) ==
  IF r.toggle # dev.toggle THEN Reply(Abort)
  ELSE LET n == Lower(job.size - dev.at, job.rl - 9) IN
       [Reply([kind |-> "segment", last |-> dev.at + n = job.size,
               piece |-> <<dev.base + dev.at, dev.base + dev.at + n>>])
        EXCEPT !.at = @ + n, !.toggle = ~@]

(* What is complete is stored.                                             *)
Storing(d) == [d EXCEPT !.stored = IF Length(d.got) = d.want THEN d.got ELSE @]

Downloaded(r) ==
  Storing([Reply([kind |-> "downloaded", index |-> r.index, sub |-> r.sub])
           EXCEPT !.got = Glue(<<>>, r.piece), !.want = r.size, !.toggle = FALSE])

DownloadedSegment(r) ==
  LET got == Glue(dev.got, r.piece) IN
  IF r.toggle # dev.toggle \/ (r.last /\ Length(got) # dev.want) THEN Reply(Abort)
  ELSE Storing([Reply([kind |-> "segment downloaded"]) EXCEPT !.got = got, !.toggle = ~@])

-----------------------------------------------------------------------------
(* FoE.  A packet that is not full ends the file.                          *)
FoePacket(at, no) ==
  LET n == Lower(job.size - at, job.rl - 12) IN
  [Reply([kind |-> "foe data", no |-> no, piece |-> <<at, at + n>>])
   EXCEPT !.at = at + n, !.no = no, !.toggle = n = job.rl - 12]

FoeAcked(r) ==
  IF dev.toggle /\ r.no = dev.no THEN FoePacket(dev.at, dev.no + 1) ELSE [dev EXCEPT !.todo = <<>>]

FoeTaken(r) ==
  IF r.no # dev.no + 1 THEN Reply(Abort)
  ELSE LET got == Glue(dev.got, r.piece) IN
       [Reply([kind |-> "foe ack", no |-> r.no])
        EXCEPT !.got = got, !.no = r.no,
               !.stored = IF Span(r.piece) < job.l - 12 THEN got ELSE @]

FoeBusy == [Reply([kind |-> "foe busy"]) EXCEPT !.busy = TRUE]

-----------------------------------------------------------------------------
(* SoE and EoE.                                                            *)
SoeTaken(r) ==
  LET got == Glue(dev.got, r.piece) IN
  IF r.incomplete THEN [dev EXCEPT !.got = got, !.todo = <<>>]
  ELSE [Reply([kind |-> "soe written"]) EXCEPT !.got = <<>>, !.stored = got]

EoeTaken(r) ==
  LET got == IF r.frag = 0 THEN Glue(<<>>, r.piece) ELSE Glue(dev.got, r.piece) IN
  [dev EXCEPT !.todo = <<>>, !.got = got, !.stored = IF r.last THEN got ELSE @]

(* Frame number f of the size of the job, as a slave sends it.             *)
Frame(f) ==
  Series(job.size, ((job.rl - 10) \div 32) * 32,
         LAMBDA i, piece, left :
           [kind |-> "eoe", frag |-> i - 1, frame |-> f, last |-> left = 0,
            offset |-> IF i = 1 THEN ((job.size + 31) \div 32) * 32 ELSE piece[1],
            piece |-> <<1000 * f + piece[1], 1000 * f + piece[2]>>])

(* Two frames that a slave sends unasked; a run of fragments may have been *)
(* lost.                                                                   *)
Frames ==
  LET all == Frame(1) \o Frame(2) IN
  {SubSeq(all, 1, p[1]) \o SubSeq(all, p[2], Len(all)) : p \in
     {q \in (0 .. Len(all)) \X (1 .. Len(all) + 1) : q[1] < q[2]}}

-----------------------------------------------------------------------------
Served(r) ==
  CASE r.kind = "upload" -> Uploaded(r)
    [] r.kind = "upload segment" -> UploadedSegment(r)
    [] r.kind = "download" -> Downloaded(r)
    [] r.kind = "download segment" -> DownloadedSegment(r)
    [] r.kind = "rxpdo" -> [dev EXCEPT !.stored = Glue(<<>>, r.piece)]
    [] r.kind = "tx" -> Reply([kind |-> "txpdo", piece |-> <<0, job.size>>])
    [] r.kind \in {"od", "ip"} -> Reply([kind |-> r.kind, piece |-> <<0, job.size>>])
    [] r.kind = "oe" -> Reply([kind |-> "oe", sub |-> r.sub, piece |-> <<0, job.size>>])
    [] r.kind = "odlist" ->
         [dev EXCEPT !.todo = Series(job.size, job.rl - 12, LAMBDA i, piece, left :
                                       [kind |-> "odlist", piece |-> piece, left |-> left])]
    [] r.kind = "foe read" -> FoePacket(0, 1)
    [] r.kind = "foe ack" -> FoeAcked(r)
    [] r.kind = "foe write" -> Reply([kind |-> "foe ack", no |-> 0])
    [] r.kind = "foe data" -> FoeTaken(r)
    [] r.kind = "soe read" ->
         [dev EXCEPT !.todo = Series(job.size, job.rl - 10, LAMBDA i, piece, left :
                                       [kind |-> "soe data", piece |-> piece, incomplete |-> left > 0])]
    [] r.kind = "soe write" -> SoeTaken(r)
    [] r.kind = "eoe" -> EoeTaken(r)
    [] r.kind = "ip set" -> Reply(r)

(* A moody slave may refuse (a SoE write once it has all of it), or be     *)
(* busy once.                                                              *)
Partial(r) == r.kind = "soe write" /\ r.incomplete
Moods(r) ==
  (IF job.moody /\ ~Partial(r) THEN {Reply(Abort)} ELSE {})
    \cup (IF job.moody /\ ~dev.busy /\ r.kind \in {"foe write", "foe data"} THEN {FoeBusy} ELSE {})

Serve ==
  /\ alive /\ outbox # Null /\ dev.todo = <<>>
  /\ outbox' = Null /\ dev' \in {Served(outbox)} \cup Moods(outbox)
  /\ UNCHANGED <<job, callVars, inbox, alive, faults, missed, late, unsent, worked>>

PostNext ==
  /\ alive /\ inbox = Null /\ dev.todo # <<>>
  /\ inbox' = Head(dev.todo) /\ dev' = [dev EXCEPT !.todo = Tail(@)]
  /\ UNCHANGED <<job, callVars, outbox, alive, faults, missed, late, unsent, worked>>

SlaveStep == Serve \/ PostNext
=============================================================================
