------------------------------ MODULE FoeSoeEoe ------------------------------
(***************************************************************************)
(* File, IDN and Ethernet frame transfers: SOEM ec_foe.c, ec_soe.c and     *)
(* ec_eoe.c.                                                               *)
(***************************************************************************)
EXTENDS TransferLink

(* The messages, which carry pieces of Part.                               *)
ec_FOEt(Part) ==
  [kind : {"foe read", "foe write", "foe busy"}] \cup [kind : {"foe ack"}, no : Nat]
  \cup [kind : {"foe data"}, no : Nat, piece : Part]

ec_SoEt(Part) ==
  [kind : {"soe read", "soe written"}]
  \cup [kind : {"soe write", "soe data"}, piece : Part, incomplete : BOOLEAN]

ec_EOEt(Part) ==
  [kind : {"eoe"}, frag : Nat, offset : Nat, piece : Part, last : BOOLEAN]
  \cup [kind : {"eoe"}, frag : Nat, frame : Nat, offset : Nat, piece : Part, last : BOOLEAN]
  \cup [kind : {"ip", "ip set"}] \cup [kind : {"ip"}, piece : Part]

(* These functions write into the message without a look at whether the    *)
(* pool had a buffer for it.                                               *)
Unchecked == {"FOEread", "FOEwrite", "SoEread", "SoEwrite", "EOEsend", "EOEsetIp", "EOEgetIp"}
NullBuffer == NoBuffer(Unchecked) /\ Ends("crashed")

(* A full FoE packet, by the size of the mailbox that is written.          *)
FullPacket == job.l - 12

-----------------------------------------------------------------------------
(* ecx_FOEread.                                                            *)
FOEreadLoc == [prevpacket |-> 0, worktodo |-> TRUE]
FOEreadBegin == Begin([kind |-> "foe read"], FOEreadLoc)

FOEreadSend ==
  \E ok \in BOOLEAN :
    /\ Sending("FOEread", ok) /\ Keep
    /\ IF ok /\ loc.worktodo THEN Wait /\ UNCHANGED loc ELSE Return(IF ok THEN 1 ELSE 0)

AnyRoom(m) == TRUE   \* a mutant

HasRoom(m) == Length(buf) + Span(m.piece) <= job.room

(* A packet that fits is acknowledged; a packet that is not full ends the  *)
(* file.                                                                   *)
FOEreadReceive ==
  \E m \in Answers :
    /\ Receiving("FOEread", m)
    /\ IF m # Null /\ m.kind = "foe data" /\ m.no = loc.prevpacket + 1 /\ HasRoom(m)
       THEN /\ buf' = Glue(buf, m.piece)
            /\ Say([kind |-> "foe ack", no |-> m.no])
            /\ loc' = [prevpacket |-> m.no, worktodo |-> Span(m.piece) = FullPacket]
       ELSE Return(IF m = Null THEN 0 ELSE -1) /\ Keep

-----------------------------------------------------------------------------
(* ecx_FOEwrite: at is where the data goes on, segmentdata the size of the *)
(* last packet.                                                            *)
FOEwriteLoc == [at |-> 0, sendpacket |-> 0, segmentdata |-> 0, dofinalzero |-> TRUE]

FOEwriteBegin == Begin([kind |-> "foe write"], FOEwriteLoc)

NoFinalZero(at, n) == FALSE   \* a mutant

NeedsFinalZero(at, n) == at + n = job.size /\ n = FullPacket

FOEdata(at, no) ==
  LET n == Lower(job.size - at, FullPacket) IN
  IF n > 0 \/ loc.dofinalzero
  THEN /\ Say([kind |-> "foe data", no |-> no, piece |-> <<at, at + n>>])
       /\ loc' = [at |-> at + n, sendpacket |-> no, segmentdata |-> n,
                  dofinalzero |-> NeedsFinalZero(at, n)]
  ELSE Return(1)

FOEwriteSend ==
  \E ok \in BOOLEAN :
    /\ Sending("FOEwrite", ok) /\ Keep
    /\ IF ok THEN Wait /\ UNCHANGED loc ELSE Return(0)

(* A busy slave gets the last packet again, if there was one; otherwise    *)
(* the transfer is over.                                                   *)
FOEwriteReceive ==
  \E m \in Answers :
    /\ Receiving("FOEwrite", m) /\ Keep
    /\ \/ m = Null /\ Return(0)
       \/ /\ m # Null /\ m.kind = "foe ack"
          /\ IF m.no = loc.sendpacket THEN FOEdata(loc.at, loc.sendpacket + 1) ELSE Return(-1)
       \/ /\ m # Null /\ m.kind = "foe busy"
          /\ IF loc.sendpacket > 0 THEN FOEdata(loc.at - loc.segmentdata, loc.sendpacket)
             ELSE Return(1)
       \/ m # Null /\ m.kind \notin {"foe ack", "foe busy"} /\ Return(-1)

FoeStep == FOEreadSend \/ FOEreadReceive \/ FOEwriteSend \/ FOEwriteReceive

-----------------------------------------------------------------------------
(* ecx_SoEread collects the fragments of the answer.  The address it       *)
(* copies from was computed before the request was sent, from the buffer   *)
(* of the purge: when the purge brought one (old), what is copied has the  *)
(* right length and is none of the answer's data; otherwise it reads from  *)
(* the first bytes of the address space.                                   *)
SoECopied(piece) == <<-1 - Span(piece), -1>>

SoEreadSend ==
  \E ok \in BOOLEAN :
    /\ Sending("SoEread", ok) /\ Keep
    /\ IF ok THEN Wait /\ loc' = [old |-> worked] ELSE Return(0)

SoEreadReceive ==
  \E m \in Answers :
    /\ Receiving("SoEread", m)
    /\ \/ /\ m # Null /\ m.kind = "soe data"
          /\ LET n == Lower(Span(m.piece), job.room - Length(buf)) IN
             IF n > 0 /\ ~loc.old THEN Keep /\ Ends("crashed")
             ELSE /\ buf' = Glue(buf, SoECopied(<<m.piece[1], m.piece[1] + n>>))
                  /\ IF m.incomplete THEN Wait /\ UNCHANGED loc ELSE Return(1)
       \/ m # Null /\ m.kind # "soe data" /\ Return(0) /\ Keep
       \/ m = Null /\ Return(0) /\ Keep

(* ecx_SoEwrite sends the fragments and waits after each until the slave   *)
(* has taken it (ecx_mbxempty); a response is read after the last one, or  *)
(* when the slave does not empty its mailbox.                              *)
SoEfragment(at) ==
  LET n == Lower(job.size - at, job.l - 10) IN
  [kind |-> "soe write", piece |-> <<at, at + n>>, incomplete |-> at + n < job.size]

SoEwriteBegin ==
  LET m == SoEfragment(0) IN Begin(m, [at |-> m.piece[2], notLast |-> m.incomplete])

SoEnext(m) == Say(m) /\ loc' = [at |-> m.piece[2], notLast |-> m.incomplete]

SoEgoOn(w) == IF loc.notLast THEN SoEnext(SoEfragment(loc.at)) ELSE Return(w)

SoEwriteSend ==
  \E ok \in BOOLEAN :
    /\ Sending("SoEwrite", ok) /\ Keep
    /\ IF ok THEN /\ pc' = IF loc.notLast THEN "empty" ELSE "receive"
                  /\ UNCHANGED <<req, loc, wkc>>
       ELSE SoEgoOn(0)

SoEwriteEmpty ==
  /\ job.op = "SoEwrite" /\ pc = "empty" /\ Keep
  /\ \/ alive /\ outbox = Null /\ SoEgoOn(1) /\ UNCHANGED faults
     \/ Stuck /\ Wait /\ UNCHANGED <<loc, faults>>
     \/ Fault /\ Wait /\ UNCHANGED loc
  /\ UNCHANGED <<job, outbox, inbox, dev, alive, missed, late, unsent, worked>>

SoEwriteReceive ==
  \E m \in Answers :
    /\ Receiving("SoEwrite", m) /\ Keep
    /\ CASE m = Null -> SoEgoOn(0)
         [] m # Null /\ m.kind = "soe written" -> Return(1)
         [] OTHER -> Return(0)

SoeStep ==
  SoEreadSend \/ SoEreadReceive \/ SoEwriteSend \/ SoEwriteEmpty \/ SoEwriteReceive

-----------------------------------------------------------------------------
(* ecx_EOEsend cuts a frame into blocks of 32 bytes.                       *)
Blocks(n) == (n \div 32) * 32

Rounded(n) == ((n + 31) \div 32) * 32

EOEblocks(at, n) ==
  [kind |-> "eoe", frag |-> IF at = 0 THEN 0 ELSE 1,
   offset |-> IF at = 0 THEN Rounded(job.size) ELSE Blocks(at),
   piece |-> <<at, at + n>>, last |-> at + n = job.size]

EOEwholeBlocks(at) == EOEblocks(at, Blocks(Lower(job.size - at, job.l - 10)))   \* a mutant

EOEfragment(at) ==
  LET rest == job.size - at
  IN EOEblocks(at, IF rest > job.l - 10 THEN Blocks(job.l - 10) ELSE rest)

EOEsend ==
  \E ok \in BOOLEAN :
    /\ Sending("EOEsend", ok) /\ Keep /\ UNCHANGED loc
    /\ \/ ok /\ ~req.last /\ Say(EOEfragment(req.piece[2]))
       \/ ok /\ req.last /\ Return(1)
       \/ ~ok /\ Return(0)

(* What a fragment means to a receiver that expects number loc.frag of     *)
(* frame loc.frame at loc.offset.                                          *)
EOEloc == [frag |-> 0, frame |-> 0, size |-> 0, offset |-> 0]

Continues(m) == m.frame = loc.frame /\ m.offset = loc.offset

(* A fragment that fits is taken, another one is left out; the last one    *)
(* ends the frame either way.                                              *)
EOEtake(m, size, b) ==
  LET offset == IF b = <<>> THEN 0 ELSE loc.offset
      end == offset + Span(m.piece)
      fits == end <= Lower(size, job.room)
  IN /\ buf' = IF fits THEN Glue(b, m.piece) ELSE b
     /\ loc' = [frag |-> (IF b = <<>> THEN 0 ELSE loc.frag) + (IF fits THEN 1 ELSE 0),
                frame |-> m.frame, size |-> size, offset |-> IF fits THEN end ELSE offset]
     /\ IF m.last THEN pc' = "done" /\ wkc' = 1 /\ UNCHANGED req ELSE Wait

(* ecx_EOErecv: any fragment out of turn ends it, and so does a frame too  *)
(* large for the buffer.                                                   *)
EOEinTurn(m) ==
  /\ m.kind = "eoe" /\ m.frag \in {0, loc.frag}
  /\ IF loc.frag = 0 THEN m.offset <= job.room ELSE Continues(m)

EOErecv ==
  \E m \in Answers :
    /\ Receiving("EOErecv", m)
    /\ \/ m # Null /\ EOEinTurn(m) /\ EOEtake(m, job.room, buf)
       \/ m # Null /\ ~EOEinTurn(m) /\ Return(-1) /\ Keep
       \/ m = Null /\ Return(0) /\ Keep

(* ecx_EOEreadfragment, called for every message that comes in: a first    *)
(* fragment begins a new frame, any other one out of turn is refused and   *)
(* has it wait for a first one.                                            *)
EOEreadfragment ==
  \E m \in Answers :
    /\ Receiving("EOEreadfragment", m)
    /\ LET fresh == m # Null /\ m.kind = "eoe" /\ m.frag = 0
           next == m # Null /\ m.kind = "eoe" /\ m.frag > 0 /\ m.frag = loc.frag /\ Continues(m)
       IN \/ fresh /\ EOEtake(m, m.offset, <<>>)
          \/ next /\ EOEtake(m, loc.size, buf)
          \/ m # Null /\ ~fresh /\ ~next /\ loc' = EOEloc /\ Wait /\ Keep
          \/ m = Null /\ Return(0) /\ Keep

(* ecx_EOEsetIp and ecx_EOEgetIp.  An answer whose DNS name does not fill  *)
(* its field (room) is refused once it has been copied.                    *)
SetIpReceive ==
  \E m \in Answers :
    /\ Receiving("EOEsetIp", m) /\ Keep
    /\ Return(IF m # Null /\ m.kind = "ip set" THEN 1 ELSE 0)

GetIpReceive ==
  \E m \in Answers :
    /\ Receiving("EOEgetIp", m)
    /\ IF m # Null /\ m.kind = "ip"
       THEN buf' = Glue(<<>>, m.piece) /\ Return(IF Span(m.piece) < job.room THEN -1 ELSE 1)
       ELSE Keep /\ Return(0)

EoeStep ==
  \/ EOEsend \/ EOErecv \/ EOEreadfragment
  \/ SendOnce("EOEsetIp") \/ SetIpReceive \/ SendOnce("EOEgetIp") \/ GetIpReceive
=============================================================================
