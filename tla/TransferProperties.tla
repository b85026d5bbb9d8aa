------------------------- MODULE TransferProperties -------------------------
(***************************************************************************)
(* One call of a mailbox service and the slave it talks to.                *)
(***************************************************************************)
EXTENDS CoeSdo, FoeSoeEoe, TransferSlave

Messages(Part) ==
  ec_SDOt(Part) \cup ec_SDOservicet(Part) \cup ec_FOEt(Part) \cup ec_SoEt(Part) \cup ec_EOEt(Part)

Operations ==
  {"SDOread", "SDOwrite", "RxPDO", "TxPDO", "readOD", "readOE", "readODlist", "FOEread", "FOEwrite",
   "SoEread", "SoEwrite", "EOEsend", "EOErecv", "EOEreadfragment", "EOEsetIp", "EOEgetIp"}

(* Sizes stay below the thousand by which objects are told apart; a        *)
(* mailbox holds the headers of its protocols, and for frames that come    *)
(* unasked a block of 32 bytes; an earlier request is one of SDOread, or   *)
(* before an SDOread also one of SDOwrite, to an object of a byte at       *)
(* least; what has no answer cannot be refused; a frame is not empty, and  *)
(* the answer of get IP no longer than its fields.                         *)
ASSUME JobsAssumption ==
  /\ Null \notin Messages(Nat \X Nat)
  /\ \A j \in Jobs :
       /\ j.op \in Operations /\ j.size \in 0 .. 999 /\ j.room \in Nat /\ j.moody \in BOOLEAN
       /\ j.l \in Nat /\ j.l >= 16 /\ j.rl \in Nat /\ j.rl >= 16
       /\ j.early # Null =>
            \/ j.op \in {"SDOread", "SDOwrite"} /\ j.early \in {Upload(1), Upload(2), UploadOther}
            \/ j.op = "SDOread" /\ j.early = DownloadOther /\ j.size > 0
       /\ j.op \in {"RxPDO", "EOEsend"} => ~j.moody
       /\ j.op \in {"EOErecv", "EOEreadfragment"} => j.size > 0 /\ j.rl >= 42
       /\ j.op = "EOEgetIp" => j.size <= j.room

(* Every function begins with its first request and its local variables.   *)
Unasked == pc = "receive" /\ req = Null /\ loc = EOEloc

CallInit ==
  CASE job.op = "SDOread" -> SDOreadBegin
    [] job.op = "SDOwrite" -> SDOwriteBegin
    [] job.op = "RxPDO" -> Begin(RxPDOrequest(job.size, job.l), Null)
    [] job.op = "TxPDO" -> Begin([kind |-> "tx"], Null)
    [] job.op = "readOD" -> Begin([kind |-> "od"], Null)
    [] job.op = "readOE" -> OEbegin
    [] job.op = "readODlist" -> Begin([kind |-> "odlist"], Null)
    [] job.op = "FOEread" -> FOEreadBegin
    [] job.op = "FOEwrite" -> FOEwriteBegin
    [] job.op = "SoEread" -> Begin([kind |-> "soe read"], Null)
    [] job.op = "SoEwrite" -> SoEwriteBegin
    [] job.op = "EOEsend" -> pc = "send" /\ req = EOEfragment(0) /\ loc = Null
    [] job.op = "EOEsetIp" -> Begin([kind |-> "ip set"], Null)
    [] job.op = "EOEgetIp" -> Begin([kind |-> "ip"], Null)
    [] job.op \in {"EOErecv", "EOEreadfragment"} -> Unasked

Init ==
  /\ job \in Jobs /\ CallInit
  /\ buf = <<>> /\ wkc = 0 /\ inbox = Null /\ outbox = job.early
  /\ IF job.op \in {"EOErecv", "EOEreadfragment"}
     THEN dev \in {Idle(todo) : todo \in Frames} ELSE dev = Idle(<<>>)
  /\ alive = TRUE /\ faults = 0 /\ missed = FALSE /\ late = FALSE /\ unsent = FALSE /\ worked = FALSE

CallStep == Purge \/ CoeStep \/ FoeStep \/ SoeStep \/ EoeStep \/ NullBuffer

Next == CallStep \/ SlaveStep \/ Vanish

Spec == Init /\ [][Next]_vars

(* The calling thread goes on, every wait has a time limit, and a slave    *)
(* that is there does its work.                                            *)
FairSpec == Spec /\ WF_vars(CallStep) /\ WF_vars(SlaveStep)

-----------------------------------------------------------------------------
Dry == pc = "dry"   \* the call found no buffer for a message
Result == IF Dry THEN (IF worked THEN 1 ELSE 0) ELSE wkc
Succeeded(ops) == pc \in {"done", "dry"} /\ Result > 0 /\ job.op \in ops

(* The session handle of the mailbox header is never compared: an answer   *)
(* to an earlier request that fits is taken for the answer.                *)
Mistaken == job.early # Null /\ job.early.index = "x"

(* ecx_readOE puts the description of every subindex in its place, unless  *)
(* an answer came so late that it passed for that of the next subindex; an *)
(* entry stays empty when its request was lost or refused or had no        *)
(* buffer, which the result does not tell.                                 *)
EntriesInPlace ==
  job.op = "readOE" /\ pc \in {"done", "dry"} =>
    \A k \in DOMAIN loc.entry :
      \/ loc.entry[k] = k \/ late
      \/ loc.entry[k] = None /\ (missed \/ unsent \/ job.moody \/ ~alive)

(* A read that reports success has put the whole object, file or frame     *)
(* together, in order and without a hole (ecx_SDOread, ecx_FOEread,        *)
(* ecx_TxPDO, ecx_readODlist, ecx_readODdescription, ecx_EOErecv,          *)
(* ecx_EOEreadfragment), lists and names as far as they fit.  Not so: a    *)
(* segmented upload of which an answer was lost, the answer to an earlier  *)
(* request of the index, a CoE function that found the pool empty and      *)
(* returned what the exchange before gave, a file from a slave whose       *)
(* mailboxes differ in size, a frame larger than the buffer of             *)
(* ecx_EOEreadfragment; ecx_SoEread gets only the length right, where it   *)
(* does not crash.  Object entries go to their places.                     *)
ReadIsWhole ==
  /\ EntriesInPlace
  /\ Succeeded({"SDOread"}) => buf = Entire(job.size) \/ (missed /\ loc.segment) \/ Mistaken \/ Dry
  /\ Succeeded({"FOEread"}) => buf = Entire(job.size) \/ job.l # job.rl
  /\ Succeeded({"TxPDO", "EOEgetIp"}) => buf = Entire(job.size) \/ Dry
  /\ Succeeded({"readOD", "readOE", "readODlist"}) => buf = Entire(Lower(job.size, job.room)) \/ Dry
  /\ Succeeded({"SoEread"}) => Length(buf) = Lower(job.size, job.room)
  /\ Succeeded({"EOErecv", "EOEreadfragment"}) =>
       \/ \E f \in {1, 2} : buf = <<<<1000 * f, 1000 * f + job.size>>>>
       \/ job.op = "EOEreadfragment" /\ job.size > job.room

(* After a write that reports success the slave holds the whole object,    *)
(* file or frame, as soon as it has served what is in its mailbox          *)
(* (ecx_SDOwrite, ecx_FOEwrite, ecx_SoEwrite, ecx_EOEsend).  Not so: a     *)
(* slave that said busy before the first packet or to the empty last one,  *)
(* an SoE fragment whose send failed, a segmented download of which an     *)
(* answer came when nobody waited for it any more (each segment then takes *)
(* the answer to an earlier one, the last one too), an answer to an        *)
(* earlier request, a CoE function that found the pool empty and returned  *)
(* what the exchange before gave, and a PDO larger than the mailbox.       *)
WriteIsWhole ==
  Succeeded({"SDOwrite", "FOEwrite", "SoEwrite", "EOEsend", "RxPDO"}) /\ alive /\ outbox = Null =>
    \/ dev.stored = Entire(job.size)
    \/ job.op = "FOEwrite" /\ dev.busy /\ (loc.sendpacket = 0 \/ loc.segmentdata = 0)
    \/ job.op = "SoEwrite" /\ unsent
    \/ job.op = "SDOwrite" /\ loc.segment /\ late
    \/ job.op = "SDOwrite" /\ Mistaken
    \/ job.op \in {"SDOwrite", "RxPDO"} /\ Dry
    \/ job.op = "RxPDO" /\ job.size > job.l - 8

(* What a read has collected never goes beyond the caller's buffer         *)
(* (psize, EC_MAXODLIST, EC_MAXNAME), and no message carries bytes from    *)
(* beyond the end of what is transferred.                                  *)
WithinBuffer ==
  /\ Length(buf) <= job.room
  /\ \A m \in ({req, outbox, inbox} \cup ToSet(dev.todo)) \ {Null} : m \in Messages(Piece)

(* Every call comes back, whatever is lost or refused.  Not so: a          *)
(* segmented upload asks for the next segment for ever, without a receive  *)
(* in between, when the slave has vanished or can take nothing until its   *)
(* answers are read; ecx_EOEsend to a mailbox that holds no block of 32    *)
(* bytes sends empty fragments for ever; and the FoE, SoE and EoE          *)
(* functions crash when there is no buffer for a message, ecx_SoEread also *)
(* on any data when there was nothing to purge.                            *)
Endless ==
  \/ job.op = "SDOread" /\ loc.segment /\ pc = "send" /\ Stuck
  \/ job.op = "EOEsend" /\ job.l - 10 < Lower(32, job.size)

Crashed == pc = "crashed" /\ job.op \in Unchecked

TransfersEnd == <>(pc \in {"done", "dry"} \/ Endless \/ Crashed)
=============================================================================
