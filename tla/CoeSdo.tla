------------------------------- MODULE CoeSdo -------------------------------
(***************************************************************************)
(* SDO transfers and the other CoE services of SOEM ec_coe.c.              *)
(***************************************************************************)
EXTENDS TransferLink

Upload(sub) == [kind |-> "upload", index |-> "x", sub |-> sub]
UploadOther == [kind |-> "upload", index |-> "y", sub |-> 1]
DownloadOther ==   \* another value of the object
  [kind |-> "download", index |-> "x", sub |-> 1, size |-> 1, piece |-> <<1000, 1001>>]
UploadSegment(t) == [kind |-> "upload segment", toggle |-> t]

(* The messages of the SDO services and of the SDO information service,    *)
(* which carry pieces of Part.                                             *)
ec_SDOt(Part) ==
  [kind : {"upload"}, index : {"x", "y"}, sub : 0 .. 255]
  \cup [kind : {"expedited", "normal"}, index : {"x", "y"}, sub : 0 .. 255, size : Nat, piece : Part]
  \cup [kind : {"download"}, index : {"x", "y"}, sub : 0 .. 255, size : Nat, piece : Part]
  \cup [kind : {"downloaded"}, index : {"x", "y"}, sub : 0 .. 255]
  \cup [kind : {"upload segment"}, toggle : BOOLEAN] \cup [kind : {"segment downloaded", "abort"}]
  \cup [kind : {"segment"}, last : BOOLEAN, piece : Part]
  \cup [kind : {"download segment"}, toggle : BOOLEAN, piece : Part, last : BOOLEAN]
  \cup [kind : {"rxpdo", "txpdo"}, piece : Part] \cup [kind : {"tx"}]

ec_SDOservicet(Part) ==
  [kind : {"od", "odlist"}] \cup [kind : {"od"}, piece : Part]
  \cup [kind : {"oe"}, sub : 0 .. 255] \cup [kind : {"oe"}, sub : 0 .. 255, piece : Part]
  \cup [kind : {"odlist"}, piece : Part, left : Nat]

(* Transfer sizes: the mailbox less its header, CoE and SDO header.        *)
MaxData == job.l - 16
MaxSegment == MaxData + 7

-----------------------------------------------------------------------------
(* ecx_SDOread.                                                            *)
SDOreadLoc == [segment |-> FALSE, toggle |-> FALSE]
SDOreadBegin == Begin(Upload(1), SDOreadLoc)

(* The next segment is asked for with the other toggle bit, whether the    *)
(* last one was answered or not.                                           *)
NextUpload(toggle) ==
  /\ Say(UploadSegment(toggle))
  /\ loc' = [segment |-> TRUE, toggle |-> toggle]

SDOreadSend ==
  \E ok \in BOOLEAN :
    /\ Sending("SDOread", ok) /\ Keep
    /\ \/ ok /\ Wait /\ UNCHANGED loc
       \/ ~ok /\ loc.segment /\ NextUpload(~loc.toggle)
       \/ ~ok /\ ~loc.segment /\ Return(0)

(* The answer's index is compared, not its subindex.                       *)
AnyIndex(m) == m.kind \in {"expedited", "normal"}   \* a mutant

IsUploaded(m) == m.kind \in {"expedited", "normal"} /\ m.index = "x"

Whole(m) == IsUploaded(m) /\ m.size <= job.room /\ Span(m.piece) = m.size
InPart(m) == IsUploaded(m) /\ m.size <= job.room /\ Span(m.piece) < m.size
TooSmall(m) == IsUploaded(m) /\ m.size > job.room

(* The late answer to a download of the index passes for one of size 0.    *)
IsLateDownload(m) == m.kind = "downloaded" /\ m.index = "x"

SDOreadFirst ==
  \E m \in Answers :
    /\ Receiving("SDOread", m) /\ ~loc.segment
    /\ \/ m = Null /\ Return(0) /\ Keep
       \/ m # Null /\ Whole(m) /\ buf' = Glue(<<>>, m.piece) /\ Return(1)
       \/ m # Null /\ InPart(m) /\ buf' = Glue(<<>>, m.piece) /\ NextUpload(FALSE)
       \/ m # Null /\ TooSmall(m) /\ Return(0) /\ Keep
       \/ m # Null /\ IsLateDownload(m) /\ Return(1) /\ Keep
       \/ m # Null /\ ~IsUploaded(m) /\ ~IsLateDownload(m) /\ Return(0) /\ Keep

SDOreadSegment ==
  \E m \in Answers :
    /\ Receiving("SDOread", m) /\ loc.segment
    /\ \/ m = Null /\ NextUpload(~loc.toggle) /\ Keep
       \/ /\ m # Null /\ m.kind = "segment" /\ buf' = Glue(buf, m.piece)
          /\ IF m.last THEN Return(1) ELSE NextUpload(~loc.toggle)
       \/ m # Null /\ m.kind # "segment" /\ Return(0) /\ Keep

SDOread == SDOreadSend \/ SDOreadFirst \/ SDOreadSegment

-----------------------------------------------------------------------------
(* ecx_SDOwrite.                                                           *)
Download(size) ==
  LET n == IF size <= 4 THEN size ELSE Lower(size, MaxData) IN
  [kind |-> "download", index |-> "x", sub |-> 1, piece |-> <<0, n>>, size |-> size]

SDOwriteLoc(size, n) == [segment |-> FALSE, toggle |-> FALSE, at |-> n, notLast |-> n < size]

SDOwriteBegin ==
  LET m == Download(job.size) IN Begin(m, SDOwriteLoc(job.size, m.piece[2]))

NextPiece(at) == <<at, at + Lower(job.size - at, MaxSegment)>>

NextDownload(toggle) ==
  LET piece == NextPiece(loc.at)
      last == piece[2] >= job.size
  IN /\ Say([kind |-> "download segment", toggle |-> toggle, piece |-> piece, last |-> last])
     /\ loc' = [segment |-> TRUE, toggle |-> toggle, at |-> piece[2], notLast |-> ~last]

(* Going on with the next segment, also after a send that failed.          *)
GoOn(w) ==
  IF loc.notLast THEN NextDownload(loc.segment /\ ~loc.toggle) ELSE Return(w)

SDOwriteSend ==
  \E ok \in BOOLEAN :
    /\ Sending("SDOwrite", ok) /\ Keep
    /\ \/ ok /\ Wait /\ UNCHANGED loc
       \/ ~ok /\ loc.segment /\ GoOn(0)
       \/ ~ok /\ ~loc.segment /\ Return(0)

(* An SDO response of the same index and subindex is taken for the answer  *)
(* to the first frame, whatever its command.                               *)
IsDownloaded(m) ==
  m.kind \in {"expedited", "normal", "downloaded"} /\ m.index = "x" /\ m.sub = 1

IsSegmentTaken(m) == m.kind = "segment downloaded"

SDOwriteReceive ==
  \E m \in Answers :
    /\ Receiving("SDOwrite", m) /\ Keep
    /\ LET good == m # Null /\ IF loc.segment THEN IsSegmentTaken(m) ELSE IsDownloaded(m) IN
       \/ good /\ GoOn(1)
       \/ m = Null /\ loc.segment /\ GoOn(0)
       \/ ~good /\ ~(m = Null /\ loc.segment) /\ Return(0)

SDOwrite == SDOwriteSend \/ SDOwriteReceive

-----------------------------------------------------------------------------
(* ecx_RxPDO sends as much as fits one mailbox; ecx_TxPDO.                 *)
RxPDOrequest(size, l) == [kind |-> "rxpdo", piece |-> <<0, Lower(size, l - 8)>>]

RxPDO ==
  \E ok \in BOOLEAN : Sending("RxPDO", ok) /\ Keep /\ Return(IF ok THEN 1 ELSE 0)

Fits(m) == Span(m.piece) <= job.room

TxPDOreceive ==
  \E m \in Answers :
    /\ Receiving("TxPDO", m)
    /\ IF m # Null /\ m.kind = "txpdo" /\ Fits(m)
       THEN buf' = Glue(<<>>, m.piece) /\ Return(1) ELSE Keep /\ Return(0)

(* ecx_readODdescription and ecx_readOEsingle: the answer's object is not  *)
(* compared; a name is cut at room.                                        *)
Named(m) == buf' = Glue(<<>>, <<m.piece[1], m.piece[1] + Lower(Span(m.piece), job.room)>>)

ODreceive ==
  \E m \in Answers :
    /\ Receiving("readOD", m)
    /\ IF m # Null /\ m.kind = "od" THEN Named(m) /\ Return(1) ELSE Keep /\ Return(0)

(* ecx_readOE asks for the subindexes up to MaxSub one after the other,    *)
(* whatever became of the ones before, and returns what the last one did.  *)
(* entry: the subindex whose description went to each place.               *)
MaxSub == 1
None == -1
OErequest(sub) == [kind |-> "oe", sub |-> sub]
OEbegin == Begin(OErequest(0), [sub |-> 0, entry |-> [k \in 0 .. MaxSub |-> None]])

OEnext(w, entry) ==
  IF loc.sub < MaxSub
  THEN /\ pc' = "purge" /\ req' = OErequest(loc.sub + 1) /\ UNCHANGED wkc
       /\ loc' = [sub |-> loc.sub + 1, entry |-> entry]
  ELSE pc' = "done" /\ wkc' = w /\ loc' = [loc EXCEPT !.entry = entry] /\ UNCHANGED req

OEsend ==
  \E ok \in BOOLEAN :
    /\ Sending("readOE", ok) /\ Keep
    /\ IF ok THEN Wait /\ UNCHANGED loc ELSE OEnext(0, loc.entry)

OEreceive ==
  \E m \in Answers :
    /\ Receiving("readOE", m)
    /\ IF m # Null /\ m.kind = "oe"
       THEN Named(m) /\ OEnext(1, [loc.entry EXCEPT ![loc.sub] = m.sub])
       ELSE Keep /\ OEnext(0, loc.entry)

(* ecx_readODlist: fragments until the slave says that none is left.       *)
ODlistReceive ==
  \E m \in Answers :
    /\ Receiving("readODlist", m)
    /\ \/ /\ m # Null /\ m.kind = "odlist"
          /\ buf' = Glue(buf, <<m.piece[1], m.piece[1] + Lower(Span(m.piece), job.room - Length(buf))>>)
          /\ IF m.left > 0 THEN Wait /\ UNCHANGED loc ELSE Return(1)
       \/ m # Null /\ m.kind # "odlist" /\ Return(0) /\ Keep
       \/ m = Null /\ Return(0) /\ Keep

(* Without a buffer these functions return the wkc of the exchange before; *)
(* ecx_readOE goes on with the next subindex.                              *)
Checked == {"SDOread", "SDOwrite", "RxPDO", "TxPDO", "readOD", "readODlist"}
CoeNoBuffer == NoBuffer(Checked) /\ Ends("dry")
OEnoBuffer ==
  NoBuffer({"readOE"}) /\ IF loc.sub < MaxSub THEN OEnext(0, loc.entry) ELSE Ends("dry")

CoeService ==
  \/ RxPDO \/ SendOnce("TxPDO") \/ TxPDOreceive
  \/ SendOnce("readOD") \/ ODreceive \/ OEsend \/ OEreceive
  \/ SendOnce("readODlist") \/ ODlistReceive

CoeStep == SDOread \/ SDOwrite \/ CoeService \/ CoeNoBuffer \/ OEnoBuffer
=============================================================================
