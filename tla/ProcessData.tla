---------------------------- MODULE ProcessData ----------------------------
(***************************************************************************)
(* The cyclic exchange of process data: the loop of the PDO worker, the    *)
(* frames ecx_send_processdata_group cuts the image into, the slaves they  *)
(* pass, and what ecx_receive_processdata_group makes of those that come   *)
(* back (SOEM ec_main.c).  A byte of process data is a tuple that names    *)
(* its slave, its place and the cycle it is from.                          *)
(***************************************************************************)
EXTENDS IoMap, TLC

CONSTANTS
  Chains,    \* the networks considered
  Remaps,    \* times the network may be mapped again (bound)
  Cycles,    \* cycles of the loop (bound)
  MaxBuf,    \* EC_MAXBUF: frames of one cycle
  MaxLost    \* frames lost (bound)

ASSUME ProcessDataAssumption ==
  \A net \in Chains : \A s \in DOMAIN net : \A m \in {net[s].coe, net[s].soe, net[s].sii} :
    m.out \in Seq(SyncManager) /\ m.in \in Seq(SyncManager)

VARIABLES
  chain, overlap, hasdc,   \* the network and its modes, fixed from the start
  group,     \* context->grouplist[0] and the slaves' pointers and FMMUs
  image,     \* the IOmap
  inputs,    \* the inputs of every slave as the PDO worker last copied them
  memory,    \* the output memory of every slave, by physical address
  cycle,     \* cycles begun
  phase,     \* where the loop is
  stack,     \* context->idxstack: [cmd, adr, len, off, dc] of each frame
  pulled,    \* context->idxstack.pulled
  wire,      \* the frames under way
  back,      \* what became of the frames before them
  dctime,    \* context->DCtime: the cycle the clock was last read in
  wkc, valid, result,   \* of ecx_receive_processdata_group
  lost       \* frames lost so far

vars == <<chain, overlap, hasdc, group, image, inputs, memory, cycle, phase, stack,
          pulled, wire, back, dctime, wkc, valid, result, lost>>
network == <<chain, overlap, hasdc, group>>

Nothing == <<"none", 0, 0, 0>>
NoFrame == -1

(* An entry of the index stack.                                            *)
StackEntry == [cmd : {"LRD", "LWR", "LRW"}, adr : Nat, len : 0 .. MaxLRW, off : Nat, dc : BOOLEAN]

Slaves == DOMAIN chain
Mapping == FindMappings(chain)
ImageOf(g) == 0 .. 2 * MapSize(g)

(* ecx_config_map_group has run.  Without LRW there is no overlapped mode. *)
Init ==
  /\ chain \in Chains /\ overlap \in BOOLEAN /\ hasdc \in BOOLEAN
  /\ overlap => \A s \in DOMAIN chain : ~chain[s].block
  /\ \E n \in 0 .. Remaps :
       /\ group = MapAgain(chain, MapGroup(chain, overlap), n)
       /\ n > 0 => ~overlap
  /\ image = [a \in ImageOf(group) |-> Nothing]
  /\ inputs = [s \in DOMAIN chain |-> [k \in 0 .. Bytes(Mapping[s].ibits) - 1 |-> Nothing]]
  /\ memory = [s \in DOMAIN chain |-> <<>>]
  /\ cycle = 0 /\ phase = "start" /\ stack = <<>> /\ pulled = 0 /\ wire = <<>> /\ back = <<>>
  /\ dctime = 0 /\ wkc = 0 /\ valid = FALSE /\ result = NoFrame /\ lost = 0

(***************************************************************************)
(* The PDO loop writes every slave's outputs into the image.  Its buffers  *)
(* have the sizes soem_get_slave_inout_size told, whole bytes: none for a  *)
(* slave with fewer than eight bits, which is left out.                    *)
(***************************************************************************)
InoutSize(m) == [out |-> Bytes(m.obits), in |-> Bytes(m.ibits)]
TotalInoutBytes ==
  [out |-> MapThenSumSet(LAMBDA s : InoutSize(Mapping[s]).out, Slaves),
   in |-> MapThenSumSet(LAMBDA s : InoutSize(Mapping[s]).in, Slaves)]
PdoTotalBytes == MapSize(group)   \* of the last mapping

(* soem_write_bytes and soem_read_bytes, from the slave's place in the     *)
(* image; how far that reaches is not checked.                             *)
WriteBytes(img, s, buf) ==
  IF group.outputs[s] < 0 THEN img
  ELSE [a \in {group.outputs[s] + k : k \in DOMAIN buf} |-> buf[a - group.outputs[s]]] @@ img

ReadBytes(img, s, buf) ==
  IF group.inputs[s] < 0 THEN buf ELSE [k \in DOMAIN buf |-> img[group.inputs[s] + k]]

OutBuf(s) == [k \in 0 .. InoutSize(Mapping[s]).out - 1 |-> <<"out", s, k, cycle + 1>>]

WriteOutputs ==
  /\ phase \in {"start", "done"} /\ cycle < Cycles
  /\ cycle' = cycle + 1 /\ phase' = "send"
  /\ image' = FoldLeft(LAMBDA img, s : WriteBytes(img, s, OutBuf(s)), image, [s \in Slaves |-> s])
  /\ UNCHANGED <<network, inputs, memory, stack, pulled, wire, back, dctime, wkc, valid, result, lost>>

(***************************************************************************)
(* The frames of one cycle: pieces of the given lengths, up to the one     *)
(* that makes the data complete.                                           *)
(***************************************************************************)
Before(lens, k) == MapThenSumSet(LAMBDA j : lens[j], 1 .. k - 1)

Pieces(cmd, lens, length, adr, off) ==
  LET full == {k \in DOMAIN lens : Before(lens, k + 1) = length}
      last == IF full = {} THEN Len(lens) ELSE Min(full)
  IN  [k \in 1 .. last |-> [cmd |-> cmd, adr |-> adr + Before(lens, k), len |-> lens[k],
                            off |-> off + Before(lens, k), dc |-> FALSE]]

Lrd ==
  LET seg(k) == group.segs[k + group.Isegment] - (IF k = 1 THEN group.Ioffset ELSE 0)
  IN  IF group.Ibytes = 0 THEN <<>>
      ELSE Pieces("LRD", [k \in 1 .. Len(group.segs) - group.Isegment |-> seg(k)],
                  group.Ibytes, group.Obytes, group.Obytes)

Lwr ==
  LET cut(k) == Least(group.segs[k], Most(0, group.Obytes - Before(group.segs, k)))
  IN  IF group.Obytes = 0 THEN <<>>
      ELSE Pieces("LWR", [k \in DOMAIN group.segs |-> cut(k)], group.Obytes, 0, 0)

Length == (IF overlap THEN Most(group.Obytes, group.Ibytes) ELSE group.Obytes + group.Ibytes)
          + group.mbxlen

Lrw == Pieces("LRW", group.segs, Length, 0, IF overlap THEN group.Obytes ELSE 0)

(* Data is sent from where the frame starts in the image, whatever place   *)
(* overlapped mode keeps for the answer.                                   *)
Frames ==
  LET all == IF Length = 0 THEN <<>> ELSE IF group.block THEN Lrd \o Lwr ELSE Lrw
  IN  [k \in DOMAIN all |-> [all[k] EXCEPT !.dc = hasdc /\ k = 1]]

MbxArea == group.Obytes + group.Ibytes .. group.Obytes + group.Ibytes + group.mbxlen - 1

ClearMbxStatus == [a \in DOMAIN image |-> IF a \in MbxArea THEN Nothing ELSE image[a]]

(* A datagram that only reads leaves with zeros in place of data.          *)
DatagramData(cmd, data) == IF cmd = "LRD" THEN [a \in DOMAIN data |-> Nothing] ELSE data

(* The first frame of a network with distributed clocks gets a second      *)
(* datagram, with the time of the reference clock for all the others.      *)
AddDatagram(frame, dg) == [frame EXCEPT !.more = Append(@, dg)]

Built(f, img) ==
  LET data == [a \in f.adr .. f.adr + f.len - 1 |-> img[a]]
      frame == [cmd |-> f.cmd, adr |-> f.adr, data |-> DatagramData(f.cmd, data), wkc |-> 0, more |-> <<>>]
  IN  IF f.dc THEN AddDatagram(frame, [cmd |-> "FRMW", data |-> dctime, wkc |-> 0]) ELSE frame

(* A frame that finds the stack full is sent and forgotten.                *)
PushIndex(st, e) == IF Len(st) < MaxBuf THEN Append(st, e) ELSE st

(* ecx_send_processdata_group: every frame is built, sent and pushed.      *)
Send ==
  /\ phase = "send" /\ phase' = "receive"
  /\ image' = ClearMbxStatus
  /\ stack' = FoldLeft(PushIndex, stack, Frames) /\ back' = <<>> /\ UNCHANGED pulled
  /\ wire' = [k \in DOMAIN Frames |-> Built(Frames[k], ClearMbxStatus)]
  /\ wkc' = 0 /\ valid' = FALSE
  /\ UNCHANGED <<network, inputs, memory, cycle, dctime, result, lost>>

(***************************************************************************)
(* The ring: every slave exchanges the bytes its FMMUs cover and adds one  *)
(* for a read and two for a write to the counter of an LRW, one for either *)
(* to that of an LRD or LWR.  A frame lost before the first slave does     *)
(* nothing, one lost after the last has done its writes.  The time datagram *)
(* is filled by the reference clock and counted by every slave with one.   *)
(* Where two FMMUs read to the same byte the later slave's is left.        *)
(***************************************************************************)
Covers(s, type, a) ==
  {m \in ToSet(group.fmmu[s]) : m.type = type /\ a \in m.log .. m.log + m.len - 1}

Hits(f, type) == {s \in Slaves : \E a \in DOMAIN f.data : Covers(s, type, a) # {}}

(* The input byte a slave holds at a physical address.                     *)
InputAt(s, p) ==
  LET sms == Mapping[s].in
      mine == {k \in DOMAIN sms : p \in sms[k].addr .. sms[k].addr + sms[k].len - 1}
      k == Min(mine)
  IN  IF p = SM1Stat THEN <<"mbx", s, 0, cycle>>
      ELSE IF mine = {} THEN Nothing
      ELSE <<"in", s, ByteCount(sms, k - 1) + p - sms[k].addr, cycle>>

Read(f) ==
  [a \in DOMAIN f.data |->
     LET at == {s \in Slaves : Covers(s, "in", a) # {}}
         s == Max(at)
         m == CHOOSE m \in Covers(s, "in", a) : TRUE
     IN  IF f.cmd = "LWR" \/ at = {} THEN f.data[a] ELSE InputAt(s, m.phys + a - m.log)]

Written(f) ==
  [s \in Slaves |->
     LET mine == {a \in DOMAIN f.data : Covers(s, "out", a) # {}}
         phys(a) == LET m == CHOOSE m \in Covers(s, "out", a) : TRUE IN m.phys + a - m.log
     IN  IF f.cmd = "LRD" THEN memory[s]
         ELSE [p \in {phys(a) : a \in mine} |-> f.data[CHOOSE a \in mine : phys(a) = p]] @@ memory[s]]

Count(f) == (IF f.cmd = "LWR" THEN 0 ELSE Cardinality(Hits(f, "in")))
            + (CASE f.cmd = "LRD" -> 0 [] f.cmd = "LWR" -> 1 [] f.cmd = "LRW" -> 2)
              * Cardinality(Hits(f, "out"))

Circulate ==
  /\ wire # <<>> /\ wire' = Tail(wire)
  /\ LET f == Head(wire) IN
     /\ memory' = Written(f)
     /\ back' = Append(back, [f EXCEPT !.data = Read(f), !.wkc = Count(f),
          !.more = [k \in DOMAIN @ |-> [@[k] EXCEPT !.data = cycle, !.wkc = Len(chain)]]])
  /\ UNCHANGED <<network, image, inputs, cycle, phase, stack, pulled, dctime, wkc, valid, result, lost>>

Lose ==
  /\ wire # <<>> /\ wire' = Tail(wire) /\ lost < MaxLost /\ lost' = lost + 1
  /\ memory' \in {memory, Written(Head(wire))}
  /\ back' = Append(back, [cmd |-> "lost", wkc |-> Count(Head(wire))])
  /\ UNCHANGED <<network, image, inputs, cycle, phase, stack, pulled, dctime, wkc, valid, result>>

(***************************************************************************)
(* ecx_receive_processdata_group: the frames are waited for in the order   *)
(* they were sent.  ecx_waitinframe returns the last counter of a frame,   *)
(* in the frame with the clock datagram that of the clock: the counter of  *)
(* the process data is taken from the frame and starts the sum.            *)
(***************************************************************************)
LastWkc(f) == IF f.more # <<>> THEN f.more[Len(f.more)].wkc ELSE f.wkc

AddLastWkc(f) == wkc + (IF f.cmd = "LWR" THEN 2 ELSE 1) * LastWkc(f)   \* a mutant

AddWkc(f) ==
  LET times == IF f.cmd = "LWR" THEN 2 ELSE 1
  IN  IF f.more # <<>> THEN times * f.wkc ELSE wkc + times * LastWkc(f)

PullIndex == pulled < Len(stack) /\ pulled' = pulled + 1

ReceiveFrame ==
  /\ phase = "receive" /\ pulled < Len(back) /\ PullIndex
  /\ LET f == back[pulled + 1] e == stack[pulled + 1] IN
     IF f.cmd = "lost" THEN UNCHANGED <<image, dctime, wkc, valid>>
     ELSE /\ image' = IF f.cmd = "LWR" THEN image
                      ELSE [a \in {e.off + k : k \in 0 .. e.len - 1} |-> f.data[f.adr + a - e.off]] @@ image
          /\ dctime' = IF f.more = <<>> THEN dctime ELSE f.more[1].data
          /\ wkc' = AddWkc(f) /\ valid' = TRUE
  /\ UNCHANGED <<network, inputs, memory, cycle, phase, stack, wire, back, result, lost>>

(* The stack is cleared; the loop copies every slave's inputs whatever the *)
(* receive returned.                                                       *)
ClearIndex == stack' = <<>> /\ pulled' = 0

Finish ==
  /\ phase = "receive" /\ pulled = Len(stack) /\ phase' = "done"
  /\ ClearIndex
  /\ result' = IF valid THEN wkc ELSE NoFrame
  /\ inputs' = [s \in Slaves |-> ReadBytes(image, s, inputs[s])]
  /\ UNCHANGED <<network, image, memory, cycle, wire, back, dctime, wkc, valid, lost>>

Next == WriteOutputs \/ Send \/ Circulate \/ Lose \/ ReceiveFrame \/ Finish

Spec == Init /\ [][Next]_vars
=============================================================================
