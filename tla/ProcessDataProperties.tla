----------------------- MODULE ProcessDataProperties -----------------------
EXTENDS ProcessData

(* The image bytes of a slave's outputs, inputs and mailbox status.        *)
Area(s) ==
  [out |-> IF group.outputs[s] < 0 THEN {} ELSE group.outputs[s] .. group.outputs[s] + Room(Mapping[s].obits) - 1,
   in |-> IF group.inputs[s] < 0 THEN {} ELSE group.inputs[s] .. group.inputs[s] + Room(Mapping[s].ibits) - 1,
   mbx |-> IF group.mbxstatus[s] < 0 THEN {} ELSE {group.mbxstatus[s]}]

(* The records are well formed: the segments add up to the image, the      *)
(* inputs begin inside the segment they are said to, no frame is forgotten *)
(* by the index stack.                                                     *)
WellFormed ==
  /\ group \in GroupRecord(Slaves) /\ stack \in Seq(StackEntry) /\ pulled \in 0 .. Len(stack)
  /\ ~overlap => Before(group.segs, Len(group.segs) + 1) = MapSize(group)
  /\ group.Isegment < Len(group.segs) /\ group.Ioffset <= group.segs[group.Isegment + 1]
  /\ phase = "receive" => Len(stack) = Len(wire) + Len(back)

(* No byte of the image belongs to two slaves or to two directions of one, *)
(* and all of them lie inside the size that was returned, as do the bytes  *)
(* soem_get_total_inout_bytes tells; the mailbox handler finds the slave   *)
(* of every status byte in the lookup (ecx_config_map_group).  Not so:     *)
(* overlapped mode moves the status pointers behind the image; and a slave *)
(* whose FMMUs overran their array when it was mapped again has lost its   *)
(* status byte, keeps the pointer to it and shifts the lookup of the       *)
(* slaves behind it.                                                       *)
Misplaced(s, x) == x = "mbx" /\ (overlap \/ Overrun(group, s))

LookupIsRight ==
  \A k \in 0 .. group.mbxlen - 1 :
    group.mbxstatus[group.lookup[k + 1]] = group.Obytes + group.Ibytes + k

Areas == Slaves \X {"out", "in", "mbx"}

AreasApart ==
  /\ WellFormed
  /\ ~overlap => TotalInoutBytes.out + TotalInoutBytes.in <= PdoTotalBytes
  /\ \A a, b \in {c \in Areas : ~Misplaced(c[1], c[2])} :
       /\ a = b \/ Area(a[1])[a[2]] \cap Area(b[1])[b[2]] = {}
       /\ Area(a[1])[a[2]] \subseteq 0 .. MapSize(group) - 1
  /\ overlap \/ LookupIsRight \/ \E s \in Slaves : Overrun(group, s)

(* The mapping counts the answers of a slave wrongly in these cases: a     *)
(* slave with less than a byte of inputs has a mailbox, its status lies in *)
(* another frame than its inputs, or data longer than a frame follows a    *)
(* segment that is in use.                                                 *)
FrameOf(a) == Min({k \in DOMAIN group.segs : a < Before(group.segs, k + 1)})

CountedRight ==
  \A s \in Slaves :
    /\ chain[s].mbx => Mapping[s].ibits \notin 1 .. 7
    /\ chain[s].mbx /\ Mapping[s].ibits > 0 =>
         LET fs == ToSet(group.fmmu[s]) IN
         \A f \in fs : f.phys = SM1Stat /\ f.log < MapSize(group) => FrameOf(f.log) \in {FrameOf(a) : a \in
            UNION {d.log .. d.log + d.len - 1 : d \in {e \in fs : e.phys # SM1Stat}}}
    /\ Room(Mapping[s].obits) <= MaxLRW - FirstDC /\ Room(Mapping[s].ibits) <= MaxLRW - FirstDC

Missing == {k \in DOMAIN back : back[k].cmd = "lost" /\ back[k].wkc > 0}

(* The working counter of a cycle equals 2 * outputsWKC + inputsWKC, the   *)
(* value the mapping announced, exactly when no frame a slave took part in *)
(* is missing; so a user may judge the inputs by it.                       *)
WkcTellsAll ==
  phase = "done" /\ CountedRight /\ back # <<>> =>
    (result = group.expected <=> Missing = {})

(* When no frame is missing, every slave has the outputs the loop wrote in *)
(* this cycle, each byte at the place its sync managers give it, and the   *)
(* image and the loop have the inputs the slaves held in this cycle,       *)
(* however the image was cut into frames, and the time of the clock is the *)
(* one of this cycle.  The loop leaves a slave with fewer than eight bits  *)
(* out: it has no bytes for it.                                            *)
WholeCycle ==
  phase = "done" /\ Missing = {} =>
    /\ hasdc /\ back # <<>> /\ back[1].cmd # "lost" => dctime = cycle
    /\ \A s \in Slaves :
      /\ \A k \in 0 .. Room(Mapping[s].ibits) - 1 : image[group.inputs[s] + k] = <<"in", s, k, cycle>>
      /\ \A k \in 0 .. InoutSize(Mapping[s]).in - 1 : inputs[s][k] = <<"in", s, k, cycle>>
      /\ \A k \in DOMAIN Mapping[s].out, d \in 0 .. MaxLRW :
           d < Mapping[s].out[k].len /\ InoutSize(Mapping[s]).out > 0 =>
             memory[s][Mapping[s].out[k].addr + d]
               = <<"out", s, ByteCount(Mapping[s].out, k - 1) + d, cycle>>

(* Whatever is lost: a slave's memory and the loop's copy of its inputs    *)
(* hold only bytes of that slave in their own places; a byte may be of an  *)
(* earlier cycle, but never of a later one or of another slave.            *)
StaleIsOwn ==
  \A s \in Slaves :
    /\ \A k \in DOMAIN inputs[s] : inputs[s][k] \in {Nothing} \cup {<<"in", s, k, n>> : n \in 1 .. cycle}
    /\ \A p \in DOMAIN memory[s] : \E k \in DOMAIN Mapping[s].out :
         LET sm == Mapping[s].out[k] IN
         /\ p \in sm.addr .. sm.addr + sm.len - 1
         /\ memory[s][p] \in {Nothing} \cup
              {<<"out", s, ByteCount(Mapping[s].out, k - 1) + p - sm.addr, n>> : n \in 1 .. cycle}

(* A mailbox flag in the image is of the cycle just received, never one of *)
(* an earlier cycle that a lost frame left standing: the mailbox handler   *)
(* would fetch a mailbox that is empty.  A slave that has lost its status  *)
(* byte looks elsewhere.                                                   *)
StatusIsFresh ==
  phase = "done" /\ ~overlap =>
    \A s \in Slaves : group.mbxstatus[s] >= 0 /\ ~Overrun(group, s) =>
      image[group.mbxstatus[s]] \in {Nothing, <<"mbx", s, 0, cycle>>}

(* A cycle whose frames all came back is exchanged as a whole; one with a  *)
(* frame missing leaves older bytes, but every slave only its own, and no  *)
(* mailbox flag of an earlier cycle (ecx_send_processdata_group,           *)
(* ecx_receive_processdata_group, RunPdoLoop).                             *)
ExchangeIsWhole == WholeCycle /\ StaleIsOwn /\ StatusIsFresh
=============================================================================
