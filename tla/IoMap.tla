------------------------------- MODULE IoMap -------------------------------
(***************************************************************************)
(* The process data image of the EtherCAT master (SOEM ec_config.c): which *)
(* logical addresses every slave's outputs, inputs and mailbox status      *)
(* take, how the image is cut into frames and which working counter a full *)
(* exchange should bring.  Group 0, bytes only: outside packed mode every  *)
(* slave starts on a byte.                                                 *)
(*                                                                         *)
(* A mapping is [obits, ibits, out, in]: its bits and the sync managers of *)
(* each direction as [addr, len].  A slave of the chain is [id, coe, soe,  *)
(* sii, mbx, block]: the mappings it tells through CoE, SoE and its SII,   *)
(* whether it has a mailbox, whether it lacks LRW.                         *)
(***************************************************************************)
EXTENDS Integers, Sequences, FiniteSets, SequencesExt, FiniteSetsExt

CONSTANTS
  MaxLRW,    \* EC_MAXLRWDATA
  FirstDC,   \* EC_FIRSTDCDATAGRAM
  MaxFmmu,   \* EC_MAXFMMU
  SM1Stat    \* ECT_REG_SM1STAT

ASSUME IoMapAssumption == MaxLRW \in Nat /\ FirstDC \in 0 .. MaxLRW - 1 /\ MaxFmmu \in Nat

(* The records of the header: a sync manager, an FMMU, a group.            *)
SyncManager == [addr : Nat, len : Nat]
Fmmu == [log : Nat, len : 1 .. MaxLRW * MaxFmmu, phys : Nat, type : {"out", "in"}]
GroupRecord(slaves) ==
  [Obytes : Nat, Ibytes : Nat, mbxlen : 0 .. Cardinality(slaves),
   segs : Seq(0 .. MaxLRW), Isegment : Nat, Ioffset : 0 .. MaxLRW,
   expected : Nat, fmmu : [slaves -> Seq(Fmmu)], block : BOOLEAN,
   outputs : [slaves -> Nat \cup {-1}], inputs : [slaves -> Nat \cup {-1}],
   mbxstatus : [slaves -> Nat \cup {-1}], lookup : Seq(slaves)]

NoMapping == [obits |-> 0, ibits |-> 0, out |-> <<>>, in |-> <<>>]
Whole == 1000000   \* longer than any image: a piece that is in every segment

Least(a, b) == IF a < b THEN a ELSE b
Most(a, b) == IF a < b THEN b ELSE a

(***************************************************************************)
(* Which mapping a slave gets.                                             *)
(***************************************************************************)
(* ecx_lookup_mapping: that of the first slave before it with its identity.*)
LookupMapping(chain, maps, s) ==
  LET same == {i \in 1 .. s - 1 : chain[i].id = chain[s].id}
  IN  IF same = {} THEN NoMapping ELSE maps[Min(same)]

IsEmpty(m) == m.obits = 0 /\ m.ibits = 0

MapCoeSoe(slave) == IF IsEmpty(slave.coe) THEN slave.soe ELSE slave.coe

MapSii(chain, maps, s) ==
  LET found == LookupMapping(chain, maps, s)
      own == MapCoeSoe(chain[s])
  IN  IF ~IsEmpty(own) THEN own
      ELSE IF ~IsEmpty(found) THEN found ELSE chain[s].sii

FindMappings(chain) ==
  FoldLeft(LAMBDA maps, s : Append(maps, MapSii(chain, maps, s)), <<>>, [s \in DOMAIN chain |-> s])

(* ecx_map_sm: below eight bits a slave is bit oriented and has no bytes.  *)
WholeBytes(bits) == bits \div 8   \* a mutant

Bytes(bits) == IF bits > 7 THEN (bits + 7) \div 8 ELSE 0

Room(bits) == (bits + 7) \div 8

(***************************************************************************)
(* The FMMUs of one direction, from logical address log on.  Sync managers *)
(* whose addresses connect share one; ByteCount runs on from one FMMU to   *)
(* the next.                                                               *)
(***************************************************************************)
OneRun(sms) == IF sms = <<>> THEN <<>> ELSE <<Len(sms)>>   \* a mutant

RunEnds(sms) ==
  SelectSeq([e \in DOMAIN sms |-> e],
            LAMBDA e : e = Len(sms) \/ sms[e + 1].addr > sms[e].addr + sms[e].len)

RunStart(sms, e) ==
  Max({b \in 1 .. e : b = 1 \/ sms[b].addr > sms[b - 1].addr + sms[b - 1].len})

ByteCount(sms, e) == MapThenSumSet(LAMBDA k : sms[k].len, 1 .. e)
LengthOf(fmmus) == MapThenSumSet(LAMBDA k : fmmus[k].len, DOMAIN fmmus)

CreateMappings(sms, bits, log, type) ==
  LET fmmu(done, e) ==
        [log |-> log + done, phys |-> sms[RunStart(sms, e)].addr, type |-> type,
         len |-> IF Bytes(bits) = 0 THEN 1
                 ELSE Least(ByteCount(sms, e), Bytes(bits) - done)]
  IN  FoldLeft(LAMBDA fs, e : IF LengthOf(fs) < Room(bits) THEN Append(fs, fmmu(LengthOf(fs), e)) ELSE fs,
               <<>>, RunEnds(sms))

(***************************************************************************)
(* The image grows by diff bytes of one slave.  A segment that would       *)
(* overflow is closed; data longer than a segment is cut; every segment    *)
(* the slave has a part in counts for the working counter.                 *)
(***************************************************************************)
Grow(st, diff, olen, ilen) ==
  LET close == st.size + diff > st.max /\ diff <= st.max
      max == IF close THEN MaxLRW ELSE st.max
      size == (IF close THEN 0 ELSE st.size) + diff
      cuts == IF size <= max THEN 0 ELSE 1 + (size - max - 1) \div MaxLRW
      before(j) == IF j = 0 THEN 0 ELSE max + (j - 1) * MaxLRW
      rest == size - before(cuts)
      parts(len) == Cardinality({j \in 0 .. cuts - 1 : len > before(j)})
                    + (IF rest > 0 /\ diff > 0 /\ len > before(cuts) THEN 1 ELSE 0)
  IN  [st EXCEPT
        !.segs = (IF close THEN Append(@, st.size) ELSE @)
                 \o [j \in 1 .. cuts |-> IF j = 1 THEN max ELSE MaxLRW],
        !.size = rest, !.max = IF cuts > 0 THEN MaxLRW ELSE max,
        !.log = @ + diff,
        !.owkc = @ + parts(olen), !.iwkc = @ + parts(ilen)]

(* Whoever maps again goes on with the FMMUs that are left (FMMUunused)    *)
(* and keeps the pointers a slave has already.                             *)
Kept(old, new) == IF old < 0 THEN new ELSE old

MapOutputs(st, s, m) ==
  LET fs == CreateMappings(m.out, m.obits, st.log, "out")
  IN  IF m.obits = 0 THEN st
      ELSE Grow([st EXCEPT !.fmmu[s] = @ \o fs, !.outputs[s] = Kept(@, st.log)], LengthOf(fs), Whole, 0)

MapInputs(st, s, m) ==
  LET fs == CreateMappings(m.in, m.ibits, st.log, "in")
  IN  IF m.ibits = 0 THEN st
      ELSE Grow([st EXCEPT !.fmmu[s] = @ \o fs, !.inputs[s] = Kept(@, st.log)], LengthOf(fs), 0, Whole)

(* Overlapped mode: inputs and outputs of a slave share their addresses.   *)
MapBoth(st, s, m) ==
  LET o == CreateMappings(m.out, m.obits, st.log, "out")
      i == CreateMappings(m.in, m.ibits, st.log, "in")
  IN  Grow([st EXCEPT !.fmmu[s] = o \o i, !.outputs[s] = st.log, !.inputs[s] = st.log,
                      !.oend = st.log + LengthOf(o), !.iend = st.log + LengthOf(i)],
           Most(LengthOf(o), LengthOf(i)), LengthOf(o), LengthOf(i))

(* One byte of status for every slave with a mailbox and an FMMU left.  A  *)
(* slave without input bytes answers for this one too.  The lookup goes on *)
(* behind what an earlier mapping left in it.                              *)
MapMbxStatus(st, s, m, mbx) ==
  LET has == mbx /\ Len(st.fmmu[s]) < MaxFmmu
      diff == IF has THEN 1 ELSE 0
      split == st.size + diff > MaxLRW - FirstDC
      f == [log |-> st.log, phys |-> SM1Stat, type |-> "in", len |-> 1]
  IN  [st EXCEPT !.fmmu[s] = IF has THEN Append(@, f) ELSE @,
                 !.mbxstatus[s] = IF has THEN st.log ELSE @,
                 !.lookup = IF has THEN Append(@, s) ELSE @,
                 !.mbxlen = @ + diff, !.log = @ + diff,
                 !.segs = IF split THEN Append(@, st.size) ELSE @,
                 !.size = IF split THEN diff ELSE @ + diff,
                 !.iwkc = @ + (IF has /\ Bytes(m.ibits) = 0 THEN 1 ELSE 0)]

(***************************************************************************)
(* The image of a group, outputs first or overlapped.                      *)
(***************************************************************************)
Each(chain, op(_, _), st) == FoldLeft(op, st, [s \in DOMAIN chain |-> s])

(* What ecx_config_init leaves of the slaves, or an earlier mapping.       *)
Unmapped(chain) ==
  LET none == [s \in DOMAIN chain |-> -1] IN
  [fmmu |-> [s \in DOMAIN chain |-> <<>>], outputs |-> none, inputs |-> none, mbxstatus |-> none,
   lookup |-> <<>>]

EmptyImage(old) ==
  [log |-> 0, segs |-> <<>>, size |-> 0, max |-> MaxLRW - FirstDC, owkc |-> 0, iwkc |-> 0,
   oend |-> 0, iend |-> 0, mbxlen |-> 0, fmmu |-> old.fmmu,
   outputs |-> old.outputs, inputs |-> old.inputs, mbxstatus |-> old.mbxstatus,
   lookup |-> old.lookup]

AddMbxStatus(chain, maps, st) == Each(chain, LAMBDA a, s : MapMbxStatus(a, s, maps[s], chain[s].mbx), st)

(* What both variants leave in the group record.                           *)
Group(chain, st, obytes, ibytes, iseg, ioff) ==
  [Obytes |-> obytes, Ibytes |-> ibytes, mbxlen |-> st.mbxlen,
   segs |-> Append(st.segs, st.size), Isegment |-> iseg, Ioffset |-> ioff,
   expected |-> 2 * st.owkc + st.iwkc, fmmu |-> st.fmmu,
   block |-> \E s \in DOMAIN chain : chain[s].block,
   outputs |-> st.outputs, inputs |-> st.inputs, mbxstatus |-> st.mbxstatus, lookup |-> st.lookup]

(* What ecx_config_map_group returns: the length of the image.             *)
MapSize(g) == g.Obytes + g.Ibytes + g.mbxlen

MainMapGroup(chain, old) ==
  LET maps == FindMappings(chain)
      out == Each(chain, LAMBDA a, s : MapOutputs(a, s, maps[s]), EmptyImage(old))
      in  == Each(chain, LAMBDA a, s : MapInputs(a, s, maps[s]), out)
      all == AddMbxStatus(chain, maps, in)
  IN  Group(chain, all, out.log, in.log - out.log, Len(out.segs), out.size)

OverlapMapGroup(chain) ==
  LET maps == FindMappings(chain)
      both == Each(chain, LAMBDA a, s : MapBoth(a, s, maps[s]), EmptyImage(Unmapped(chain)))
      all == AddMbxStatus(chain, maps, both)
      moved(n, s, by) == IF n[s] < 0 THEN n[s] ELSE n[s] + by
  IN  Group(chain,
            [all EXCEPT !.inputs = [s \in DOMAIN chain |-> moved(@, s, both.oend)],
                        !.mbxstatus = [s \in DOMAIN chain |-> moved(@, s, both.oend + both.iend)]],
            both.oend, both.iend, 0, 0)

(* The program maps when it opens the adapter and, through RebuildPdoMap,  *)
(* again at every move to SAFE-OP.  FMMUs beyond the slave's array are     *)
(* written over what follows it there, the settings of its mailbox.  Its   *)
(* chip has as many as it is told of.                                      *)
Overrun(g, s) == Len(g.fmmu[s]) > MaxFmmu

MapAgain(chain, g, times) ==
  FoldLeft(LAMBDA m, k : MainMapGroup(chain, m), g, [k \in 1 .. times |-> k])

MapGroup(chain, overlap) ==
  IF overlap THEN OverlapMapGroup(chain) ELSE MainMapGroup(chain, Unmapped(chain))
=============================================================================
