----------------------------- MODULE ObjectMap -----------------------------
(***************************************************************************)
(* What a slave says of its process data: CoE's object dictionary, entry   *)
(* by entry or with complete access, SoE's IDN lists as far as they get    *)
(* here (SOEM ec_coe.c, ec_soe.c), its SII as the last resort              *)
(* (ec_config.c), and the ENI's commands that go before.                   *)
(*                                                                         *)
(* A device d has types (the use of every sync manager), assign (the PDOs  *)
(* of a sync manager) and pdo (the bits of a PDO's entries), and for SoE a *)
(* number of drives.  `lost` names the reads that brought no answer in     *)
(* time; such a read leaves the zero the master put in its buffer.         *)
(*                                                                         *)
(* An SII is the sequence of its sections, each a record with its category *)
(* cat: general data, names, FMMU use, sync managers, and the PDOs of each *)
(* direction (ec_main.c).  How its bytes reach the master's cache is       *)
(* module Eeprom's subject.                                                *)
(***************************************************************************)
EXTENDS Integers, Sequences, FiniteSets, SequencesExt, FiniteSetsExt

CONSTANTS
  MaxSM,    \* EC_MAXSM, sync managers of a slave
  MaxPDO    \* EC_MAXEEPDO, the room for PDOs in an ec_eepromPDOt

ASSUME SiiAssumption == MaxSM \in Nat /\ MaxSM > 3 /\ MaxPDO \in Nat /\ MaxPDO > 1

MBXIN == 1      \* the use of a sync manager; 0 is unused
MBXOUT == 2
OUTPUTS == 3
INPUTS == 4

Total(bits) == FoldLeft(LAMBDA a, b : a + b, 0, bits)
SumOver(f(_), seq) == Total([k \in DOMAIN seq |-> f(k)])
Bytes8(bits) == (bits + 7) \div 8

SyncManagers == 0 .. MaxSM - 1
UNUSED == 255   \* 0xff: an FMMU without a use, a PDO without sync manager

(* ecx_siifind: the first section of a category, 0 when the walk reaches   *)
(* the end mark.                                                           *)
siifind(sii, cat) ==
  LET hits == {k \in DOMAIN sii : sii[k].cat = cat} IN IF hits = {} THEN 0 ELSE Min(hits)

Section(sii, cat) == sii[siifind(sii, cat)]
Has(sii, cat) == siifind(sii, cat) > 0

(* ecx_siistring: string n of the names, empty when there are fewer; the   *)
(* caller's buffer is left alone when there are no names.                  *)
siistring(sii, n, str) ==
  IF ~Has(sii, "strings") THEN str
  ELSE LET names == Section(sii, "strings").names IN IF n <= Len(names) THEN names[n] ELSE ""

(* ecx_siiFMMU: the uses of the first four FMMUs, in whole words.          *)
siiFMMU(sii) == IF Has(sii, "fmmu") THEN Section(sii, "fmmu").uses ELSE <<>>

(* ecx_siiSM and ecx_siiSMnext: the sync managers there is room for.       *)
siiSM(sii) ==
  LET sms == Section(sii, "sm").sms
  IN  IF Has(sii, "sm") THEN SubSeq(sms, 1, Min({Len(sms), MaxSM})) ELSE <<>>

(***************************************************************************)
(* ecx_siiPDO: the PDOs of a direction as [sm, bits], bits those of its    *)
(* entries.  A PDO counts when its sync manager exists; the table's room   *)
(* bounds how many are read.                                               *)
(***************************************************************************)

ReadPdos(pdos) == SubSeq(pdos, 1, Min({Len(pdos), MaxPDO - 1}))

Counts(pdo, sm) == pdo.sm = sm /\ sm < MaxSM

siiPDO(sii, cat) ==
  LET pdos == IF Has(sii, cat) THEN ReadPdos(Section(sii, cat).pdos) ELSE <<>>
      bits(sm) == Total([k \in DOMAIN pdos |-> IF Counts(pdos[k], sm) THEN Total(pdos[k].bits) ELSE 0])
  IN  [SMbitsize |-> [sm \in SyncManagers |-> bits(sm)],
       size |-> MapThenSumSet(bits, SyncManagers)]

-----------------------------------------------------------------------------
(***************************************************************************)
(* CoE: the bits assigned to a sync manager.                               *)
(***************************************************************************)
(* ecx_readPDOassign: the count, every PDO of it, that PDO's count and     *)
(* every entry are reads of their own.                                     *)
readPDOassign(d, sm, lost) ==
  LET pdos == d.assign[sm]
      entry(p, e) == IF <<"entry", p, e>> \in lost THEN 0 ELSE d.pdo[p][e]
      bits(k) == IF {<<"pdo", sm, k>>, <<"entries", pdos[k]>>} \cap lost # {} THEN 0
                 ELSE SumOver(LAMBDA e : entry(pdos[k], e), d.pdo[pdos[k]])
  IN  IF <<"assign", sm>> \in lost THEN 0 ELSE SumOver(bits, pdos)

(* ecx_readPDOassignCA: one read for the list, one for every PDO.          *)
readPDOassignCA(d, sm, lost) ==
  LET bits(k) == IF <<"pdoCA", d.assign[sm][k]>> \in lost THEN 0 ELSE Total(d.pdo[d.assign[sm][k]])
  IN  IF <<"assignCA", sm>> \in lost THEN 0 ELSE SumOver(bits, d.assign[sm])

(***************************************************************************)
(* ecx_readPDOmapCA and ecx_readPDOmap give the slave's new record.        *)
(***************************************************************************)
(* The use of a sync manager, mended: counted from 0 instead of 1 ...      *)
Shift(types) == IF types[3] = MBXOUT THEN 1 ELSE 0
UseCA(types, sm) == LET t == types[sm + 1] IN IF t = 0 THEN 0 ELSE t + Shift(types)

(* ... and, entry by entry, not given at all.                              *)
Use(types, sm) ==
  LET t == UseCA(types, sm)
  IN  IF t # 0 THEN t ELSE IF sm = 2 THEN OUTPUTS ELSE IF sm = 3 THEN INPUTS ELSE 0

(* The sync managers with their uses t and their bits of process data.     *)
NewLength(sm, t, bits) == IF t \in {OUTPUTS, INPUTS} /\ bits > 0 THEN Bytes8(bits) ELSE sm.len

BitsFor(use, t, bits) == MapThenSumSet(LAMBDA k : IF t[k] = use THEN bits[k] ELSE 0, DOMAIN t)

SetSM(slave, t, bits) ==
  LET set(sm, k) == [addr |-> sm.addr, len |-> NewLength(sm, t[k], bits[k]), on |-> sm.on /\ t[k] # 0]
  IN  [slave EXCEPT !.type = [k \in SyncManagers |-> IF k \in DOMAIN t THEN t[k] ELSE @[k]],
                    !.sm = [k \in SyncManagers |-> IF k \in DOMAIN t THEN set(@[k], k) ELSE @[k]],
                    !.obits = BitsFor(OUTPUTS, t, bits), !.ibits = BitsFor(INPUTS, t, bits)]

Assigned(types) == {sm \in SyncManagers : sm >= 2 /\ sm < Len(types)}

NoBits(slave) == [slave EXCEPT !.obits = 0, !.ibits = 0]

readPDOmapCA(slave, d, lost) ==
  LET t == [sm \in Assigned(d.types) |-> UseCA(d.types, sm)]
      bits == [sm \in DOMAIN t |-> IF t[sm] \in {OUTPUTS, INPUTS} THEN readPDOassignCA(d, sm, lost) ELSE 0]
  IN  IF <<"typesCA">> \in lost \/ Len(d.types) <= 2 THEN NoBits(slave) ELSE SetSM(slave, t, bits)

(* A use that could not be read leaves its sync manager as it was; the     *)
(* shift is known only once sync manager 2's use was read.                 *)
readPDOmap(slave, d, lost) ==
  LET known == IF <<"type", 2>> \in lost THEN [d.types EXCEPT ![3] = OUTPUTS] ELSE d.types
      t == [sm \in {k \in Assigned(d.types) : <<"type", k>> \notin lost} |-> Use(known, sm)]
      bits == [sm \in DOMAIN t |-> IF t[sm] \in {OUTPUTS, INPUTS} THEN readPDOassign(d, sm, lost) ELSE 0]
  IN  IF <<"types">> \in lost \/ Len(d.types) <= 2 THEN NoBits(slave) ELSE SetSM(slave, t, bits)

(***************************************************************************)
(* ecx_readIDNmap: of every drive the list of commands (MDT) and then that *)
(* of status (AT), and the attributes of the IDNs in them.  ecx_SoEread    *)
(* copies an answer from behind the mailbox it emptied before it asked.    *)
(* When that was empty the pointer is NULL and the process ends; otherwise *)
(* the list is whatever an old answer leaves there: without entries, or    *)
(* with a word and IDNs whose attributes the drive refuses, or answers.    *)
(***************************************************************************)
Lists(d) == {"mdt", "at"} \X (1 .. d.drives)

(* The read before this one was answered too late.                         *)
FindsOld(d, r, lost) ==
  IF r = <<"mdt", 1>> THEN lost \ Lists(d) # {}
  ELSE IF r[1] = "at" THEN <<"mdt", r[2]>> \in lost ELSE <<"at", r[2] - 1>> \in lost

Words16(words, dir) == 16 * Cardinality({r \in words : r[1] = dir})

readIDNmap(slave, words) ==
  LET o == Words16(words, "mdt")
      i == Words16(words, "at")
  IN  [slave EXCEPT !.obits = o, !.ibits = i, !.sm[2].len = Bytes8(o), !.sm[3].len = Bytes8(i)]

(***************************************************************************)
(* ecx_mbxENIinitcmds: the ENI's entry for slave s, when it means the same *)
(* device, and its commands up to the first that fails.  The entries are   *)
(* searched as if sorted.  Command [trans, sm, pdos] assigns pdos to sm.   *)
(***************************************************************************)
Entry(eni, s) ==
  LET reach == {k \in 1 .. Len(eni) - 1 : s <= eni[k].slave}
  IN  IF reach = {} THEN Len(eni) ELSE Min(reach)

Commands(eni, s, slave, trans) ==
  IF eni = <<>> \/ "coe" \notin slave.proto THEN <<>>
  ELSE LET e == eni[Entry(eni, s)]
       IN  IF e.slave = s /\ e.ident = slave.ident
             THEN SelectSeq(e.cmds, LAMBDA c : c.trans = trans) ELSE <<>>

mbxENIinitcmds(d, cmds, lost) ==
  LET failed == {k \in DOMAIN cmds : <<"eni", k>> \in lost}
      sent == IF failed = {} THEN cmds ELSE SubSeq(cmds, 1, Min(failed) - 1)
  IN  FoldLeft(LAMBDA v, c : [v EXCEPT !.assign[c.sm] = c.pdos], d, sent)

(***************************************************************************)
(* ecx_map_coe_soe: complete access first, then entry by entry, then SoE.  *)
(***************************************************************************)
Nothing(slave) == slave.obits = 0 /\ slave.ibits = 0

map_coe(slave, d, lost) ==
  LET ca == IF slave.ca THEN readPDOmapCA(slave, d, lost) ELSE NoBits(slave)
      coe == IF Nothing(ca) THEN readPDOmap(ca, d, lost) ELSE ca
  IN  IF "coe" \in slave.proto THEN coe ELSE NoBits(slave)

AsksSoe(slave, d, lost) == Nothing(map_coe(slave, d, lost)) /\ "soe" \in slave.proto

(* The lists that bring an answer.                                         *)
Told(slave, d, lost) == IF AsksSoe(slave, d, lost) THEN Lists(d) \ lost ELSE {}

map_coe_soe(slave, d, lost, words) ==
  LET told == map_coe(slave, d, lost)
  IN  IF AsksSoe(slave, d, lost) THEN readIDNmap(told, words) ELSE told

(* ecx_map_sii: of the first slave with this identity, or of the SII.      *)
FromSlave(slave, twin) ==
  [slave EXCEPT !.obits = twin.obits, !.ibits = twin.ibits, !.type = twin.type,
                !.sm = [k \in SyncManagers |-> [@[k] EXCEPT !.len = twin.sm[k].len]]]

FromSii(slave, sii) ==
  LET set(s, cat, use) ==
        LET bits == siiPDO(sii, cat).SMbitsize
        IN  [s EXCEPT !.type = [k \in SyncManagers |-> IF bits[k] > 0 THEN use ELSE @[k]],
                      !.sm = [k \in SyncManagers |->
                                IF bits[k] > 0 THEN [@[k] EXCEPT !.len = Bytes8(bits[k])] ELSE @[k]]]
  IN  [set(set(slave, "txpdo", INPUTS), "rxpdo", OUTPUTS) EXCEPT
         !.ibits = siiPDO(sii, "txpdo").size, !.obits = siiPDO(sii, "rxpdo").size]

(* ecx_map_sm: a sync manager of the process data is on when it has a      *)
(* length.                                                                 *)
map_sm(slave) ==
  [slave EXCEPT !.sm = [k \in SyncManagers |->
     IF k < 2 \/ @[k].addr = 0 THEN @[k] ELSE [@[k] EXCEPT !.on = slave.sm[k].len > 0]]]
=============================================================================
