------------------------ MODULE BringupProperties ------------------------
(***************************************************************************)
(* What a segment that was brought up owes to its user.  Every property    *)
(* names the cases in which the code does not reach it.                    *)
(***************************************************************************)
EXTENDS Bringup

Done == Step("done")
Configured == pc.at \in {"map", "sii", "latch", "clock", "sync", "done"}
Mapped == pc.at \in {"latch", "clock", "sync", "done"}

Missed == {lost[k] : k \in DOMAIN lost}

(* No datagram about s was lost and nobody else has its address (another   *)
(* slave's address write was lost and it kept this one from before).       *)
Sound(s) == {0, s} \cap Missed = {} /\ At(list[s].adr) = {s}

(* The slave whose SII stands for that of s.                               *)
Source(s) == Min({t \in 1 .. s : list[t].ident = list[s].ident})

(* The alias is read before the slaves behind s have a new address: one of *)
(* them may still have, from an earlier run, the address s has now.        *)
Shadowed(s) == \E t \in Slaves : t > s /\ scene.old[t].adr = s

Info(s) == soem_get_slave_info(s, [unset |-> TRUE])
Status(s) == soem_get_slave_status(s, [unset |-> TRUE])

(***************************************************************************)
(* Everybody is taken for who he is: identity, mailbox, clock, parent and  *)
(* the settings of the SII, read or copied, are those of the device in the *)
(* slave's place.  The parent rests on the links of all slaves before.     *)
(***************************************************************************)
ScanIsRight ==
  Configured => \A s \in Slaves : Sound(s) =>
    /\ Info(s).ident = Kind(s).ident
    /\ ~Shadowed(s) => Info(s).alias = Kind(s).alias
    /\ Info(s).configadr = s
    /\ <<list[s].wo, list[s].l>> = <<Kind(s).mbx.wo, Kind(s).mbx.l>>
    /\ Status(s).hasdc = (s \in scene.dc)
    /\ Status(s).activeports = ActivePorts(scene.tree, s)
    /\ (\A t \in 1 .. s : Sound(t)) => list[s].parent = scene.tree.parent[s]
    /\ Sound(Source(s)) =>
         LET own == FromSections(NoSlave, Kind(s).sii)
         IN  <<Status(s).coe, Status(s).blocklrw, Info(s).name, list[s].uses>>
             = <<own.ca, own.block, own.name, own.uses>>

(***************************************************************************)
(* The process data image has the bits the device exchanges, its sync      *)
(* managers hold them, and no register of an earlier run is left working,  *)
(* but for the FMMUs and sync managers behind those the reset reaches.  A  *)
(* drive that says through SoE what it exchanges ends the process here     *)
(* (pc.at = "crashed"): there is no mapping to be right then.              *)
(***************************************************************************)
(* What the device exchanges: as assigned by the ENI, or as built.         *)
Truth(s) ==
  LET cmds == Commands(scene.eni, s, list[s], "PS") IN IF cmds = <<>> THEN Kind(s).bits ELSE Last(cmds).bits

(* Where the code falls short: complete access takes one use that is not   *)
(* given for unused; a sync manager without PDOs keeps its SII's length;   *)
(* more PDOs in the SII than the table holds.                              *)
HalfTyped(d) == Len(d.types) > 3 /\ (d.types[3] = 0) # (d.types[4] = 0)
Unassigned(d) == \E sm \in DOMAIN d.assign : d.assign[sm] = <<>>
Crowded(d) == \E cat \in {"rxpdo", "txpdo"} : Has(d.sii, cat) /\ Len(Section(d.sii, cat).pdos) >= MaxPDO
FallsShort(s) ==
  LET d == Dictionary(s) IN (list[s].ca /\ HalfTyped(d)) \/ Unassigned(d) \/ Crowded(d)

SmBits(s, use) == MapThenSumSet(LAMBDA k : IF list[s].type[k] = use THEN 8 * list[s].sm[k].len ELSE 0, SyncManagers)

ImageIsRight ==
  \A s \in Slaves : (Sound(s) /\ Sound(Source(s)) /\ ~FallsShort(s)) =>
    /\ <<list[s].obits, list[s].ibits>> = <<Truth(s).o, Truth(s).i>>
    /\ Truth(s).o + Truth(s).i > 0 => soem_config_init(TRUE) = Count
    /\ SmBits(s, OUTPUTS) >= list[s].obits /\ SmBits(s, OUTPUTS) < list[s].obits + 16
    /\ SmBits(s, INPUTS) >= list[s].ibits /\ SmBits(s, INPUTS) < list[s].ibits + 16

OnlyOurRegisters ==
  \A s \in Slaves : (Sound(s) /\ 0 \notin Missed) =>
    /\ dev[s].sm \cap ResetSMs \subseteq OnSMs(list[s])
    /\ dev[s].fmmu \cap ResetFmmus \subseteq UsedFmmus(list[s])

MappingIsRight == Mapped => ImageIsRight /\ OnlyOurRegisters

(***************************************************************************)
(* The delay a clock is given is the time the frame takes to it from the   *)
(* reference clock, the first on the wire.                                 *)
(***************************************************************************)
Reference == Min(scene.dc)
Ancestors(s) ==
  LET up[t \in 0 .. s] == IF t = 0 THEN {} ELSE {t} \cup up[scene.tree.parent[t]] IN up[s]

(* A branch without a clock at its root is measured as part of another.    *)
ClocksBranch == \A s \in Slaves : Cardinality(Kids(scene.tree, s)) > 1 => s \in scene.dc

(* A time that passes from 2^31-1 to -2^31 during the frame makes another  *)
(* port the earliest.                                                      *)
Turns(s) == \E p \in ActivePorts(scene.tree, s) : dev[s].rt[p] < dev[s].rt[0]

DelayIsRight ==
  Done /\ Missed = {} /\ ClocksBranch => \A s \in scene.dc :
    (Reference \in Ancestors(s) /\ ~\E t \in Ancestors(s) : t \in scene.dc /\ Turns(t)) =>
      Status(s).pdelay = dev[s].delay /\ dev[s].delay = Arrival(scene.tree)[s] - Arrival(scene.tree)[Reference]

(***************************************************************************)
(* Pulses of the same cycle come at the same phase everywhere, and the     *)
(* first is never nearer than the head start that was left for it.  A      *)
(* slave whose address another one kept gets its pulse from that one's     *)
(* turn as well, which may have lost the time of day.                      *)
(***************************************************************************)
PulsesInPhase ==
  Done => \A s, t \in Slaves : (dev[s].pulse.set /\ dev[t].pulse.set) =>
    /\ Cycle(scene.sync) > 0 => (dev[s].pulse.at - dev[t].pulse.at) % Cycle(scene.sync) = 0
    /\ s \notin Missed /\ At(s) = {s} => dev[s].pulse.at >= dev[s].pulse.now + SyncDelay + scene.sync.shift
=============================================================================
