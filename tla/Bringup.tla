------------------------------ MODULE Bringup ------------------------------
(***************************************************************************)
(* Bringing an EtherCAT segment up (SOEM ec_config.c, ec_main.c, ec_dc.c;  *)
(* called from soem_wrap.c): count the slaves, give them addresses, read   *)
(* their identity and SII, find out what process data they have, and set   *)
(* their clocks.  Every phase walks the slaves in the order of the wire;   *)
(* no answer is waited for twice, a lost one leaves a default behind.      *)
(***************************************************************************)
EXTENDS ClockSetup, ObjectMap

CONSTANTS
  Devices,    \* the devices there are, by name
  Scenes,     \* segments to bring up
  MaxSlave,   \* EC_MAXSLAVE, the master's own record included
  Garbage,    \* what a walk through an SII that lost bytes may take it for
  Nows,       \* system times at which pulses are set up
  Junk,       \* aliases a variable may hold that nothing was read into
  MaxLoss     \* datagrams lost, at most as many as the scene allows (bound)

ASSUME BringupAssumption == MaxSlave \in Nat /\ MaxLoss \in Nat /\ Nows \subseteq Nat

VARIABLES
  scene,    \* the segment: tree, devices, ENI, pulses wanted
  dev,      \* the devices' registers
  list,     \* slavelist
  clock,    \* locals of ecx_configdc
  pc,       \* [at, slave, word]
  lost      \* the slaves a datagram was lost of (0: of all), in order

vars == <<scene, dev, list, clock, pc, lost>>

(* A scene is [devices, tree, old, dc, start, eni, sync, losses]: the      *)
(* device in every place, the tree of the wire, the registers an earlier   *)
(* run left, who has a clock and what it shows at the latch, the ENI, the  *)
(* pulses wanted.  Slaves are numbered in the order the frame passes them: *)
(* whoever comes between a slave and its parent hangs below the parent.    *)
IsTree(tree, n) ==
  /\ tree.parent \in [1 .. n -> 0 .. n] /\ tree.port \in [1 .. n -> 1 .. 3]
  /\ \A s \in 1 .. n : IF s = 1 THEN tree.parent[s] = 0
       ELSE tree.parent[s] \in 1 .. s - 1 /\ \A u \in tree.parent[s] + 1 .. s - 1 : tree.parent[u] >= tree.parent[s]
  /\ \A s, u \in 1 .. n : s # u /\ tree.parent[s] = tree.parent[u] => tree.port[s] # tree.port[u]

(* Devices that call themselves the same have the same SII.                *)
ASSUME DeviceAssumption == \A d, e \in DOMAIN Devices :
  /\ Devices[d].ident = [w \in 1 .. 3 |-> Devices[d].ident[w]]
  /\ Devices[d].ident = Devices[e].ident => Devices[d].sii = Devices[e].sii

(* ec_dcsync01 divides by the cycle of SYNC0.                              *)
ASSUME SceneAssumption == \A sc \in Scenes :
  /\ sc.devices \in Seq(DOMAIN Devices) /\ IsTree(sc.tree, Len(sc.devices))
  /\ sc.sync.cycle0 \in Nat /\ sc.sync.cycle1 \in Nat /\ sc.sync.shift \in Int
  /\ sc.sync.two => sc.sync.cycle0 > 0

Count == Len(scene.devices)
Slaves == 1 .. Count
Kind(s) == Devices[scene.devices[s]]

NoSM == [addr |-> 0, len |-> 0, on |-> FALSE]

(* An ec_slavet as ecx_init_context clears it.                             *)
NoSlave ==
  [adr |-> 0, alias |-> 0, ident |-> <<0, 0, 0>>, wo |-> 0, l |-> 0, ro |-> 0, rl |-> 0, proto |-> {},
   name |-> "", ca |-> FALSE, block |-> FALSE, uses |-> <<>>,
   sm |-> [k \in SyncManagers |-> NoSM], type |-> [k \in SyncManagers |-> 0],
   obits |-> 0, ibits |-> 0,
   hasdc |-> FALSE, active |-> {}, parent |-> 0, consumed |-> {}, entry |-> 0, pport |-> 0,
   rt |-> [p \in Ports |-> 0], delay |-> 0, next |-> 0, prev |-> 0, cycle |-> 0]

NoKind == [ident |-> <<0, 0, 0>>, alias |-> 0, mbx |-> [wo |-> 0, l |-> 0, ro |-> 0, rl |-> 0], proto |-> {},
           sii |-> <<>>, wants |-> FALSE]

(***************************************************************************)
(* The wire: the ports in use and the port times of the last latch.        *)
(***************************************************************************)
Kids(tree, s) == {c \in DOMAIN tree.parent : tree.parent[c] = s}
ActivePorts(tree, s) == {0} \cup {tree.port[c] : c \in Kids(tree, s)}

Passage(tree) ==     \* how long the frame is away behind every slave
  LET away[s \in DOMAIN tree.parent] ==
        MapThenSumSet(LAMBDA c : 2 * tree.delay[c] + away[c], Kids(tree, s))
  IN  away

Arrival(tree) ==     \* when it gets to every slave
  LET away == Passage(tree)
      at[s \in DOMAIN tree.parent] ==
        LET p == tree.parent[s]
        IN  IF p = 0 THEN 0
            ELSE at[p] + tree.delay[s]
                 + MapThenSumSet(LAMBDA c : 2 * tree.delay[c] + away[c],
                                 {c \in Kids(tree, p) : c < s})
  IN  at

PortTimes(tree, s, start) ==
  LET at == Arrival(tree)
      by(p) == {c \in Kids(tree, s) : tree.port[c] = p}
      back(c) == at[c] + Passage(tree)[c] + tree.delay[c]
      since(p) == IF p = 0 THEN 0 ELSE MapThenSumSet(LAMBDA c : back(c) - at[s], by(p))
  IN  [p \in Ports |-> IF p \in ActivePorts(tree, s) THEN Int32(start + since(p)) ELSE 0]

(***************************************************************************)
(* Addressed datagrams.  All devices at an address execute them; the last  *)
(* on the wire has the last word.                                          *)
(***************************************************************************)
At(adr) == {s \in Slaves : dev[s].adr = adr}
Answer(adr) == IF At(adr) = {} THEN 0 ELSE Max(At(adr))
Seen(adr) == IF At(adr) = {} THEN NoKind ELSE Kind(Answer(adr))
Shut(adr) == At(adr) # {} /\ dev[Answer(adr)].pdi   \* its EEPROM is not the master's

Losses(S) == {{}} \cup (IF Len(lost) < Min({MaxLoss, scene.losses}) THEN {{x} : x \in S} ELSE {})
Lose(l, s) == lost' = IF l = {} THEN lost ELSE Append(lost, s)

Goto(at, s, w) == pc' = [at |-> at, slave |-> s, word |-> w]
Step(at) == pc.at = at
NextSlave(then) == IF pc.slave < Count THEN Goto(pc.at, pc.slave + 1, pc.word) ELSE then

NoPulse == [set |-> FALSE, at |-> 0, now |-> 0]

Init ==
  /\ scene \in Scenes
  /\ dev = [s \in Slaves |-> [adr |-> scene.old[s].adr, fmmu |-> scene.old[s].fmmu, sm |-> scene.old[s].sm,
                             mbx |-> scene.old[s].mbx, pdi |-> scene.old[s].pdi, preop |-> FALSE,
                             assign |-> Kind(s).assign,
                             delay |-> 0, rt |-> [p \in Ports |-> 0], pulse |-> NoPulse]]
  /\ list = <<>> /\ clock = [last |-> 0, hold |-> 0] /\ lost = <<>>
  /\ pc = [at |-> "detect", slave |-> 0, word |-> 0]

(***************************************************************************)
(* ecx_init_context, ecx_detect_slaves, ecx_set_slaves_to_default.         *)
(***************************************************************************)
ResetFmmus == 0 .. 2    \* 16 * 3 bytes
ResetSMs == 0 .. 3      \* 8 * 4 bytes

Reset(d) == [d EXCEPT !.fmmu = @ \ ResetFmmus, !.sm = @ \ ResetSMs, !.pdi = FALSE]

Detect ==
  /\ Step("detect")
  /\ \E l \in Losses({"count", "fmmu", "sm", "eeprom"}) :
       /\ Lose(l, 0)
       /\ LET reset(d) == [Reset(d) EXCEPT !.fmmu = IF "fmmu" \in l THEN d.fmmu ELSE @,
                                           !.sm = IF "sm" \in l THEN d.sm ELSE @,
                                           !.pdi = IF "eeprom" \in l THEN d.pdi ELSE @]
          IN  IF "count" \in l \/ Count = 0 \/ Count >= MaxSlave
                THEN Goto("failed", 0, 0) /\ UNCHANGED dev
                ELSE Goto("address", 1, 0) /\ dev' = [s \in Slaves |-> reset(dev[s])]
  /\ list' = [s \in 0 .. Count |-> NoSlave]
  /\ UNCHANGED <<scene, clock>>

(***************************************************************************)
(* ecx_config_init.                                                        *)
(***************************************************************************)
(* First walk: a station address by position, read back as the slave's,    *)
(* and the alias.  Without an answer the alias of the slave before stands  *)
(* for it: the variable is not set again.                                  *)
Address ==
  /\ Step("address")
  /\ LET s == pc.slave
     IN  \E l \in Losses({"write", "back", "alias"}) :
         \E old \in IF s = 1 THEN Junk ELSE {list[s - 1].alias} :
           /\ dev' = [dev EXCEPT ![s].adr = IF "write" \in l THEN @ ELSE s]
           /\ list' = LET adr == IF "back" \in l THEN 0 ELSE dev'[s].adr
                          wired == {t \in Slaves : dev'[t].adr = adr}
                      IN  [list EXCEPT ![s].adr = adr,
                                       ![s].alias = IF "alias" \in l \/ wired = {} THEN old
                                                    ELSE Kind(Max(wired)).alias]
           /\ Lose(l, s)
  /\ NextSlave(Goto("word", 1, 1))
  /\ UNCHANGED <<scene, clock>>

(* Manufacturer, product, revision, receive mailbox: one walk each.  The   *)
(* request for the next word goes out when the answer to the last is in.   *)
Words == 4

WithWord(s, w, k, l) ==
  CASE w <= 3 -> [list[s] EXCEPT !.ident[w] = IF l = {} THEN k.ident[w] ELSE 0]
    [] OTHER -> [list[s] EXCEPT !.wo = IF l = {} THEN k.mbx.wo ELSE 0,
                                !.l = IF l = {} THEN k.mbx.l ELSE 0]

ReadWord ==
  /\ Step("word")
  /\ LET s == pc.slave
     IN  \E l \in Losses({"word"}) :
           /\ list' = [list EXCEPT ![s] = WithWord(s, pc.word, Seen(list[s].adr),
                                                  l \cup IF Shut(list[s].adr) THEN {"word"} ELSE {})]
           /\ Lose(l, s)
  /\ NextSlave(IF pc.word < Words THEN Goto("word", 1, pc.word + 1) ELSE Goto("configure", 1, 0))
  /\ UNCHANGED <<scene, dev, clock>>

(* The last walk.  Transmit mailbox, clock, links, parent, protocols ...   *)
WithTx(v, k, l) ==
  LET ro == IF "tx" \in l THEN 0 ELSE k.mbx.ro
      rl == IF "tx" \in l THEN 0 ELSE k.mbx.rl
  IN  IF v.l = 0 THEN v ELSE [v EXCEPT !.ro = ro, !.rl = IF rl = 0 THEN v.l ELSE rl]

WithLinks(v, s, l) ==
  LET a == Answer(v.adr)
      linked == [v EXCEPT !.hasdc = a > 0 /\ a \in scene.dc /\ "clock" \notin l,
                          !.active = IF a = 0 \/ "links" \in l THEN {} ELSE ActivePorts(scene.tree, a)]
  IN  [linked EXCEPT !.parent = IF s = 1 THEN 0 ELSE FindParent(list, s)]

(* ... the default mailbox ...                                             *)
WithMailbox(v, k, l) ==
  IF v.l = 0 THEN v
  ELSE [v EXCEPT !.type = [t \in SyncManagers |-> IF t < 4 THEN t + 1 ELSE 0],
                 !.sm[0] = [addr |-> v.wo, len |-> v.l, on |-> TRUE],
                 !.sm[1] = [addr |-> v.ro, len |-> v.rl, on |-> TRUE],
                 !.proto = IF "proto" \in l THEN {} ELSE k.proto]

(* ... the SII's settings, or those of the first slave with this identity. *)
Twins(v, s) == {t \in 1 .. s - 1 : list[t].ident = v.ident}

CopySii(v, twin) ==
  [v EXCEPT !.ca = twin.ca, !.block = twin.block, !.name = twin.name, !.uses = twin.uses,
            !.sm = twin.sm]

FromSections(v, data) ==
  LET g == Section(data, "general")
      sms == siiSM(data)
  IN  [v EXCEPT !.ca = IF Has(data, "general") THEN g.ca ELSE @,
                !.block = IF Has(data, "general") THEN g.block ELSE @,
                !.name = IF Has(data, "strings") THEN siistring(data, 1, @) ELSE "?",
                !.uses = LET uses == siiFMMU(data)
                         IN  [k \in DOMAIN uses |-> IF uses[k] = UNUSED THEN 0 ELSE uses[k]],
                !.sm = [k \in SyncManagers |-> IF k < Len(sms) THEN sms[k + 1] ELSE @[k]]]

WithSii(v, s, data) ==
  IF Twins(v, s) = {} THEN FromSections(v, data) ELSE CopySii(v, list[Min(Twins(v, s))])

DefaultSM(n) == [addr |-> 1000 + n, len |-> 8, on |-> TRUE]   \* 0x1000, 0x1080; 0x80 bytes

WithDefaults(v) ==
  IF v.l = 0 THEN v
  ELSE [v EXCEPT !.sm = [k \in SyncManagers |->
          IF k < 2 /\ @[k].addr = 0 THEN DefaultSM(k) ELSE @[k]]]

(* Both mailbox managers in one datagram; then the EEPROM is handed back,  *)
(* since some devices read it before they go to PRE_OP, and PRE_OP asked.  *)
AskedFirst(d, kind, l) ==   \* a mutant
  [d EXCEPT !.preop = "preop" \notin l /\ (d.pdi \/ ~kind.wants), !.pdi = "pdi" \notin l]

Asked(d, kind, l) ==
  LET pdi == d.pdi \/ "pdi" \notin l
  IN  [d EXCEPT !.pdi = pdi, !.preop = "preop" \notin l /\ (pdi \/ ~kind.wants)]

Programmed(d, v, l) ==
  IF v.l = 0 \/ "sm" \in l THEN d
  ELSE [d EXCEPT !.mbx = <<v.sm[0].addr, v.sm[1].addr>>, !.sm = @ \cup {0, 1}]

Configure ==
  /\ Step("configure")
  /\ LET s == pc.slave
         k == Seen(list[s].adr)
     IN  \E l \in Losses({"tx", "clock", "links", "proto", "sii", "sm", "pdi", "preop"}) :
         \E data \in IF "sii" \in l \/ Shut(list[s].adr) THEN Garbage ELSE {k.sii} :
           LET v == WithSii(WithMailbox(WithLinks(WithTx(list[s], k, l), s, l), k, l), s, data)
           IN  /\ list' = [list EXCEPT ![s] = WithDefaults(v)]
               /\ dev' = [t \in Slaves |->
                            IF t \in At(v.adr) THEN Asked(Programmed(dev[t], list'[s], l), Kind(t), l)
                              ELSE dev[t]]
               /\ Lose(l, s)
  /\ NextSlave(Goto("map", 1, 0))
  /\ UNCHANGED <<scene, clock>>

(***************************************************************************)
(* ecx_config_find_mappings, with EC_MAX_MAPT = 1, and the slave's FMMUs.  *)
(***************************************************************************)
Dictionary(s) == [Kind(s) EXCEPT !.assign = dev[s].assign]

Reads(d, cmds) ==
  LET sms == DOMAIN d.assign
      pdos == DOMAIN d.pdo
  IN  {<<"types">>, <<"typesCA">>}
      \cup {<<"type", sm>> : sm \in 2 .. Len(d.types) - 1}
      \cup {<<x, sm>> : x \in {"assign", "assignCA"}, sm \in sms}
      \cup UNION {{<<"pdo", sm, k>> : k \in DOMAIN d.assign[sm]} : sm \in sms}
      \cup {<<x, p>> : x \in {"entries", "pdoCA"}, p \in pdos}
      \cup UNION {{<<"entry", p, e>> : e \in DOMAIN d.pdo[p]} : p \in pdos}
      \cup Lists(d) \cup {<<"eni", k>> : k \in DOMAIN cmds}

(* The mailbox answers from PRE_OP on, when it is where the master reads   *)
(* and writes it.                                                          *)
Reachable(v) ==
  v.l > 0 /\ At(v.adr) # {} /\ dev[Answer(v.adr)].preop /\ dev[Answer(v.adr)].mbx = <<v.wo, v.ro>>

Silent == [types |-> <<>>, drives |-> 0]

(* An answered IDN list ends the process, unless every one finds an old    *)
(* answer in its way.                                                      *)
MapCoeSoe ==
  /\ Step("map")
  /\ LET s == pc.slave
         v == list[s]
         record(d, l, words) == [list EXCEPT ![s] = map_coe_soe(v, d, l, words)]
     IN  IF ~Reachable(v)
         THEN list' = record(Silent, {}, {}) /\ NextSlave(Goto("sii", 1, 0)) /\ UNCHANGED <<dev, lost>>
         ELSE LET a == Answer(v.adr)
                  cmds == Commands(scene.eni, s, v, "PS")
              IN  \E l \in Losses(Reads(Dictionary(a), cmds)) :
                    LET d == mbxENIinitcmds(Dictionary(a), cmds, l)
                        told == Told(v, d, l)
                    IN  /\ dev' = [dev EXCEPT ![a].assign = d.assign]
                        /\ Lose(l, s)
                        /\ \/ \E words \in SUBSET told :
                                /\ \A r \in told : FindsOld(d, r, l)
                                /\ list' = record(d, l, words)
                                /\ NextSlave(Goto("sii", 1, 0))
                           \/ told # {} /\ list' = list /\ Goto("crashed", 0, 0)
  /\ UNCHANGED <<scene, clock>>

FirstTwin(v, s) == IF Twins(v, s) = {} THEN v ELSE FromSlave(v, list[Min(Twins(v, s))])

MappingOf(v, s, data) ==
  LET found == IF Nothing(v) THEN FirstTwin(v, s) ELSE v
  IN  map_sm(IF Nothing(found) THEN FromSii(found, data) ELSE found)

UsedFmmus(v) == 0 .. Cardinality({d \in {"obits", "ibits"} : v[d] > 0}) - 1
OnSMs(v) == {k \in SyncManagers : v.sm[k].addr # 0 /\ v.sm[k].on}
SetSMs(v) == {k \in SyncManagers : v.sm[k].addr # 0}

MapSii ==
  /\ Step("sii")
  /\ LET s == pc.slave
     IN  \E l \in Losses({"sii", "sm", "fmmu"}) :
         \E data \in IF "sii" \in l THEN Garbage ELSE {Seen(list[s].adr).sii} :
           LET v == MappingOf(list[s], s, data)
           IN  /\ list' = [list EXCEPT ![s] = v]
               /\ dev' = [t \in Slaves |->
                            IF t \notin At(v.adr) THEN dev[t]
                            ELSE [dev[t] EXCEPT
                                   !.sm = IF "sm" \in l THEN @ ELSE (@ \ SetSMs(v)) \cup OnSMs(v),
                                   !.fmmu = IF "fmmu" \in l THEN @ ELSE @ \cup UsedFmmus(v)]]
               /\ Lose(l, s)
  /\ NextSlave(Goto("latch", 0, 0))
  /\ UNCHANGED <<scene, clock>>

(***************************************************************************)
(* ecx_configdc: every clock latches one frame's passing; then slave by    *)
(* slave.  A time that is not answered is the last value the buffer held.  *)
(***************************************************************************)
Latch ==
  /\ Step("latch")
  /\ \E l \in Losses({"latch"}) :
       /\ dev' = [s \in Slaves |-> IF l = {} THEN [dev[s] EXCEPT !.rt = PortTimes(scene.tree, s, scene.start[s])]
                                  ELSE dev[s]]
       /\ Lose(l, 0)
  /\ Goto("clock", 1, 0)
  /\ clock' = [ref |-> 0, last |-> 0, hold |-> 0, ht |-> 0]
  /\ UNCHANGED <<scene, list>>

ReadTimes(v, l, ht) ==
  LET a == Answer(v.adr)
      heard(p) == a > 0 /\ ToString(p) \notin l
      rt[p \in -1 .. 3] == IF p = -1 THEN ht ELSE IF heard(p) THEN dev[a].rt[p] ELSE rt[p - 1]
  IN  [p \in Ports |-> rt[p]]

SetClock ==
  /\ Step("clock")
  /\ LET s == pc.slave
         open == [list EXCEPT ![s].consumed = list[s].active]
         passed == PassBy(open, clock, s)
     IN  IF list[s].hasdc
           THEN \E l \in Losses({ToString(p) : p \in Ports} \cup {"delay"}) :
                \E junk \in IF list[s].active = {} THEN Ports ELSE {0} :
                  LET rt == ReadTimes(list[s], l, clock.ht)
                      chained == [ChainClock(open, clock, s) EXCEPT ![s].rt = rt]
                      hung == DcParent(list, s).parent > 0
                  IN  /\ list' = Measured(chained, s, junk)
                      /\ clock' = [clock EXCEPT !.last = s, !.hold = 0,
                                               !.ht = IF hung THEN list'[s].delay ELSE rt[3]]
                      /\ dev' = [t \in Slaves |->
                                   IF t \in At(list[s].adr) /\ hung /\ "delay" \notin l
                                     THEN [dev[t] EXCEPT !.delay = list'[s].delay] ELSE dev[t]]
                      /\ Lose(l, s)
           ELSE /\ list' = passed.list /\ clock' = [clock EXCEPT !.hold = passed.hold]
                /\ UNCHANGED <<dev, lost>>
  /\ NextSlave(Goto("sync", 1, 0))
  /\ UNCHANGED scene

(* ecx_dcsync0, ecx_dcsync01, one slave after the other as an application  *)
(* would: the time of day may be lost, then it counts as 0.                *)
Cycle(sync) == IF sync.two THEN TrueCycle(sync.cycle0, sync.cycle1) ELSE sync.cycle0

SetPulse ==
  /\ Step("sync")
  /\ LET s == pc.slave
         v == list[s]
     IN  \E now \in Nows : \E l \in IF v.hasdc THEN Losses({"now", "start"}) ELSE {{}} :
           LET read == IF "now" \in l \/ At(v.adr) = {} THEN 0 ELSE now
               start == FirstTrigger(read, Cycle(scene.sync), scene.sync.shift)
           IN  /\ dev' = [t \in Slaves |->
                            IF v.hasdc /\ t \in At(v.adr) /\ "start" \notin l
                              THEN [dev[t] EXCEPT !.pulse = [set |-> TRUE, at |-> start, now |-> now]] ELSE dev[t]]
               /\ list' = [list EXCEPT ![s].cycle = IF v.hasdc THEN scene.sync.cycle0 ELSE @]
               /\ Lose(l, s)
  /\ NextSlave(Goto("done", 0, 0))
  /\ UNCHANGED <<scene, clock>>

config_init == Detect \/ Address \/ ReadWord \/ Configure
config_map == MapCoeSoe \/ MapSii
configdc == Latch \/ SetClock

Next == config_init \/ config_map \/ configdc \/ SetPulse

Spec == Init /\ [][Next]_vars

(***************************************************************************)
(* What the program is told (soem_wrap.c), if it lives.  A segment without *)
(* anything to exchange counts as one that could not be mapped.            *)
(***************************************************************************)
slavecount == IF Step("failed") THEN 0 ELSE Count
Known(i) == i \in 1 .. slavecount

Exchanged == \E s \in 1 .. slavecount : list[s].obits > 0 \/ list[s].ibits > 0 \/ list[s].l > 0

soem_config_init(use_map) ==
  IF slavecount = 0 THEN -1 ELSE IF use_map /\ ~Exchanged THEN -3 ELSE slavecount

(* Nothing is filled in for a slave that is not there.                     *)
soem_get_slave_info(i, unset) ==
  IF ~Known(i) THEN unset
  ELSE [alias |-> list[i].alias, configadr |-> list[i].adr, ident |-> list[i].ident,
        name |-> list[i].name]

soem_get_slave_status(i, unset) ==
  IF ~Known(i) THEN unset
  ELSE [pdelay |-> list[i].delay, hasdc |-> list[i].hasdc, activeports |-> list[i].active,
        parentport |-> list[i].pport, blocklrw |-> list[i].block, coe |-> list[i].ca]
=============================================================================
