----------------------------- MODULE BringupMC -----------------------------
(***************************************************************************)
(* Segments to bring up: every tree of up to four slaves with every choice *)
(* of clocks, and lines of every kind of device.                           *)
(***************************************************************************)
EXTENDS BringupProperties

MCHalf == 1024
MCNows == {0, 3, 12}
MCJunk == {0, 5}

(* Devices.                                                                *)
NoBox == [wo |-> 0, l |-> 0, ro |-> 0, rl |-> 0]
Box == [wo |-> 16, l |-> 4, ro |-> 20, rl |-> 0]
General(ca, block) == [cat |-> "general", ca |-> ca, block |-> block]
Names(n) == [cat |-> "strings", names |-> n]
SM(addr, len) == [addr |-> addr, len |-> len, on |-> TRUE]
Sms(sms) == [cat |-> "sm", sms |-> sms]
Nop == [ident |-> <<1, 1, 1>>, mbx |-> NoBox, proto |-> {}, sii |-> <<General(FALSE, FALSE)>>,
        wants |-> FALSE, alias |-> 7,
        types |-> <<>>, assign |-> <<>>, pdo |-> <<>>, drives |-> 0,
        bits |-> [o |-> 0, i |-> 0]]

(* A digital module, known by its SII alone; one PDO without sync manager. *)
Digital ==
  [Nop EXCEPT !.ident = <<1, 2, 1>>, !.bits = [o |-> 9, i |-> 16],
     !.sii = <<Names(<<>>), [cat |-> "fmmu", uses |-> <<1, 2, 255, 255>>],
               Sms(<<SM(8, 2), SM(12, 1)>>),
               [cat |-> "txpdo", pdos |-> <<[sm |-> 0, bits |-> <<8, 8>>], [sm |-> 255, bits |-> <<8>>]>>],
               [cat |-> "rxpdo", pdos |-> <<[sm |-> 1, bits |-> <<4>>], [sm |-> 1, bits |-> <<5>>]>>]>>]

(* Drives: with complete access, without, with the uses numbered from 0.   *)
DriveSii == <<General(TRUE, TRUE), Names(<<"drive">>), Sms(<<SM(16, 4), SM(20, 4), SM(32, 9), SM(48, 9)>>)>>
Drive ==
  [Nop EXCEPT !.ident = <<1, 3, 1>>, !.mbx = Box, !.proto = {"coe"}, !.sii = DriveSii, !.wants = TRUE, !.alias = 9,
     !.types = <<1, 2, 3, 4>>, !.assign = [k \in 2 .. 3 |-> IF k = 2 THEN <<"c">> ELSE <<"s", "t">>],
     !.pdo = [c |-> <<16, 32>>, s |-> <<16>>, t |-> <<32, 4>>], !.bits = [o |-> 48, i |-> 52]]
Slow == [Drive EXCEPT !.ident = <<1, 3, 0>>, !.types = <<0, 1, 2, 3>>, !.sii = <<General(FALSE, FALSE)>> \o Tail(DriveSii)]
Untyped == [Drive EXCEPT !.ident = <<1, 4, 1>>, !.types = <<1, 2, 0, 0>>]
Servo == [Drive EXCEPT !.ident = <<1, 5, 1>>, !.proto = {"soe"}, !.bits = [o |-> 48, i |-> 48], !.drives = 1]

(* Devices the code does not do justice to.                                *)
HalfDrive == [Drive EXCEPT !.ident = <<1, 6, 1>>, !.types = <<1, 2, 0, 4>>]
Hollow == [Drive EXCEPT !.ident = <<1, 7, 1>>, !.assign[3] = <<>>, !.bits = [o |-> 48, i |-> 0]]
Crowd == [Digital EXCEPT !.ident = <<1, 8, 1>>, !.bits = [o |-> 0, i |-> 32],
            !.sii = <<[cat |-> "txpdo", pdos |-> [k \in 1 .. 4 |-> [sm |-> 0, bits |-> <<8>>]]]>>]

MCDevice ==
  [half |-> HalfDrive, hollow |-> Hollow, crowd |-> Crowd, nop |-> Nop,
   digital |-> Digital, drive |-> Drive, slow |-> Slow, untyped |-> Untyped, servo |-> Servo]
Kinds == {"digital", "drive", "slow", "untyped", "servo"}

(* Trees: parents come before their children on the wire, which leave by   *)
(* the ports 3, 1, 2 in turn.                                              *)
Turn(p) == CASE p = 3 -> 1 [] p = 1 -> 2 [] OTHER -> 3
Path(parent, s) == LET up[k \in 0 .. s] == IF k = 0 THEN {} ELSE {k} \cup up[parent[k]] IN up[s]
Trees(n) ==
  {t \in [parent : {f \in [1 .. n -> 0 .. n - 1] : f[1] = 0 /\ \A s \in 2 .. n : f[s] \in 1 .. s - 1},
          port : [1 .. n -> {1, 2, 3}], delay : {[s \in 1 .. n |-> 2 ^ s + 3]}] :
     /\ t.port[1] = 3
     /\ \A s \in 2 .. n : t.parent[s] \in Path(t.parent, s - 1)
     /\ \A s, u \in 2 .. n : s < u /\ t.parent[s] = t.parent[u] => Turn(t.port[s]) < Turn(t.port[u])}
Line(n) == [parent |-> [s \in 1 .. n |-> s - 1], port |-> [s \in 1 .. n |-> 3], delay |-> [s \in 1 .. n |-> 2 ^ s + 3]]

Fresh == [adr |-> 0, fmmu |-> {}, sm |-> {}, mbx |-> <<0, 0>>, pdi |-> FALSE]
Used(adr) == [adr |-> adr, fmmu |-> 0 .. 3, sm |-> 0 .. 4, mbx |-> <<16, 20>>, pdi |-> TRUE]

Syncs == {[two |-> FALSE, cycle0 |-> 5, cycle1 |-> 0, shift |-> 2], [two |-> TRUE, cycle0 |-> 2, cycle1 |-> 4, shift |-> -1],
          [two |-> FALSE, cycle0 |-> 0, cycle1 |-> 0, shift |-> 0]}
OneSync == [two |-> FALSE, cycle0 |-> 5, cycle1 |-> 0, shift |-> 2]

Scene(devices, tree, dc, start, f(_), eni, sync, losses) ==
  [devices |-> devices, tree |-> tree, dc |-> dc, start |-> [s \in DOMAIN devices |-> start],
   old |-> [s \in DOMAIN devices |-> f(s)], eni |-> eni, sync |-> sync, losses |-> losses]

TreeScenes ==
  UNION {{Scene([s \in 1 .. n |-> "nop"], t, dc, start, LAMBDA s : Fresh, <<>>, OneSync, 0) :
            t \in Trees(n), dc \in SUBSET (1 .. n),
            start \in IF n = 4 THEN {0} ELSE {0, MCHalf - 9, 2 * MCHalf - 9}} : n \in 1 .. 4}

(* An ENI for slave 1 and another, the latter after the last of the line.  *)
Assign(s, ident) ==
  [slave |-> s, ident |-> ident,
   cmds |-> <<[trans |-> "IP", sm |-> 2, pdos |-> <<"t">>, bits |-> [o |-> 36, i |-> 52]],
              [trans |-> "PS", sm |-> 3, pdos |-> <<"s">>, bits |-> [o |-> 48, i |-> 16]]>>]
Enis == {<<>>, <<Assign(1, Drive.ident), Assign(2, Untyped.ident)>>, <<Assign(1, Servo.ident), Assign(3, Drive.ident)>>}

KindScenes ==
  UNION {{Scene(devices, Line(2), {1}, 0, LAMBDA s : Fresh, eni, OneSync, 1),
          Scene(devices, Line(2), {2}, 0, LAMBDA s : Used(3 - s), eni, OneSync, 1)} :
            devices \in [1 .. 2 -> Kinds], eni \in Enis}
  \cup {Scene(<<a, "drive", a>>, Line(3), {}, 0, LAMBDA s : Used(s), <<>>, OneSync, 0) : a \in DOMAIN MCDevice}

SyncScenes == {Scene(<<"nop", "nop">>, Line(2), {1, 2}, 0, LAMBDA s : Used(3 - s), <<>>, sync, 2) : sync \in Syncs}

TooMany == {Scene([s \in 1 .. 5 |-> "nop"], Line(5), {}, 0, LAMBDA s : Fresh, <<>>, OneSync, 0)}

MCScenes == TreeScenes \cup KindScenes \cup SyncScenes \cup TooMany

MCGarbage == {<<>>, Drive.sii, Digital.sii}
=============================================================================
