------------------------- MODULE CheckThreadProofs -------------------------
(***************************************************************************)
(* Addresses and mappings in a segment of any size, with any number of     *)
(* lost datagrams, slow slaves and changes of the line.                    *)
(*                                                                         *)
(* The device at a place has no address, its own or the temporary one, and *)
(* the temporary one only while recover_slave is about that place.  A      *)
(* device without FMMUs stays below SAFE_OP but for the moment in which    *)
(* reconfig_slave is about to write them; and a state read from a device   *)
(* is acted upon only while the device is the one that was read.           *)
(***************************************************************************)
EXTENDS CheckThread, FiniteSetTheorems, WellFoundedInduction, TLAPS

-----------------------------------------------------------------------------
(* Types. *)
States == {INIT, PREOP, SAFEOP, OP}
ALs == States \cup {st + ERROR : st \in States}
Wants == States \cup {None, SAFEOP + ERROR}
Registers == [adr : 0 .. TEMP, al : ALs, want : Wants, sm : BOOLEAN, fmmu : BOOLEAN]
Entries == [state : ALs \cup {None}, configadr : 0 .. TEMP, islost : BOOLEAN]

PlaceInv ==
  /\ places \in [Slaves -> Devices] /\ reach \in 0 .. Cardinality(Slaves)
  /\ \A s, t \in Slaves : places[s] = places[t] => s = t
TypeInv ==
  /\ PlaceInv /\ dev \in [Devices -> Registers] /\ sl \in [Slaves -> Entries]
  /\ ix \in Slaves /\ checking \in BOOLEAN /\ plan \in Seq(States)

(* Where the caller and the functions are. *)
RecoverPcs == {"recover", "clear", "temp", "undo", "alias", "id", "man", "rev", "rename", "remove"}
ReconfigPcs == {"reconfig", "await init", "sm", "delay", "preop", "await preop", "safeop",
                "await safeop", "fmmu"}
StageFits ==
  /\ pc \in {"readstate", "readall"} => stage = "readstate"
  /\ pc = "writestate" => stage = "writestate"
  /\ pc = "recheck" => stage = "recheck"
  /\ pc \in RecoverPcs => stage = "recover"
  /\ pc \in ReconfigPcs => stage = "reconfig"
  /\ stage \in {"readstate", "writestate", "recheck", "recover", "reconfig"}
CheckPcs == {"readstate", "readall", "writestate", "recheck", "returned", "examine", "tail", "next"}
              \cup RecoverPcs \cup ReconfigPcs
ControlInv ==
  /\ IF checking THEN pc = "idle" \/ (pc \in CheckPcs /\ StageFits)
     ELSE pc \in {"idle", "readstate", "readall", "writeall", "checkall", "returned"}
  /\ pc \in {"writeall", "checkall"} => state0 \in States
  /\ pc = "writestate" => sl[ix].state \in {OP, SAFEOP + ERROR}
  /\ \A s \in Slaves :
       sl[s].configadr = IF s = ix /\ pc \in {"alias", "id", "man", "rev", "rename", "remove"} THEN TEMP ELSE s

(* What the device at a place answers to. *)
Temporary == {"undo", "alias", "id", "man", "rev", "rename", "remove"}
Fits(s, w) == Identity[places[s]][w] = Identity[s][w] \/ (w \in missed /\ Identity[s][w] = 0)
Compared ==   \* what recover_slave has compared so far
  CASE pc = "id" -> {"alias"}
    [] pc = "man" -> {"alias", "id"}
    [] pc = "rev" -> {"alias", "id", "man"}
    [] pc = "rename" -> Words
    [] OTHER -> {}
Adr(s) == dev[places[s]].adr
NameFits(s) ==
  /\ Adr(s) \in {0, s, TEMP}
  /\ Adr(s) = TEMP => pc \in Temporary /\ s = ix
  /\ Adr(s) = s => \A w \in Words : Fits(s, w)
  /\ Adr(s) = TEMP => \A w \in Compared : Fits(s, w)
NameInv == "name" \notin missed => \A s \in Slaves : NameFits(s)

(* Without its FMMUs a device does not come to OP. *)
Al(s) == State(dev[places[s]].al)
Want(s) == State(dev[places[s]].want)
Mapped(s) == dev[places[s]].fmmu
Below(s) ==
  IF checking THEN Al(s) \in {INIT, PREOP} /\ Want(s) # SAFEOP
  ELSE Al(s) = INIT /\ ~dev[places[s]].sm
Configuring(s) ==
  /\ checking /\ pc \in {"await safeop", "fmmu"} /\ Adr(s) = ix
  /\ Al(s) # OP /\ (Al(s) = SAFEOP => Want(s) # OP)
MapInv ==
  missed \cap {"name", "fmmu"} = {} => \A s \in Slaves : Mapped(s) \/ Below(s) \/ Configuring(s)

(* A slave whose state was read and not yet acted upon. *)
Pending(s) ==
  CASE pc \in {"idle", "readstate", "readall"} -> FALSE
    [] pc = "returned" /\ stage = "readstate" -> TRUE
    [] pc \in {"examine", "writestate"} -> s >= ix
    [] OTHER -> s > ix
StaleInv ==
  checking /\ missed \cap {"name", "fmmu"} = {} =>
    \A s \in Slaves :
      Pending(s) /\ State(sl[s].state) = SAFEOP /\ Adr(s) = s => Mapped(s)

(* A device without a name has not come beyond INIT. *)
UnnamedInv ==
  /\ pc \in {"clear", "temp"} => Adr(ix) = 0
  /\ "name" \notin missed =>
       \A s \in Slaves : Adr(s) \in {0, TEMP} => Al(s) = INIT /\ ~dev[places[s]].sm

SegmentInv == TypeInv /\ ControlInv /\ NameInv /\ MapInv /\ StaleInv

-----------------------------------------------------------------------------
(***************************************************************************)
(* The line.                                                               *)
(***************************************************************************)

(* The greatest element of a bounded set of naturals. *)
LEMMA GreatestExists ==
  ASSUME NEW n \in Nat, NEW S \in SUBSET (1 .. n), S # {}
  PROVE  \E x \in S : \A y \in S : x >= y
<1> DEFINE T == {n - x : x \in S}
<1>0. \A x \in S : x \in 1 .. n /\ n - x \in Nat
    OBVIOUS
<1>1. T \in SUBSET Nat /\ T # {}
    BY <1>0
<1> HIDE DEF T
<1>2. PICK m \in T : \A k \in T : ~(<<k, m>> \in OpToRel(<, Nat))
    BY <1>1, NatLessThanWellFounded, WFMin
<1>3. \A k \in T : ~(k < m)
    BY <1>1, <1>2 DEF OpToRel
<1>4. PICK x \in S : m = n - x
    BY DEF T
<1>5. \A y \in S : n - y \in T /\ y \in Int /\ x \in Int
    BY DEF T
<1> QED
    BY <1>3, <1>4, <1>5

LEMMA Line ==
  /\ Cardinality(Slaves) \in Nat /\ Slaves = 1 .. Cardinality(Slaves) /\ TEMP = Cardinality(Slaves) + 1
  /\ 1 \in Slaves /\ \A s \in Slaves : s \in Nat /\ s # 0 /\ s # TEMP /\ s \in 0 .. TEMP
  /\ 0 \in 0 .. TEMP /\ TEMP \in 0 .. TEMP /\ TEMP # 0
<1>1. Cardinality(Slaves) \in Nat /\ Slaves = 1 .. Cardinality(Slaves) /\ Slaves # {}
    BY SegmentAssumption, FS_CardinalityType DEF SegmentAssumption
<1>2. TEMP = Cardinality(Slaves) + 1
    BY DEF TEMP
<1> HIDE DEF TEMP
<1> QED
    BY <1>1, <1>2

(* AL status and requests. *)
LEMMA StateIs ==
  /\ State(None) = 0 /\ State(INIT) = INIT /\ State(PREOP) = PREOP /\ State(SAFEOP) = SAFEOP
  /\ State(OP) = OP /\ State(INIT + ERROR) = INIT /\ State(PREOP + ERROR) = PREOP
  /\ State(SAFEOP + ERROR) = SAFEOP /\ State(OP + ERROR) = OP
BY DEF State, None, INIT, PREOP, SAFEOP, OP, ERROR

LEMMA StatesDiffer ==
  /\ INIT = 1 /\ PREOP = 2 /\ SAFEOP = 4 /\ OP = 8 /\ None = 0 /\ ERROR = 16
  /\ INIT # PREOP /\ INIT # SAFEOP /\ INIT # OP /\ PREOP # SAFEOP /\ PREOP # OP /\ SAFEOP # OP
  /\ 0 # SAFEOP /\ 0 # OP
BY DEF None, INIT, PREOP, SAFEOP, OP, ERROR

LEMMA StateOfAL ==
  \A al \in ALs : State(al) \in States /\ State(al) \in ALs /\ State(al) + ERROR \in ALs
                  /\ State(State(al)) = State(al) /\ State(State(al) + ERROR) = State(al)
BY StateIs DEF ALs, States

(* Whom a datagram reaches. *)
LEMMA HitsAre ==
  ASSUME PlaceInv
  PROVE  /\ Connected \in SUBSET Devices /\ IsFiniteSet(Connected)
         /\ \A d \in Connected : \E s \in Slaves : s <= reach /\ d = places[s]
         /\ \A a : Addressed(a) \in SUBSET Connected /\ \A d \in Addressed(a) : dev[d].adr = a
         /\ \A s \in Slaves : At(s) \in SUBSET Connected /\ \A d \in At(s) : d = places[s]
<1> DEFINE S == {t \in Slaves : t <= reach}
<1>1. IsFiniteSet(Slaves) /\ S \in SUBSET Slaves
    BY SegmentAssumption DEF SegmentAssumption
<1>2. IsFiniteSet(S)
    BY <1>1, FS_Subset
<1>3. IsFiniteSet({places[s] : s \in S})
  <2> DEFINE f == [s \in S |-> places[s]]
             T == {places[s] : s \in S}
  <2>1. f \in Surjection(S, T)
      BY DEF Surjection
  <2> HIDE DEF f, T, S
  <2>2. IsFiniteSet(T)
      BY <1>2, <2>1, FS_Surjection
  <2> QED
      BY <2>2 DEF T, S
<1>4. Connected = {places[s] : s \in S}
    BY DEF Connected
<1>5. \A d \in Connected : \E s \in Slaves : s <= reach /\ d = places[s]
    BY <1>4
<1>6. Connected \in SUBSET Devices
    BY <1>5 DEF PlaceInv
<1>7. \A s \in Slaves : At(s) \in SUBSET Connected /\ \A d \in At(s) : d = places[s]
    BY <1>4 DEF At
<1> QED
    BY <1>3, <1>4, <1>5, <1>6, <1>7 DEF Addressed

(* A datagram leaves every device as it was or as it was written, and a    *)
(* counter that is positive says that everybody it addressed was there.    *)
LEMMA DatagramDoes ==
  ASSUME TypeInv, NEW hits \in SUBSET Connected, NEW written, NEW wkc,
         \A d \in hits : written[d] \in Registers, Datagram(hits, written, wkc)
  PROVE  /\ dev' \in [Devices -> Registers]
         /\ \A d \in Devices : dev'[d] = dev[d] \/ (d \in hits /\ dev'[d] = written[d])
         /\ wkc > 0 => hits # {} /\ \A d \in hits : dev'[d] = written[d]
<1> DEFINE done == [d \in Devices |-> IF d \in hits THEN written[d] ELSE dev[d]]
<1>1. dev \in [Devices -> Registers] /\ hits \in SUBSET Devices /\ IsFiniteSet(hits)
    BY HitsAre, FS_Subset DEF TypeInv
<1>2. done \in [Devices -> Registers] /\ \A d \in Devices : done[d] = IF d \in hits THEN written[d] ELSE dev[d]
    BY <1>1
<1>3. \/ wkc = Cardinality(hits) /\ dev' = done
      \/ wkc = -1 /\ (dev' = dev \/ dev' = done)
    BY DEF Datagram
<1> HIDE DEF done
<1>4. dev' \in [Devices -> Registers]
    BY <1>1, <1>2, <1>3
<1>5. \A d \in Devices : dev'[d] = dev[d] \/ (d \in hits /\ dev'[d] = written[d])
    BY <1>2, <1>3
<1>6. ASSUME wkc > 0 PROVE hits # {} /\ \A d \in hits : dev'[d] = written[d]
  <2>1. wkc = Cardinality(hits) /\ dev' = done
      BY <1>3, <1>6
  <2>2. hits # {}
      BY <1>6, <2>1, FS_EmptySet
  <2> QED
      BY <1>1, <1>2, <2>1, <2>2
<1> QED
    BY <1>4, <1>5, <1>6

LEMMA ReadDoes ==
  ASSUME TypeInv, NEW hits \in SUBSET Connected, NEW wkc, Read(hits, wkc)
  PROVE  dev' = dev /\ (wkc > 0 => hits # {})
<1>1. dev \in [Devices -> Registers] /\ hits \in SUBSET Devices
    BY HitsAre DEF TypeInv
<1>2. Datagram(hits, dev, wkc) /\ \A d \in hits : dev[d] \in Registers
    BY <1>1 DEF Read
<1>3. /\ dev' \in [Devices -> Registers]
      /\ \A d \in Devices : dev'[d] = dev[d] \/ (d \in hits /\ dev'[d] = dev[d])
      /\ wkc > 0 => hits # {}
    BY <1>2, DatagramDoes
<1> QED
    BY <1>1, <1>3

(* The one that answers is one of those addressed. *)
LEMMA AnsweringIs ==
  ASSUME PlaceInv, NEW hits \in SUBSET Connected, hits # {}
  PROVE  Answering(hits) \in hits
<1> DEFINE S == {s \in Slaves : places[s] \in hits}
<1>1. PICK d \in hits : TRUE
    OBVIOUS
<1>2. \E s \in Slaves : d = places[s]
    BY <1>1, HitsAre
<1>3. S # {} /\ S \in SUBSET (1 .. Cardinality(Slaves)) /\ Cardinality(Slaves) \in Nat
    BY <1>1, <1>2, Line
<1>4. \A s \in S : places[s] \in hits
    OBVIOUS
<1>5. Answering(hits) = places[Max(S)]
    BY DEF Answering
<1> HIDE DEF S
<1>6. \E x \in S : \A y \in S : x >= y
    BY <1>3, GreatestExists
<1>7. Max(S) \in S
    BY <1>6 DEF Max
<1> QED
    BY <1>4, <1>5, <1>7

-----------------------------------------------------------------------------
(***************************************************************************)
(* What steps have in common.                                              *)
(***************************************************************************)
LEMMA NamesStay ==
  ASSUME NameInv, missed \subseteq missed', pc \in Temporary => pc' = pc /\ ix' = ix,
         \A s \in Slaves : Adr(s)' = 0 \/ (places'[s] = places[s] /\ Adr(s)' = Adr(s))
  PROVE  NameInv'
<1> SUFFICES ASSUME "name" \notin missed', NEW s \in Slaves PROVE NameFits(s)'
    BY DEF NameInv
<1>1. NameFits(s)
    BY DEF NameInv
<1>2. s # 0 /\ TEMP # 0 /\ s # TEMP
    BY Line
<1>3. CASE Adr(s)' = 0
    BY <1>2, <1>3 DEF NameFits
<1>4. CASE places'[s] = places[s] /\ Adr(s)' = Adr(s)
  <2>1. \A w \in Words : Fits(s, w) => Fits(s, w)'
      BY <1>4 DEF Fits
  <2>2. Compared \subseteq Words
      BY DEF Compared, Words
  <2>3. Adr(s) = TEMP => Compared' = Compared
      BY <1>1 DEF NameFits, Compared
  <2> QED
      BY <1>1, <1>2, <1>4, <2>1, <2>2, <2>3 DEF NameFits
<1> QED
    BY <1>3, <1>4

LEMMA FreshIs ==
  /\ Fresh.adr = 0 /\ Fresh.al = INIT /\ Fresh.want = None /\ ~Fresh.sm /\ Fresh \in Registers
  /\ State(Fresh.al) = INIT /\ State(Fresh.want) # SAFEOP
<1>1. Fresh.adr = 0 /\ Fresh.al = INIT /\ Fresh.want = None /\ ~Fresh.sm
    BY DEF Fresh
<1>2. 0 \in 0 .. TEMP /\ INIT \in ALs /\ None \in Wants
    BY Line DEF ALs, Wants, States
<1>3. Fresh \in Registers
    BY <1>2 DEF Fresh, Registers
<1>4. State(Fresh.al) = INIT
    BY <1>1, StateIs
<1>5. State(Fresh.want) # SAFEOP
    BY <1>1, StateIs, StatesDiffer
<1> QED
    BY <1>1, <1>3, <1>4, <1>5

LEMMA MapStays ==
  ASSUME MapInv, missed \subseteq missed', checking' = checking,
         pc \in {"await safeop", "fmmu"} => pc' \in {"await safeop", "fmmu"} /\ ix' = ix,
         \A s \in Slaves :
           \/ dev'[places'[s]] = Fresh
           \/ places'[s] = places[s] /\ dev'[places[s]] = dev[places[s]]
  PROVE  MapInv'
<1> SUFFICES ASSUME missed' \cap {"name", "fmmu"} = {}, NEW s \in Slaves
             PROVE  (Mapped(s) \/ Below(s) \/ Configuring(s))'
    BY DEF MapInv
<1>1. Mapped(s) \/ Below(s) \/ Configuring(s)
    BY DEF MapInv
<1>2. CASE dev'[places'[s]] = Fresh
  <2>1. ~dev'[places'[s]].sm
      BY <1>2, FreshIs
  <2>2. Al(s)' = INIT /\ Want(s)' # SAFEOP
      BY <1>2, FreshIs DEF Al, Want
  <2>3. Al(s)' \in {INIT, PREOP}
      BY <2>2
  <2>4. Below(s)'
      BY <2>1, <2>2, <2>3 DEF Below
  <2> QED
      BY <2>4
<1>3. CASE places'[s] = places[s] /\ dev'[places[s]] = dev[places[s]]
    BY <1>1, <1>3 DEF Mapped, Below, Configuring, Al, Want, Adr
<1> QED
    BY <1>2, <1>3

LEMMA StaleStays ==
  ASSUME StaleInv, missed \subseteq missed', checking' = checking,
         \A s \in Slaves :
           Pending(s)' => Pending(s) /\ (State(sl'[s].state) = SAFEOP => State(sl[s].state) = SAFEOP),
         \A s \in Slaves :
           \/ Adr(s)' # s \/ ~Pending(s)'
           \/ places'[s] = places[s] /\ Adr(s)' = Adr(s) /\ (Mapped(s) => Mapped(s)')
  PROVE  StaleInv'
<1> SUFFICES ASSUME checking, missed' \cap {"name", "fmmu"} = {}, NEW s \in Slaves,
                    Pending(s)', State(sl'[s].state) = SAFEOP, Adr(s)' = s
             PROVE  Mapped(s)'
    BY DEF StaleInv
<1>1. Pending(s) /\ State(sl[s].state) = SAFEOP
    OBVIOUS
<1>2. Adr(s)' = Adr(s) /\ (Mapped(s) => Mapped(s)')
    OBVIOUS
<1> QED
    BY <1>1, <1>2 DEF StaleInv

(* Most steps touch no device. *)
LEMMA DevicesStay ==
  ASSUME SegmentInv, UNCHANGED <<dev, places, reach, checking>>, missed \subseteq missed',
         pc \notin Temporary, TypeInv', ControlInv',
         pc \in {"await safeop", "fmmu"} => pc' \in {"await safeop", "fmmu"} /\ ix' = ix,
         \A s \in Slaves :
           Pending(s)' => Pending(s) /\ (State(sl'[s].state) = SAFEOP => State(sl[s].state) = SAFEOP)
  PROVE  SegmentInv'
<1>0. \A s \in Slaves : places'[s] = places[s] /\ Adr(s)' = Adr(s) /\ Mapped(s)' = Mapped(s)
    BY DEF Adr, Mapped
<1>1. NameInv'
    BY <1>0, NamesStay DEF SegmentInv
<1>2. MapInv'
    BY MapStays DEF SegmentInv
<1>3. StaleInv'
    BY <1>0, StaleStays DEF SegmentInv
<1> QED
    BY <1>1, <1>2, <1>3 DEF SegmentInv

-----------------------------------------------------------------------------
(***************************************************************************)
(* The caller.                                                             *)
(***************************************************************************)
LEMMA CheckStep ==
  ASSUME SegmentInv, Check \/ CheckAfterLoss
  PROVE  SegmentInv'
<1>1. /\ TypeInv /\ ControlInv /\ checking /\ pc = "idle" /\ pc' = "readstate" /\ stage' = "readstate"
      /\ UNCHANGED <<dev, places, reach, missed, checking, state0, plan, sl, ix>>
    BY DEF SegmentInv, Check, CheckAfterLoss, CheckNow, Call, outsideCaller, segmentVars, lineVars
<1>2. TypeInv'
    BY <1>1 DEF TypeInv, PlaceInv
<1>3. ControlInv'
    BY <1>1 DEF ControlInv, StageFits, CheckPcs, RecoverPcs, ReconfigPcs
<1> QED
    BY <1>1, <1>2, <1>3, DevicesStay DEF Pending, Temporary

(* What the check thread does about a slave depends on its state. *)
LEMMA ExamineGoes ==
  ASSUME TypeInv, Examine
  PROVE  \/ pc' = "tail" /\ UNCHANGED <<sl, stage>>
         \/ pc' = "writestate" /\ stage' = "writestate" /\ sl[ix].state = SAFEOP + ERROR
            /\ sl' = [sl EXCEPT ![ix].state = SAFEOP + ERROR]
         \/ pc' = "writestate" /\ stage' = "writestate" /\ sl' = [sl EXCEPT ![ix].state = OP]
         \/ pc' = "reconfig" /\ stage' = "reconfig" /\ sl' = sl
         \/ pc' = "recheck" /\ stage' = "recheck" /\ sl' = sl
<1>1. sl[ix] \in Entries /\ sl[ix].state \in ALs \cup {None} /\ sl[ix].islost \in BOOLEAN
    BY DEF TypeInv, Entries
<1> DEFINE st == sl[ix].state
<1>3. \/ st = OP \/ st = SAFEOP + ERROR \/ st = SAFEOP
      \/ (st > None /\ st \notin {OP, SAFEOP, SAFEOP + ERROR})
      \/ (st = None /\ ~sl[ix].islost) \/ (st = None /\ sl[ix].islost)
    BY <1>1 DEF ALs, States, None, INIT, PREOP, SAFEOP, OP, ERROR
<1>2. SAFEOP + ERROR = 20 /\ None = 0 /\ OP = 8 /\ SAFEOP = 4
    BY StatesDiffer
<1>4. CASE st = OP
  <2>1. pc' = "tail" /\ UNCHANGED <<sl, stage>>
      BY <1>4, StatesDiffer DEF Examine, Goto
  <2> QED
      BY <2>1
<1>5. CASE st = SAFEOP + ERROR
  <2>1. pc' = "writestate" /\ stage' = "writestate" /\ sl' = [sl EXCEPT ![ix].state = SAFEOP + ERROR]
      BY <1>5, StatesDiffer DEF Examine, Call, InState, Acknowledged
  <2> QED
      BY <1>5, <2>1
<1>6. CASE st = SAFEOP
  <2>1. pc' = "writestate" /\ stage' = "writestate" /\ sl' = [sl EXCEPT ![ix].state = OP]
      BY <1>6, StatesDiffer DEF Examine, Call, InState
  <2> QED
      BY <2>1
<1>7. CASE st > None /\ st \notin {OP, SAFEOP, SAFEOP + ERROR}
  <2>1. pc' = "reconfig" /\ stage' = "reconfig" /\ sl' = sl
    <3>1. /\ sl[ix].state # OP /\ sl[ix].state # SAFEOP + ERROR /\ sl[ix].state # SAFEOP
          /\ sl[ix].state > None /\ sl[ix].state # None
        BY <1>7, <1>2, <1>1 DEF ALs, States, INIT, PREOP, SAFEOP, OP, ERROR
    <3> HIDE DEF st
    <3> QED
        BY <3>1 DEF Examine, Call
  <2> QED
      BY <2>1
<1>8. CASE st = None /\ ~sl[ix].islost
  <2>1. pc' = "recheck" /\ stage' = "recheck" /\ sl' = sl
      BY <1>8, StatesDiffer DEF Examine, Call
  <2> QED
      BY <2>1
<1>9. CASE st = None /\ sl[ix].islost
  <2>1. pc' = "tail" /\ UNCHANGED <<sl, stage>>
      BY <1>9, StatesDiffer DEF Examine, Goto
  <2> QED
      BY <2>1
<1> QED
    BY <1>3, <1>4, <1>5, <1>6, <1>7, <1>8, <1>9

LEMMA ExamineStep ==
  ASSUME SegmentInv, Examine
  PROVE  SegmentInv'
<1>1. /\ TypeInv /\ ControlInv /\ pc = "examine" /\ ix' = ix
      /\ UNCHANGED <<dev, places, reach, missed, checking, state0, plan>>
      /\ sl \in [Slaves -> Entries] /\ ix \in Slaves
    BY DEF SegmentInv, Examine, outsideCaller, segmentVars, TypeInv
<1>2. checking /\ stage \in {"readstate", "writestate", "recheck", "recover", "reconfig"}
    BY <1>1 DEF ControlInv, StageFits
<1>3. sl[ix] \in Entries /\ sl[ix].state \in ALs \cup {None} /\ sl[ix].islost \in BOOLEAN
    BY <1>1 DEF Entries
<1>4. \/ pc' = "tail" /\ UNCHANGED <<sl, stage>>
      \/ pc' = "writestate" /\ stage' = "writestate" /\ sl[ix].state = SAFEOP + ERROR
         /\ sl' = [sl EXCEPT ![ix].state = SAFEOP + ERROR]
      \/ pc' = "writestate" /\ stage' = "writestate" /\ sl' = [sl EXCEPT ![ix].state = OP]
      \/ pc' = "reconfig" /\ stage' = "reconfig" /\ sl' = sl
      \/ pc' = "recheck" /\ stage' = "recheck" /\ sl' = sl
    BY <1>1, ExamineGoes
<1>5. /\ sl' \in [Slaves -> Entries] /\ \A s \in Slaves : sl'[s].configadr = sl[s].configadr
      /\ \A s \in Slaves : s # ix => sl'[s] = sl[s]
  <2>1. CASE sl' = sl
      BY <1>1, <2>1
  <2>2. ASSUME NEW st \in ALs, sl' = [sl EXCEPT ![ix].state = st]
        PROVE  /\ sl' \in [Slaves -> Entries] /\ \A s \in Slaves : sl'[s].configadr = sl[s].configadr
               /\ \A s \in Slaves : s # ix => sl'[s] = sl[s]
      BY <1>1, <2>2 DEF Entries
  <2>3. OP \in ALs /\ SAFEOP + ERROR \in ALs
      BY DEF ALs, States
  <2> QED
      BY <1>4, <2>1, <2>2, <2>3
<1>6. TypeInv'
    BY <1>1, <1>5 DEF TypeInv, PlaceInv
<1>7. pc' = "writestate" => sl'[ix].state \in {OP, SAFEOP + ERROR}
    BY <1>1, <1>4 DEF Entries
<1>8. ControlInv'
  <2>1. pc' \in CheckPcs /\ StageFits'
      BY <1>2, <1>4 DEF CheckPcs, StageFits, RecoverPcs, ReconfigPcs
  <2>2. pc' \in {"tail", "writestate", "reconfig", "recheck"}
      BY <1>4
  <2>3. \A s \in Slaves : sl[s].configadr = s
      BY <1>1 DEF ControlInv
  <2> QED
      BY <1>1, <1>2, <1>5, <1>7, <2>1, <2>2, <2>3 DEF ControlInv
<1>9. ASSUME NEW s \in Slaves, Pending(s)'
      PROVE  Pending(s) /\ (State(sl'[s].state) = SAFEOP => State(sl[s].state) = SAFEOP)
  <2>0. s \in Nat /\ ix \in Nat
      BY <1>1, Line
  <2>1. Pending(s) <=> s >= ix
      BY <1>1 DEF Pending
  <2>2. s >= ix
      BY <1>1, <1>4, <1>9, <2>0 DEF Pending
  <2>3. State(sl'[s].state) = SAFEOP => State(sl[s].state) = SAFEOP
    <3>1. CASE s # ix
        BY <1>5, <3>1
    <3>2. CASE s = ix
      <4>1. CASE sl' = sl
          BY <4>1
      <4>2. CASE sl[ix].state = SAFEOP + ERROR
          BY <3>2, <4>2, StateIs
      <4>3. CASE sl' = [sl EXCEPT ![ix].state = OP]
        <5>1. sl'[s].state = OP
            BY <1>1, <3>2, <4>3 DEF Entries
        <5> QED
            BY <5>1, StateIs, StatesDiffer
      <4> QED
          BY <1>4, <4>1, <4>2, <4>3
    <3> QED
        BY <3>1, <3>2
  <2> QED
      BY <2>1, <2>2, <2>3
<1> QED
    BY <1>1, <1>6, <1>8, <1>9, DevicesStay DEF Temporary

LEMMA LostIs ==
  ASSUME TypeInv, NEW is \in BOOLEAN, sl' = Lost(is)
  PROVE  /\ sl' \in [Slaves -> Entries]
         /\ \A s \in Slaves : sl'[s].configadr = sl[s].configadr /\ sl'[s].state = sl[s].state
BY DEF TypeInv, Lost, Entries

LEMMA ResumeStep ==
  ASSUME SegmentInv, Resume
  PROVE  SegmentInv'
<1>1. /\ TypeInv /\ ControlInv /\ checking /\ pc = "returned" /\ stage' = stage
      /\ UNCHANGED <<dev, places, reach, missed, checking, state0, plan>>
      /\ sl \in [Slaves -> Entries] /\ ix \in Slaves
    BY DEF SegmentInv, Resume, outsideCaller, segmentVars, TypeInv
<1>2. stage \in {"readstate", "writestate", "recheck", "recover", "reconfig"}
    BY <1>1 DEF ControlInv, StageFits
<1>3. \/ stage = "readstate" /\ pc' = "examine" /\ ix' = 1 /\ sl' = sl
      \/ stage # "readstate" /\ pc' \in {"tail", "next"} /\ ix' = ix
         /\ (sl' = sl \/ sl' = Lost(TRUE) \/ sl' = Lost(FALSE))
  <2>1. CASE stage = "readstate"
      BY <2>1 DEF Resume, Goto
  <2>2. CASE stage = "writestate"
      BY <2>2 DEF Resume, Goto
  <2>3. CASE stage = "recheck"
      BY <2>3 DEF Resume, Goto
  <2>4. CASE stage = "recover"
      BY <2>4 DEF Resume, Goto
  <2>5. CASE stage = "reconfig"
      BY <2>5 DEF Resume, Goto
  <2> QED
      BY <1>2, <2>1, <2>2, <2>3, <2>4, <2>5
<1>4. /\ sl' \in [Slaves -> Entries]
      /\ \A s \in Slaves : sl'[s].configadr = sl[s].configadr /\ sl'[s].state = sl[s].state
  <2>1. sl' = sl \/ sl' = Lost(TRUE) \/ sl' = Lost(FALSE)
      BY <1>3
  <2>2. TRUE \in BOOLEAN /\ FALSE \in BOOLEAN
      OBVIOUS
  <2> QED
      BY <1>1, <2>1, <2>2, LostIs
<1>5. TypeInv'
    BY <1>1, <1>3, <1>4, Line DEF TypeInv, PlaceInv
<1>6. ControlInv'
  <2>1. pc' \in {"examine", "tail", "next"}
      BY <1>3
  <2>3. pc' \in CheckPcs /\ StageFits'
      BY <1>1, <1>2, <2>1 DEF CheckPcs, StageFits, RecoverPcs, ReconfigPcs
  <2>2. \A s \in Slaves : sl[s].configadr = s
      BY <1>1 DEF ControlInv
  <2> QED
      BY <1>1, <1>4, <2>1, <2>2, <2>3 DEF ControlInv
<1>7. \A s \in Slaves : Pending(s)' => Pending(s)
    BY <1>1, <1>3 DEF Pending
<1> QED
    BY <1>1, <1>4, <1>5, <1>6, <1>7, DevicesStay DEF Temporary

LEMMA AfterExamineStep ==
  ASSUME SegmentInv, AfterExamine
  PROVE  SegmentInv'
<1>1. /\ TypeInv /\ ControlInv /\ pc = "tail" /\ ix' = ix
      /\ UNCHANGED <<dev, places, reach, missed, checking, state0, plan>>
      /\ sl \in [Slaves -> Entries] /\ ix \in Slaves
    BY DEF SegmentInv, AfterExamine, outsideCaller, segmentVars, TypeInv
<1>2. checking /\ stage \in {"readstate", "writestate", "recheck", "recover", "reconfig"}
    BY <1>1 DEF ControlInv, StageFits
<1>3. \/ pc' = "next" /\ stage' = stage /\ (sl' = sl \/ sl' = Lost(FALSE))
      \/ pc' = "recover" /\ stage' = "recover" /\ sl' = sl
    BY DEF AfterExamine, Goto, Call
<1>4. /\ sl' \in [Slaves -> Entries]
      /\ \A s \in Slaves : sl'[s].configadr = sl[s].configadr /\ sl'[s].state = sl[s].state
    BY <1>1, <1>3, LostIs
<1>5. TypeInv'
    BY <1>1, <1>4 DEF TypeInv, PlaceInv
<1>6. ControlInv'
  <2>1. pc' \in {"recover", "next"}
      BY <1>3
  <2>3. pc' \in CheckPcs /\ StageFits'
      BY <1>1, <1>2, <1>3 DEF CheckPcs, StageFits, RecoverPcs, ReconfigPcs
  <2>2. \A s \in Slaves : sl[s].configadr = s
      BY <1>1 DEF ControlInv
  <2> QED
      BY <1>1, <1>2, <1>4, <2>1, <2>2, <2>3 DEF ControlInv
<1>7. \A s \in Slaves : Pending(s)' => Pending(s)
    BY <1>1, <1>3 DEF Pending
<1> QED
    BY <1>1, <1>4, <1>5, <1>6, <1>7, DevicesStay DEF Temporary

LEMMA NextSlaveStep ==
  ASSUME SegmentInv, NextSlave
  PROVE  SegmentInv'
<1>1. /\ TypeInv /\ ControlInv /\ pc = "next" /\ stage' = stage
      /\ UNCHANGED <<dev, places, reach, missed, checking, state0, plan, sl>>
      /\ ix \in Slaves /\ ix \in Nat
    BY Line DEF SegmentInv, NextSlave, outsideCaller, segmentVars, TypeInv
<1>2. checking /\ stage \in {"readstate", "writestate", "recheck", "recover", "reconfig"}
    BY <1>1 DEF ControlInv, StageFits
<1>3. \/ pc' = "examine" /\ ix' = ix + 1 /\ ix' \in Slaves
      \/ pc' = "idle" /\ ix' = 1
    BY DEF NextSlave, Goto
<1>4. TypeInv'
    BY <1>1, <1>3, Line DEF TypeInv, PlaceInv
<1>5. ControlInv'
  <2>1. pc' = "idle" \/ (pc' = "examine" /\ pc' \in CheckPcs /\ StageFits')
      BY <1>1, <1>2, <1>3 DEF CheckPcs, StageFits, RecoverPcs, ReconfigPcs
  <2>2. \A s \in Slaves : sl[s].configadr = s
      BY <1>1 DEF ControlInv
  <2> QED
      BY <1>1, <1>2, <2>1, <2>2 DEF ControlInv
<1>6. \A s \in Slaves : Pending(s)' => Pending(s)
  <2>1. \A s \in Slaves : s \in Nat
      BY Line
  <2>2. \A s \in Slaves : Pending(s) <=> s > ix
      BY <1>1 DEF Pending
  <2>3. \A s \in Slaves : Pending(s)' => s >= ix + 1
      BY <1>3 DEF Pending
  <2> QED
      BY <1>1, <2>1, <2>2, <2>3
<1> QED
    BY <1>1, <1>4, <1>5, <1>6, DevicesStay DEF Temporary

(* A program that sets states does not examine slaves. *)
LEMMA ProgramStep ==
  ASSUME SegmentInv, SetState \/ StateSet \/ StatesDumped
  PROVE  SegmentInv'
<1>1. /\ TypeInv /\ ControlInv /\ ~checking /\ pc \in {"idle", "returned"}
      /\ UNCHANGED <<dev, places, reach, missed, checking, sl, ix>> /\ plan \in Seq(States)
    BY DEF SegmentInv, SetState, StateSet, StatesDumped, outsideCaller, segmentVars, TypeInv
<1>2. plan' \in Seq(States) /\ pc' \in {"idle", "readstate", "writeall"}
      /\ (pc' = "writeall" => state0' \in States)
  <2>1. CASE SetState
    <3>1. plan # <<>> /\ state0' = Head(plan) /\ pc' = "writeall" /\ plan' = plan
        BY <2>1 DEF SetState, Call
    <3> QED
        BY <1>1, <3>1
  <2>2. CASE StateSet
    <3>1. /\ plan' = Tail(plan) \/ plan' = <<>>
          /\ pc' \in {"idle", "readstate"}
        BY <2>2 DEF StateSet, Goto, ReadState, Call
    <3>2. CASE plan' = <<>>
        BY <3>1, <3>2
    <3>3. CASE plan' = Tail(plan) /\ plan # <<>>
        BY <1>1, <3>1, <3>3
    <3>4. CASE plan = <<>>
        BY <2>2, <3>1, <3>2, <3>4 DEF StateSet
    <3> QED
        BY <3>1, <3>2, <3>3, <3>4
  <2>3. CASE StatesDumped
      BY <1>1, <2>3 DEF StatesDumped, outsideCaller, Goto
  <2> QED
      BY <2>1, <2>2, <2>3
<1>3. TypeInv'
    BY <1>1, <1>2 DEF TypeInv, PlaceInv
<1>4. ControlInv'
    BY <1>1, <1>2 DEF ControlInv
<1>5. NameInv' /\ MapInv'
  <2>1. \A s \in Slaves : /\ places'[s] = places[s] /\ Adr(s)' = Adr(s)
                          /\ dev'[places'[s]] = dev[places[s]]
      BY <1>1 DEF Adr
  <2>2. missed \subseteq missed' /\ pc \notin Temporary /\ pc \notin {"await safeop", "fmmu"}
        /\ checking' = checking
      BY <1>1 DEF Temporary
  <2> QED
      BY <2>1, <2>2, NamesStay, MapStays DEF SegmentInv
<1>6. StaleInv'
    BY <1>1 DEF StaleInv
<1> QED
    BY <1>3, <1>4, <1>5, <1>6 DEF SegmentInv
-----------------------------------------------------------------------------
(***************************************************************************)
(* Reading.                                                                *)
(***************************************************************************)

(* Whoever has an address is at a place of the line. *)
LEMMA AddressedIs ==
  ASSUME TypeInv, NEW a, NEW d \in Addressed(a)
  PROVE  \E s \in Slaves : d = places[s] /\ Adr(s) = a /\ dev[d] \in Registers
BY HitsAre DEF TypeInv, PlaceInv, Adr

(* The slave whose name is counted on is found at its own place. *)
LEMMA OwnPlace ==
  ASSUME TypeInv, NameInv, "name" \notin missed, NEW s \in Slaves, NEW d \in Addressed(s)
  PROVE  d = places[s] /\ Adr(s) = s
<1>1. PICK t \in Slaves : d = places[t] /\ Adr(t) = s
    BY AddressedIs
<1>2. Adr(t) \in {0, t, TEMP} /\ s # 0 /\ s # TEMP
    BY <1>1, Line DEF NameInv, NameFits
<1> QED
    BY <1>1, <1>2

(* And the temporary address at the place recover_slave is about. *)
LEMMA TemporaryPlace ==
  ASSUME TypeInv, NameInv, "name" \notin missed, NEW d \in Addressed(TEMP)
  PROVE  d = places[ix] /\ Adr(ix) = TEMP /\ pc \in Temporary
<1>1. PICK t \in Slaves : d = places[t] /\ Adr(t) = TEMP
    BY AddressedIs
<1>2. t = ix /\ pc \in Temporary
    BY <1>1 DEF NameInv, NameFits
<1> QED
    BY <1>1, <1>2

(* ecx_statecheck changes nothing but the state of the slave it is about. *)
LEMMA CheckedDoes ==
  ASSUME TypeInv, NEW place, NEW wanted, NEW st, Checked(place, wanted, st)
  PROVE  /\ pc = place /\ UNCHANGED <<dev, places, reach, state0, ix, missed>>
         /\ sl' \in [Slaves -> Entries] /\ State(sl'[ix].state) = st
         /\ \A s \in Slaves : sl'[s].configadr = sl[s].configadr /\ (s # ix => sl'[s] = sl[s])
<1> DEFINE hits == Addressed(configadr)
<1>1. PICK wkc \in Counters :
        /\ Read(hits, wkc)
        /\ st = State(Taken(wkc, hits, AlState, 0)) /\ sl' = InState(ix, Taken(wkc, hits, AlState, 0))
    BY DEF Checked, FPRD
<1>2. pc = place /\ UNCHANGED <<places, reach, state0, ix, missed>>
    BY DEF Checked, lineVars
<1>3. PlaceInv /\ dev \in [Devices -> Registers] /\ sl \in [Slaves -> Entries] /\ ix \in Slaves
    BY DEF TypeInv
<1>4. hits \in SUBSET Connected /\ Connected \in SUBSET Devices
    BY <1>3, HitsAre
<1> HIDE DEF hits
<1>5. dev' = dev /\ (wkc > 0 => hits # {})
    BY <1>1, <1>4, ReadDoes
<1> DEFINE rval == Taken(wkc, hits, AlState, 0)
<1>6. rval \in ALs \cup {None}
  <2>1. CASE wkc > 0
    <3>1. Answering(hits) \in Devices
        BY <1>3, <1>4, <1>5, <2>1, AnsweringIs
    <3>2. rval = dev[Answering(hits)].al
        BY <2>1, <3>1 DEF Taken, AlState
    <3> QED
        BY <1>3, <3>1, <3>2 DEF Registers
  <2>2. CASE ~(wkc > 0)
      BY <2>2 DEF Taken, None
  <2> QED
      BY <2>1, <2>2
<1>7. sl' = [sl EXCEPT ![ix].state = rval] /\ st = State(rval)
    BY <1>1 DEF InState
<1> HIDE DEF rval
<1>8. /\ sl' \in [Slaves -> Entries] /\ sl'[ix].state = rval
      /\ \A s \in Slaves : sl'[s].configadr = sl[s].configadr /\ (s # ix => sl'[s] = sl[s])
    BY <1>3, <1>6, <1>7 DEF Entries
<1> QED
    BY <1>2, <1>5, <1>7, <1>8

LEMMA StateCheckStep ==
  ASSUME SegmentInv, UNCHANGED callerVars, recheck \/ awaitInit \/ awaitPreop \/ awaitSafeop
  PROVE  SegmentInv'
<1>0. TypeInv /\ ControlInv /\ UNCHANGED <<plan, checking, stage>>
    BY DEF SegmentInv, callerVars
<1>1. PICK place, wanted, st :
        /\ Checked(place, wanted, st)
        /\ \/ place = "recheck" /\ pc' = "returned"
           \/ place = "await init" /\ pc' \in {"sm", "returned"}
           \/ place = "await preop" /\ pc' \in {"safeop", "returned"}
           \/ place = "await safeop" /\ pc' = "fmmu"
  <2>1. CASE recheck
      BY <2>1 DEF recheck, Return
  <2>2. CASE awaitInit
      BY <2>2 DEF awaitInit, Onward, Goto, Return
  <2>3. CASE awaitPreop
      BY <2>3 DEF awaitPreop, Onward, Goto, Return
  <2>4. CASE awaitSafeop
      BY <2>4 DEF awaitSafeop, Goto, AfterSafeop
  <2> QED
      BY <2>1, <2>2, <2>3, <2>4
<1>2. /\ pc = place /\ UNCHANGED <<dev, places, reach, state0, ix, missed>>
      /\ sl' \in [Slaves -> Entries]
      /\ \A s \in Slaves : sl'[s].configadr = sl[s].configadr /\ (s # ix => sl'[s] = sl[s])
    BY <1>0, <1>1, CheckedDoes
<1>3. TypeInv'
    BY <1>0, <1>2 DEF TypeInv, PlaceInv
<1>4. /\ pc \in {"recheck", "await init", "await preop", "await safeop"}
      /\ pc' \in {"returned", "sm", "safeop", "fmmu"} /\ (pc = "recheck" => pc' = "returned")
      /\ (pc = "await safeop" => pc' = "fmmu")
    BY <1>1, <1>2
<1>5. checking /\ StageFits
    BY <1>0, <1>4 DEF ControlInv
<1>6. pc' \in CheckPcs /\ StageFits'
    BY <1>0, <1>4, <1>5 DEF StageFits, CheckPcs, RecoverPcs, ReconfigPcs
<1>7. \A s \in Slaves : sl[s].configadr = s
    BY <1>0, <1>4 DEF ControlInv
<1>8. ControlInv'
    BY <1>0, <1>2, <1>4, <1>5, <1>6, <1>7 DEF ControlInv
<1>9. ASSUME NEW s \in Slaves, Pending(s)'
      PROVE  Pending(s) /\ sl'[s] = sl[s]
  <2>1. stage # "readstate"
      BY <1>4, <1>5 DEF StageFits, ReconfigPcs
  <2>2. s \in Nat /\ ix \in Nat
      BY <1>0, Line DEF TypeInv
  <2>3. s > ix
      BY <1>0, <1>2, <1>4, <1>9, <2>1 DEF Pending
  <2>4. Pending(s)
      BY <1>4, <2>1, <2>3 DEF Pending
  <2>5. s # ix
      BY <2>2, <2>3
  <2> QED
      BY <1>2, <2>4, <2>5
<1>10. pc \notin Temporary /\ (pc \in {"await safeop", "fmmu"} => pc' \in {"await safeop", "fmmu"} /\ ix' = ix)
    BY <1>2, <1>4 DEF Temporary
<1>11. UNCHANGED <<dev, places, reach, checking>> /\ missed \subseteq missed'
    BY <1>0, <1>2
<1> QED
    BY <1>3, <1>8, <1>9, <1>10, <1>11, DevicesStay

(* A broadcast read that everybody answered with the same state. *)
LEMMA AllConnected ==
  ASSUME PlaceInv, Cardinality(Connected) >= Cardinality(Slaves)
  PROVE  \A s \in Slaves : places[s] \in Connected
<1> DEFINE S == 1 .. reach
           f == [s \in S |-> places[s]]
<1>1. reach \in Nat /\ reach <= Cardinality(Slaves) /\ Cardinality(Slaves) \in Nat
      /\ Slaves = 1 .. Cardinality(Slaves)
    BY Line DEF PlaceInv
<1>2. IsFiniteSet(S) /\ Cardinality(S) = reach
    BY <1>1, FS_Interval
<1>3. S = {t \in Slaves : t <= reach}
    BY <1>1
<1>4. Connected = {places[s] : s \in S}
    BY <1>3 DEF Connected
<1>5. f \in Surjection(S, Connected)
    BY <1>4 DEF Surjection
<1> HIDE DEF S, f
<1>6. Cardinality(Connected) <= Cardinality(S) /\ IsFiniteSet(Connected)
    BY <1>2, <1>5, FS_Surjection
<1>7. Cardinality(Connected) \in Nat
    BY <1>6, FS_CardinalityType
<1>8. reach = Cardinality(Slaves)
    BY <1>1, <1>2, <1>6, <1>7
<1>9. \A s \in Slaves : s \in S
    BY <1>1, <1>8 DEF S
<1> QED
    BY <1>4, <1>9

LEMMA OredShows ==
  ASSUME TypeInv, NEW st \in States, State(OredStates) = st, NEW d \in Connected
  PROVE  State(dev[d].al) = st /\ (~IsError(OredStates) => dev[d].al = st)
<1>1. dev[d] \in Registers
    BY HitsAre DEF TypeInv
<1>2. dev[d].al \in ALs
    BY <1>1 DEF Registers
<1>3. State(dev[d].al) \in States
    BY <1>2, StateOfAL
<1> DEFINE a == Shown(INIT)
           b == Shown(PREOP)
           c == Shown(SAFEOP)
           e == Shown(OP)
           x == IF \E y \in Connected : IsError(dev[y].al) THEN ERROR ELSE 0
<1>4. a \in {0, 1} /\ b \in {0, 2} /\ c \in {0, 4} /\ e \in {0, 8} /\ x \in {0, 16}
    BY DEF Shown, INIT, PREOP, SAFEOP, OP, ERROR
<1>5. /\ State(dev[d].al) = INIT => a = 1
      /\ State(dev[d].al) = PREOP => b = 2
      /\ State(dev[d].al) = SAFEOP => c = 4
      /\ State(dev[d].al) = OP => e = 8
      /\ IsError(dev[d].al) => x = 16
    BY DEF Shown, INIT, PREOP, SAFEOP, OP, ERROR
<1>6. OredStates = a + b + c + e + x
    BY DEF OredStates
<1> HIDE DEF a, b, c, e, x
<1>7. (a + b + c + e + x) % 16 = st /\ (IsError(OredStates) <=> a + b + c + e + x >= 16)
    BY <1>6 DEF State, IsError, ERROR
<1>8. st \in {1, 2, 4, 8}
    BY StatesDiffer DEF States
<1>9. a + b + c + e = st
    BY <1>4, <1>7, <1>8
<1>10. State(dev[d].al) = st
  <2>1. CASE State(dev[d].al) = INIT
      BY <1>4, <1>5, <1>8, <1>9, <2>1, StatesDiffer
  <2>2. CASE State(dev[d].al) = PREOP
      BY <1>4, <1>5, <1>8, <1>9, <2>2, StatesDiffer
  <2>3. CASE State(dev[d].al) = SAFEOP
      BY <1>4, <1>5, <1>8, <1>9, <2>3, StatesDiffer
  <2>4. CASE State(dev[d].al) = OP
      BY <1>4, <1>5, <1>8, <1>9, <2>4, StatesDiffer
  <2> QED
      BY <1>3, <2>1, <2>2, <2>3, <2>4 DEF States
<1>11. ASSUME ~IsError(OredStates) PROVE dev[d].al = st
  <2>1. x = 0
      BY <1>4, <1>7, <1>11
  <2>2. ~IsError(dev[d].al)
      BY <1>5, <2>1
  <2>3. dev[d].al = State(dev[d].al)
      BY <1>2, <2>2 DEF ALs, States, INIT, PREOP, SAFEOP, OP, ERROR, IsError, State
  <2> QED
      BY <1>10, <2>3
<1> QED
    BY <1>10, <1>11

LEMMA readstateBroadcastStep ==
  ASSUME SegmentInv, UNCHANGED callerVars, readstateBroadcast
  PROVE  SegmentInv'
<1>0. /\ TypeInv /\ ControlInv /\ NameInv /\ MapInv /\ UNCHANGED <<plan, checking, stage>>
      /\ PlaceInv /\ sl \in [Slaves -> Entries]
    BY DEF SegmentInv, callerVars, TypeInv
<1>1. pc = "readstate" /\ UNCHANGED <<places, reach, ix, missed>>
    BY DEF readstateBroadcast, lineVars
<1>2. PICK wkc \in Counters :
        /\ Read(Connected, wkc)
        /\ LET rval == IF wkc > 0 THEN OredStates ELSE 0
               same == State(rval) \in {INIT, PREOP, SAFEOP, OP} IN
           IF ~IsError(rval) /\ same /\ AllPresent(wkc)
           THEN /\ sl' = [s \in Slaves |-> [sl[s] EXCEPT !.state = State(rval)]]
                /\ state0' = State(rval) /\ pc' = "returned"
           ELSE pc' = "readall" /\ sl' = sl
    BY DEF readstateBroadcast, BRD, Broadcast, Return, Goto
<1>3. dev' = dev
    BY <1>0, <1>2, ReadDoes
<1> DEFINE rval == IF wkc > 0 THEN OredStates ELSE 0
           st == State(rval)
<1>4. \/ pc' = "readall" /\ sl' = sl
      \/ /\ ~IsError(rval) /\ AllPresent(wkc) /\ st \in States
         /\ sl' = [s \in Slaves |-> [sl[s] EXCEPT !.state = st]] /\ pc' = "returned"
    BY <1>2 DEF States
<1> HIDE DEF st, rval
<1>5. /\ sl' \in [Slaves -> Entries] /\ \A s \in Slaves : sl'[s].configadr = sl[s].configadr
      /\ pc' = "returned" => \A s \in Slaves : sl'[s].state = st
  <2>1. CASE pc' = "readall" /\ sl' = sl
      BY <1>0, <2>1
  <2>2. CASE st \in States /\ sl' = [s \in Slaves |-> [sl[s] EXCEPT !.state = st]]
      BY <1>0, <2>2 DEF Entries, ALs
  <2> QED
      BY <1>4, <2>1, <2>2
<1>6. TypeInv'
    BY <1>0, <1>1, <1>3, <1>5 DEF TypeInv, PlaceInv
<1>7. ControlInv'
  <2>1. checking => stage = "readstate"
      BY <1>0, <1>1 DEF ControlInv, StageFits
  <2>2. pc' \in {"returned", "readall"}
      BY <1>4
  <2>3. checking => pc' \in CheckPcs /\ StageFits'
      BY <1>0, <2>1, <2>2 DEF CheckPcs, StageFits, RecoverPcs, ReconfigPcs
  <2>4. \A s \in Slaves : sl[s].configadr = s
      BY <1>0, <1>1 DEF ControlInv
  <2> QED
      BY <1>0, <1>1, <1>5, <2>2, <2>3, <2>4 DEF ControlInv
<1>8. \A s \in Slaves : places'[s] = places[s] /\ Adr(s)' = Adr(s) /\ Mapped(s)' = Mapped(s)
    BY <1>1, <1>3 DEF Adr, Mapped
<1>9. NameInv'
    BY <1>0, <1>1, <1>8, NamesStay DEF Temporary
<1>10. MapInv'
    BY <1>0, <1>1, <1>3, MapStays
<1>11. StaleInv'
  <2>1. CASE pc' = "readall"
      BY <2>1 DEF StaleInv, Pending
  <2>2. CASE pc' = "returned" /\ ~IsError(rval) /\ AllPresent(wkc)
    <3> SUFFICES ASSUME checking, missed \cap {"name", "fmmu"} = {}, NEW s \in Slaves,
                        State(sl'[s].state) = SAFEOP
                 PROVE  Mapped(s)
        BY <1>0, <1>1, <1>8 DEF StaleInv
    <3>1. st \in States /\ State(st) = SAFEOP
        BY <1>4, <1>5, <2>2
    <3>2. st = SAFEOP
        BY <3>1, StateIs DEF States
    <3>3. wkc > 0
      <4>1. CASE ~(wkc > 0)
        <5>1. st = 0
            BY <4>1, StateIs DEF st, rval, None
        <5> QED
            BY <3>2, <5>1, StatesDiffer
      <4> QED
          BY <4>1
    <3>4. rval = OredStates
        BY <3>3 DEF rval
    <3>5. \A d \in Connected : State(dev[d].al) = SAFEOP
        BY <1>0, <3>1, <3>2, <3>4, OredShows DEF st
    <3>6. wkc = Cardinality(Connected)
        BY <1>2, <3>3 DEF Read, Datagram
    <3>7. places[s] \in Connected
        BY <1>0, <2>2, <3>6, AllConnected DEF AllPresent
    <3>8. Al(s) = SAFEOP
        BY <3>5, <3>7 DEF Al
    <3>9. ~Below(s)
        BY <3>8, StatesDiffer DEF Below
    <3>10. ~Configuring(s)
        BY <1>1 DEF Configuring
    <3> QED
        BY <1>0, <3>9, <3>10 DEF MapInv
  <2> QED
      BY <1>4, <2>1, <2>2
<1> QED
    BY <1>6, <1>7, <1>9, <1>10, <1>11 DEF SegmentInv

LEMMA readstateEachStep ==
  ASSUME SegmentInv, UNCHANGED callerVars, readstateEach
  PROVE  SegmentInv'
<1>0. /\ TypeInv /\ ControlInv /\ NameInv /\ MapInv /\ UNCHANGED <<plan, checking, stage>>
      /\ PlaceInv /\ sl \in [Slaves -> Entries] /\ dev \in [Devices -> Registers]
    BY DEF SegmentInv, callerVars, TypeInv
<1>1. pc = "readall" /\ UNCHANGED <<places, reach, ix, missed>>
    BY DEF readstateEach, lineVars
<1>2. PICK wkc \in Counters :
        /\ Read(UNION {Addressed(sl[s].configadr) : s \in Slaves}, wkc)
        /\ sl' = [s \in Slaves |-> [sl[s] EXCEPT !.state = FPRD_multi(wkc)[s]]]
        /\ pc' = "returned"
    BY DEF readstateEach, Return
<1>3. dev' = dev
  <2>1. UNION {Addressed(sl[s].configadr) : s \in Slaves} \in SUBSET Connected
      BY <1>0, HitsAre
  <2> QED
      BY <1>0, <1>2, <2>1, ReadDoes
<1>4. \A s \in Slaves : sl[s].configadr = s
    BY <1>0, <1>1 DEF ControlInv
<1>5. ASSUME NEW s \in Slaves
      PROVE  \/ FPRD_multi(wkc)[s] = None
             \/ \E d \in Addressed(s) : FPRD_multi(wkc)[s] = dev[d].al
  <2> DEFINE hits == Addressed(s)
  <2>1. FPRD_multi(wkc)[s] = IF wkc >= 0 /\ hits # {} THEN AlState[Answering(hits)] ELSE 0
      BY <1>4 DEF FPRD_multi
  <2>2. hits \in SUBSET Connected /\ Connected \in SUBSET Devices
      BY <1>0, HitsAre
  <2> HIDE DEF hits
  <2>3. CASE hits # {} /\ FPRD_multi(wkc)[s] = AlState[Answering(hits)]
    <3>1. Answering(hits) \in hits
        BY <1>0, <2>2, <2>3, AnsweringIs
    <3>2. AlState[Answering(hits)] = dev[Answering(hits)].al
        BY <2>2, <3>1 DEF AlState
    <3> QED
        BY <2>3, <3>1, <3>2 DEF hits
  <2> QED
      BY <2>1, <2>3 DEF None
<1>6. \A s \in Slaves : FPRD_multi(wkc)[s] \in ALs \cup {None}
  <2>1. \A s \in Slaves : \A d \in Addressed(s) : dev[d] \in Registers
      BY <1>0, HitsAre
  <2> QED
      BY <1>5, <2>1 DEF Registers
<1> DEFINE read == FPRD_multi(wkc)
<1> HIDE DEF read
<1>7. /\ sl' \in [Slaves -> Entries] /\ \A s \in Slaves : sl'[s].configadr = sl[s].configadr
      /\ \A s \in Slaves : sl'[s].state = read[s]
  <2>1. sl' = [s \in Slaves |-> [sl[s] EXCEPT !.state = read[s]]]
        /\ \A s \in Slaves : read[s] \in ALs \cup {None}
      BY <1>2, <1>6 DEF read
  <2> QED
      BY <1>0, <2>1 DEF Entries
<1>8. TypeInv'
    BY <1>0, <1>1, <1>3, <1>7 DEF TypeInv, PlaceInv
<1>9. ControlInv'
  <2>1. checking => stage = "readstate"
      BY <1>0, <1>1 DEF ControlInv, StageFits
  <2>2. checking => pc' \in CheckPcs /\ StageFits'
      BY <1>0, <1>2, <2>1 DEF CheckPcs, StageFits, RecoverPcs, ReconfigPcs
  <2> QED
      BY <1>0, <1>1, <1>2, <1>4, <1>7, <2>2 DEF ControlInv
<1>10. \A s \in Slaves : places'[s] = places[s] /\ Adr(s)' = Adr(s) /\ Mapped(s)' = Mapped(s)
    BY <1>1, <1>3 DEF Adr, Mapped
<1>11. NameInv'
    BY <1>0, <1>1, <1>10, NamesStay DEF Temporary
<1>12. MapInv'
    BY <1>0, <1>1, <1>3, MapStays
<1>13. StaleInv'
  <2> SUFFICES ASSUME checking, missed \cap {"name", "fmmu"} = {}, NEW s \in Slaves,
                      State(sl'[s].state) = SAFEOP
               PROVE  Mapped(s)
      BY <1>0, <1>1, <1>10 DEF StaleInv
  <2>1. State(read[s]) = SAFEOP /\ read[s] # None
      BY <1>7, StateIs, StatesDiffer
  <2>2. PICK d \in Addressed(s) : read[s] = dev[d].al
      BY <1>5, <2>1 DEF read
  <2>3. d = places[s]
      BY <1>0, <2>2, OwnPlace
  <2>4. Al(s) = SAFEOP
      BY <2>1, <2>2, <2>3 DEF Al
  <2>5. ~Below(s)
      BY <2>4, StatesDiffer DEF Below
  <2>6. ~Configuring(s)
      BY <1>1 DEF Configuring
  <2> QED
      BY <1>0, <2>5, <2>6 DEF MapInv
<1> QED
    BY <1>8, <1>9, <1>11, <1>12, <1>13 DEF SegmentInv
LEMMA checkAllStep ==
  ASSUME SegmentInv, UNCHANGED callerVars, checkAll
  PROVE  SegmentInv'
<1>1. /\ TypeInv /\ ControlInv /\ pc = "checkall" /\ pc' = "returned"
      /\ UNCHANGED <<places, reach, sl, ix, missed, plan, checking>>
    BY DEF SegmentInv, checkAll, lineVars, callerVars, Return
<1>2. PICK wkc \in Counters : Read(Connected, wkc)
    BY DEF checkAll, BRD, Broadcast
<1>3. dev' = dev
    BY <1>1, <1>2, ReadDoes
<1>4. TypeInv'
    BY <1>1, <1>3 DEF TypeInv, PlaceInv
<1>5. ~checking
    BY <1>1 DEF ControlInv, CheckPcs, RecoverPcs, ReconfigPcs
<1>6. ControlInv'
    BY <1>1, <1>5 DEF ControlInv
<1> QED
  <2>1. \A s \in Slaves : /\ places'[s] = places[s] /\ Adr(s)' = Adr(s)
                          /\ dev'[places'[s]] = dev[places[s]]
      BY <1>1, <1>3 DEF Adr
  <2>2. NameInv' /\ MapInv'
      BY <1>1, <2>1, NamesStay, MapStays DEF SegmentInv, Temporary
  <2>3. StaleInv'
      BY <1>1, <1>5 DEF StaleInv
  <2> QED
      BY <1>4, <1>6, <2>2, <2>3 DEF SegmentInv

LEMMA ReadAtPlaceStep ==
  ASSUME SegmentInv, UNCHANGED callerVars, recoverRead \/ delay
  PROVE  SegmentInv'
<1>1. /\ TypeInv /\ ControlInv /\ UNCHANGED <<places, reach, sl, ix, missed, state0, plan, checking, stage>>
      /\ PlaceInv /\ ix \in Slaves
    BY DEF SegmentInv, recoverRead, delay, lineVars, callerVars, TypeInv
<1>2. \/ pc = "recover" /\ pc' \in {"returned", "clear"}
      \/ pc = "delay" /\ pc' = "preop"
    BY DEF recoverRead, delay, Return, Goto
<1>3. dev' = dev
  <2>1. CASE recoverRead
    <3>1. PICK wkc \in Counters : Read(At(ix), wkc)
        BY <2>1 DEF recoverRead, APRD
    <3>2. At(ix) \in SUBSET Connected
        BY <1>1, HitsAre
    <3> QED
        BY <1>1, <3>1, <3>2, ReadDoes
  <2>2. CASE delay
      BY <2>2 DEF delay
  <2> QED
      BY <2>1, <2>2
<1>4. TypeInv'
    BY <1>1, <1>3 DEF TypeInv, PlaceInv
<1>5. checking /\ StageFits /\ \A s \in Slaves : sl[s].configadr = s
    BY <1>1, <1>2 DEF ControlInv
<1>6. pc' \in CheckPcs /\ StageFits' /\ stage # "readstate"
    BY <1>1, <1>2, <1>5 DEF StageFits, CheckPcs, RecoverPcs, ReconfigPcs
<1>7. ControlInv'
    BY <1>1, <1>2, <1>5, <1>6 DEF ControlInv
<1>8. \A s \in Slaves : Pending(s)' => Pending(s)
    BY <1>1, <1>2, <1>6 DEF Pending
<1>9. pc \notin Temporary /\ pc \notin {"await safeop", "fmmu"} /\ missed \subseteq missed'
    BY <1>1, <1>2 DEF Temporary
<1> QED
    BY <1>1, <1>3, <1>4, <1>7, <1>8, <1>9, DevicesStay

(* The slave at the temporary address is compared with the one configured *)
(* at its place.                                                          *)
LEMMA CompareStep ==
  ASSUME SegmentInv, UNCHANGED callerVars, recoverCompare
  PROVE  SegmentInv'
<1>1. /\ TypeInv /\ ControlInv /\ NameInv /\ MapInv /\ StaleInv
      /\ UNCHANGED <<places, reach, sl, ix, state0, plan, checking, stage>>
      /\ PlaceInv /\ ix \in Slaves
    BY DEF SegmentInv, recoverCompare, lineVars, callerVars, TypeInv
<1>2. \/ pc = "alias" /\ pc' \in {"id", "remove"}
      \/ pc = "id" /\ pc' \in {"man", "remove"}
      \/ pc = "man" /\ pc' \in {"rev", "remove"}
      \/ pc = "rev" /\ pc' \in {"rename", "remove"}
    BY DEF recoverCompare, Goto, After, Words
<1>3. configadr = TEMP /\ pc \in Words
    BY <1>1, <1>2 DEF ControlInv, configadr, Words
<1> DEFINE value == [d \in Devices |-> Identity[d][pc]]
<1>4. /\ missed \subseteq missed'
      /\ \E wkc \in Counters :
           /\ Read(Addressed(TEMP), wkc)
           /\ pc' # "remove" => Taken(wkc, Addressed(TEMP), value, 0) = Identity[ix][pc]
           /\ wkc <= 0 => pc \in missed'
    BY <1>3 DEF recoverCompare, FPRD, Goto, Miss, Same
<1> HIDE DEF value
<1>5. PICK wkc \in Counters :
        /\ Read(Addressed(TEMP), wkc)
        /\ pc' # "remove" => Taken(wkc, Addressed(TEMP), value, 0) = Identity[ix][pc]
        /\ wkc <= 0 => pc \in missed'
    BY <1>4
<1>6. Addressed(TEMP) \in SUBSET Connected
    BY <1>1, HitsAre
<1>7. dev' = dev /\ (wkc > 0 => Addressed(TEMP) # {})
    BY <1>1, <1>5, <1>6, ReadDoes
<1>8. TypeInv'
    BY <1>1, <1>7 DEF TypeInv, PlaceInv
<1>9. checking /\ StageFits
    BY <1>1, <1>2 DEF ControlInv
<1>10. pc' \in CheckPcs /\ StageFits'
    BY <1>1, <1>2, <1>9 DEF StageFits, CheckPcs, RecoverPcs, ReconfigPcs
<1>11. ControlInv'
    BY <1>1, <1>2, <1>9, <1>10 DEF ControlInv
<1>12. ASSUME "name" \notin missed, wkc > 0
       PROVE  Answering(Addressed(TEMP)) = places[ix]
  <2>1. Answering(Addressed(TEMP)) \in Addressed(TEMP)
      BY <1>1, <1>6, <1>7, <1>12, AnsweringIs
  <2> QED
      BY <1>1, <1>12, <2>1, TemporaryPlace
<1>13. \A s \in Slaves : Adr(s)' = Adr(s) /\ Mapped(s)' = Mapped(s) /\ places'[s] = places[s]
    BY <1>1, <1>7 DEF Adr, Mapped
<1>14. NameInv'
  <2> SUFFICES ASSUME "name" \notin missed', NEW s \in Slaves PROVE NameFits(s)'
      BY DEF NameInv
  <2>1. NameFits(s) /\ "name" \notin missed
      BY <1>1, <1>4 DEF NameInv
  <2>2. Adr(s) \in {0, s, TEMP} /\ (Adr(s) = TEMP => s = ix)
      BY <2>1 DEF NameFits
  <2>3. pc' \in Temporary
      BY <1>2 DEF Temporary
  <2>4. \A w \in Words : Fits(s, w) => Fits(s, w)'
      BY <1>1, <1>4 DEF Fits
  <2>5. ASSUME Adr(s) = TEMP, pc' # "remove" PROVE \A w \in Words : w = pc => Fits(s, w)'
    <3>1. s = ix /\ places[ix] \in Devices
        BY <1>1, <2>2, <2>5 DEF PlaceInv
    <3>2. CASE wkc <= 0
      <4>1. ~(wkc > 0)
          BY <3>2 DEF Counters
      <4> QED
          BY <1>1, <1>5, <2>5, <3>1, <3>2, <4>1 DEF Fits, Taken
    <3>3. CASE wkc > 0
      <4>1. Identity[places[ix]][pc] = Identity[ix][pc]
          BY <1>5, <1>12, <2>1, <2>5, <3>1, <3>3 DEF Taken, value
      <4> QED
          BY <1>1, <3>1, <4>1 DEF Fits
    <3> QED
        BY <3>2, <3>3 DEF Counters
  <2>6. /\ Compared \subseteq Words
        /\ Compared' \subseteq Compared \cup {pc}
        /\ pc' = "remove" => Compared' = {}
      BY <1>2 DEF Compared, Words
  <2>7. Adr(s) = TEMP => \A w \in Compared' : Fits(s, w)'
    <3> SUFFICES ASSUME Adr(s) = TEMP, NEW w \in Compared' PROVE Fits(s, w)'
        OBVIOUS
    <3>1. w \in Words /\ pc' # "remove" /\ (w \in Compared \/ w = pc)
        BY <1>3, <2>6
    <3>2. w \in Compared => Fits(s, w)
        BY <2>1 DEF NameFits
    <3> QED
        BY <2>4, <2>5, <3>1, <3>2
  <2>8. Adr(s) = s => \A w \in Words : Fits(s, w)'
      BY <2>1, <2>4 DEF NameFits
  <2> QED
      BY <1>1, <1>13, <2>2, <2>3, <2>7, <2>8 DEF NameFits
<1>15. MapInv'
    BY <1>1, <1>2, <1>4, <1>7, MapStays
<1>16. StaleInv'
  <2>1. \A s \in Slaves : Pending(s)' => Pending(s)
      BY <1>1, <1>2 DEF Pending
  <2> QED
      BY <1>1, <1>4, <1>13, <2>1, StaleStays
<1> QED
    BY <1>8, <1>11, <1>14, <1>15, <1>16 DEF SegmentInv
-----------------------------------------------------------------------------
(***************************************************************************)
(* The devices and the line.                                               *)
(***************************************************************************)
LEMMA ServedIs ==
  ASSUME NEW r \in Registers, r.want # None
  PROVE  /\ Served(r) \in Registers
         /\ Served(r).adr = r.adr /\ Served(r).sm = r.sm /\ Served(r).fmmu = r.fmmu
         /\ State(Served(r).want) = 0
         /\ \/ State(Served(r).al) = INIT
            \/ State(Served(r).al) = State(r.al)
            \/ r.sm /\ State(Served(r).al) = PREOP
            \/ /\ State(r.want) = SAFEOP /\ State(r.al) \in {PREOP, SAFEOP, OP}
               /\ State(Served(r).al) = SAFEOP
            \/ /\ State(r.want) = OP /\ State(r.al) \in {SAFEOP, OP}
               /\ State(Served(r).al) = OP
<1> DEFINE target == State(r.want)
           al == IF target = INIT THEN INIT
                 ELSE IF IsError(r.al) /\ ~IsError(r.want) THEN r.al
                 ELSE IF Reachable(r, target) THEN target
                 ELSE State(r.al) + ERROR
<1>1. r.al \in ALs /\ r.want \in Wants
    BY DEF Registers
<1>2. target \in States
    BY <1>1, StateIs DEF Wants, States
<1>3. State(r.al) \in States /\ State(r.al) + ERROR \in ALs /\ State(State(r.al) + ERROR) = State(r.al)
    BY <1>1, StateOfAL
<1>4. State(target) = target /\ State(INIT) = INIT /\ State(None) = 0 /\ target \in ALs /\ INIT \in ALs
      /\ None \in Wants
    BY <1>2, StateIs DEF States, ALs, Wants
<1>5. Served(r) = [r EXCEPT !.want = None, !.al = al]
    BY DEF Served
<1>6. Reachable(r, target) =>
        \/ target = PREOP /\ r.sm
        \/ target = SAFEOP /\ State(r.al) \in {PREOP, SAFEOP, OP}
        \/ target = OP /\ State(r.al) \in {SAFEOP, OP}
  <2>1. CASE target = INIT
    <3>1. INIT # PREOP /\ INIT # SAFEOP /\ INIT # OP
        BY StatesDiffer
    <3> QED
        BY <2>1, <3>1 DEF Reachable
  <2>2. CASE target = PREOP
    <3>1. PREOP # SAFEOP /\ PREOP # OP
        BY StatesDiffer
    <3> QED
        BY <2>2, <3>1 DEF Reachable
  <2>3. CASE target = SAFEOP
    <3>1. PREOP # SAFEOP /\ SAFEOP # OP
        BY StatesDiffer
    <3> QED
        BY <2>3, <3>1 DEF Reachable
  <2>4. CASE target = OP
    <3>1. PREOP # OP /\ SAFEOP # OP
        BY StatesDiffer
    <3> QED
        BY <2>4, <3>1 DEF Reachable
  <2> QED
      BY <1>2, <2>1, <2>2, <2>3, <2>4 DEF States
<1>7. al \in ALs /\ \/ al = INIT
                    \/ al = r.al
                    \/ al = State(r.al) + ERROR
                    \/ Reachable(r, target) /\ al = target
    BY <1>1, <1>3, <1>4
<1> HIDE DEF al, target
<1>8. /\ Served(r) \in Registers /\ Served(r).al = al /\ Served(r).want = None
      /\ Served(r).adr = r.adr /\ Served(r).sm = r.sm /\ Served(r).fmmu = r.fmmu
    BY <1>4, <1>5, <1>7 DEF Registers
<1>9. State(Served(r).want) = 0
    BY <1>4, <1>8
<1>10. \/ State(al) = INIT \/ State(al) = State(r.al)
       \/ r.sm /\ State(al) = PREOP
       \/ target = SAFEOP /\ State(r.al) \in {PREOP, SAFEOP, OP} /\ State(al) = SAFEOP
       \/ target = OP /\ State(r.al) \in {SAFEOP, OP} /\ State(al) = OP
    BY <1>3, <1>4, <1>6, <1>7
<1> QED
    BY <1>8, <1>9, <1>10 DEF target

(* A device serves its request.  Without FMMUs it does not come to OP. *)
LEMMA ServeStep ==
  ASSUME SegmentInv, UNCHANGED <<controlVars, callerVars>>, NEW d \in Devices, Serve(d)
  PROVE  SegmentInv'
<1>1. /\ TypeInv /\ ControlInv /\ NameInv /\ MapInv /\ StaleInv /\ PlaceInv
      /\ dev \in [Devices -> Registers] /\ places \in [Slaves -> Devices]
      /\ UNCHANGED <<places, reach, sl, state0, ix, pc, missed, plan, checking, stage>>
    BY DEF SegmentInv, TypeInv, PlaceInv, controlVars, callerVars, Serve, lineVars
<1>2. dev[d] \in Registers /\ dev[d].want # None
    BY <1>1 DEF Serve
<1> DEFINE r == Served(dev[d])
<1>3. /\ r \in Registers /\ r.adr = dev[d].adr /\ r.sm = dev[d].sm /\ r.fmmu = dev[d].fmmu
      /\ State(r.want) = 0
      /\ \/ State(r.al) = INIT
         \/ State(r.al) = State(dev[d].al)
         \/ dev[d].sm /\ State(r.al) = PREOP
         \/ /\ State(dev[d].want) = SAFEOP /\ State(dev[d].al) \in {PREOP, SAFEOP, OP}
            /\ State(r.al) = SAFEOP
         \/ /\ State(dev[d].want) = OP /\ State(dev[d].al) \in {SAFEOP, OP}
            /\ State(r.al) = OP
    BY <1>2, ServedIs
<1>4. dev' = [dev EXCEPT ![d] = r]
    BY DEF Serve
<1> HIDE DEF r
<1>5. dev' \in [Devices -> Registers] /\ dev'[d] = r /\ \A e \in Devices : e # d => dev'[e] = dev[e]
    BY <1>1, <1>3, <1>4
<1>6. TypeInv'
    BY <1>1, <1>5 DEF TypeInv, PlaceInv
<1>7. ControlInv'
    BY <1>1 DEF ControlInv, StageFits
<1>8. \A s \in Slaves : places'[s] = places[s] /\ Adr(s)' = Adr(s) /\ Mapped(s)' = Mapped(s)
    BY <1>1, <1>3, <1>5 DEF Adr, Mapped
<1>9. NameInv'
    BY <1>1, <1>8, NamesStay
<1>10. \A s \in Slaves : Pending(s)' => Pending(s)
    BY <1>1 DEF Pending
<1>11. StaleInv'
    BY <1>1, <1>8, <1>10, StaleStays
<1>12. MapInv'
  <2> SUFFICES ASSUME missed \cap {"name", "fmmu"} = {}, NEW s \in Slaves, ~Mapped(s)
               PROVE  Below(s)' \/ Configuring(s)'
      BY <1>1, <1>8 DEF MapInv
  <2>1. Below(s) \/ Configuring(s)
      BY <1>1 DEF MapInv
  <2>2. CASE places[s] # d
    <3>1. dev'[places'[s]] = dev[places[s]]
        BY <1>1, <1>5, <2>2
    <3> QED
        BY <1>1, <2>1, <3>1 DEF Below, Configuring, Al, Want, Adr
  <2>3. CASE places[s] = d
    <3> DEFINE was == State(dev[d].al)
               is == State(r.al)
               want == State(dev[d].want)
    <3>1. Al(s) = was /\ Want(s) = want /\ dev[places[s]].sm = dev[d].sm
        BY <2>3 DEF Al, Want
    <3>2. Al(s)' = is /\ Want(s)' = 0 /\ dev'[places'[s]].sm = dev[d].sm
        BY <1>1, <1>3, <1>5, <2>3 DEF Al, Want
    <3>3. \/ is = INIT \/ is = was \/ (dev[d].sm /\ is = PREOP)
          \/ (want = SAFEOP /\ was \in {PREOP, SAFEOP, OP} /\ is = SAFEOP)
          \/ (want = OP /\ was \in {SAFEOP, OP} /\ is = OP)
        BY <1>3
    <3> HIDE DEF was, is, want
    <3>4. /\ INIT # PREOP /\ INIT # SAFEOP /\ INIT # OP /\ PREOP # SAFEOP /\ PREOP # OP
          /\ SAFEOP # OP /\ 0 # SAFEOP /\ 0 # OP
        BY StatesDiffer
    <3>5. CASE Below(s) /\ checking
      <4>1. was \in {INIT, PREOP} /\ want # SAFEOP
          BY <3>1, <3>5 DEF Below
      <4>2. is \in {INIT, PREOP}
          BY <3>3, <3>4, <4>1
      <4> QED
          BY <1>1, <3>2, <3>4, <3>5, <4>2 DEF Below
    <3>6. CASE Below(s) /\ ~checking
      <4>1. was = INIT /\ ~dev[d].sm
          BY <3>1, <3>6 DEF Below
      <4>2. is = INIT
          BY <3>3, <3>4, <4>1
      <4> QED
          BY <1>1, <3>2, <3>6, <4>1, <4>2 DEF Below
    <3>7. CASE Configuring(s)
      <4>1. was # OP /\ (was = SAFEOP => want # OP)
          BY <3>1, <3>7 DEF Configuring
      <4>2. is # OP
          BY <3>3, <3>4, <4>1
      <4> QED
          BY <1>1, <1>8, <3>2, <3>4, <3>7, <4>2 DEF Configuring
    <3> QED
        BY <2>1, <3>5, <3>6, <3>7
  <2> QED
      BY <2>2, <2>3
<1> QED
    BY <1>6, <1>7, <1>9, <1>11, <1>12 DEF SegmentInv

(* What comes from outside leaves a device as it was or without anything; *)
(* the one exception is a device that falls out of OP.                    *)
LEMMA FailStep ==
  ASSUME SegmentInv, UNCHANGED <<controlVars, callerVars>>, NEW d \in Devices, Fail(d)
  PROVE  SegmentInv'
<1>1. /\ TypeInv /\ ControlInv /\ NameInv /\ MapInv /\ StaleInv /\ PlaceInv
      /\ dev \in [Devices -> Registers] /\ places \in [Slaves -> Devices]
      /\ UNCHANGED <<places, reach, sl, state0, ix, pc, missed, plan, checking, stage>>
    BY DEF SegmentInv, TypeInv, PlaceInv, controlVars, callerVars, Fail, lineVars
<1>2. dev' = [dev EXCEPT ![d].al = SAFEOP + ERROR] /\ dev[d].al = OP
    BY DEF Fail
<1>3. SAFEOP + ERROR \in ALs
    BY DEF ALs, States
<1>4. /\ dev' \in [Devices -> Registers] /\ \A e \in Devices : e # d => dev'[e] = dev[e]
      /\ dev'[d].adr = dev[d].adr /\ dev'[d].fmmu = dev[d].fmmu
    BY <1>1, <1>2, <1>3 DEF Registers
<1>5. TypeInv'
    BY <1>1, <1>4 DEF TypeInv, PlaceInv
<1>6. ControlInv'
    BY <1>1 DEF ControlInv, StageFits
<1>7. \A s \in Slaves : places'[s] = places[s] /\ Adr(s)' = Adr(s) /\ Mapped(s)' = Mapped(s)
    BY <1>1, <1>4 DEF Adr, Mapped
<1>8. NameInv'
    BY <1>1, <1>7, NamesStay
<1>9. \A s \in Slaves : Pending(s)' => Pending(s)
    BY <1>1 DEF Pending
<1>10. StaleInv'
    BY <1>1, <1>7, <1>9, StaleStays
<1>11. MapInv'
  <2> SUFFICES ASSUME missed \cap {"name", "fmmu"} = {}, NEW s \in Slaves, ~Mapped(s)
               PROVE  Below(s)' \/ Configuring(s)'
      BY <1>1, <1>7 DEF MapInv
  <2>1. Below(s) \/ Configuring(s)
      BY <1>1 DEF MapInv
  <2>2. CASE places[s] # d
    <3>1. dev'[places'[s]] = dev[places[s]]
        BY <1>1, <1>4, <2>2
    <3> QED
        BY <1>1, <2>1, <3>1 DEF Below, Configuring, Al, Want, Adr
  <2>3. CASE places[s] = d
    <3>1. Al(s) = OP
        BY <1>2, <2>3, StateIs DEF Al
    <3>2. OP # INIT /\ OP # PREOP
        BY StatesDiffer
    <3> QED
        BY <2>1, <3>1, <3>2 DEF Below, Configuring
  <2> QED
      BY <2>2, <2>3
<1> QED
    BY <1>5, <1>6, <1>8, <1>10, <1>11 DEF SegmentInv

LEMMA LineDoes ==
  ASSUME TypeInv, Cut \/ Join \/ \E d \in Devices : Restart(d)
  PROVE  /\ PlaceInv' /\ dev' \in [Devices -> Registers]
         /\ \A s \in Slaves :
              \/ dev'[places'[s]] = Fresh
              \/ places'[s] = places[s] /\ dev'[places[s]] = dev[places[s]]
<1>1. PlaceInv /\ dev \in [Devices -> Registers] /\ places \in [Slaves -> Devices]
    BY DEF TypeInv, PlaceInv
<1>2. Fresh \in Registers /\ Fresh.adr = 0
    BY FreshIs
<1>3. CASE Cut
  <2>1. /\ UNCHANGED <<places, dev>> /\ \E k \in 0 .. reach - 1 : reach' = k
      BY <1>3 DEF Cut
  <2>2. reach' \in 0 .. Cardinality(Slaves)
      BY <1>1, <2>1, Line DEF PlaceInv
  <2> QED
      BY <1>1, <2>1, <2>2 DEF PlaceInv
<1>4. CASE Join
  <2>1. reach' = Cardinality(Slaves)
      BY <1>4 DEF Join
  <2>2. PICK off \in SUBSET {places[s] : s \in {t \in Slaves : t > reach}} :
          \/ places' = places /\ dev' = SwitchedOff(off)
          \/ \E s \in Slaves, x \in Spares :
               /\ \A t \in Slaves : places[t] # x
               /\ places' = [places EXCEPT ![s] = x] /\ dev' = SwitchedOff(off \cup {x})
      BY <1>4 DEF Join
  <2>3. reach' \in 0 .. Cardinality(Slaves)
      BY <2>1, Line
  <2>4. ASSUME NEW o PROVE /\ SwitchedOff(o) \in [Devices -> Registers]
                           /\ \A e \in Devices : SwitchedOff(o)[e] = Fresh \/ SwitchedOff(o)[e] = dev[e]
                           /\ \A e \in Devices : e \in o => SwitchedOff(o)[e] = Fresh
      BY <1>1, <1>2 DEF SwitchedOff
  <2>5. CASE places' = places /\ dev' = SwitchedOff(off)
      BY <1>1, <2>3, <2>4, <2>5 DEF PlaceInv
  <2>6. CASE \E s \in Slaves, x \in Spares :
               /\ \A t \in Slaves : places[t] # x
               /\ places' = [places EXCEPT ![s] = x] /\ dev' = SwitchedOff(off \cup {x})
    <3>1. PICK s \in Slaves, x \in Spares :
            /\ \A t \in Slaves : places[t] # x
            /\ places' = [places EXCEPT ![s] = x] /\ dev' = SwitchedOff(off \cup {x})
        BY <2>6
    <3>2. x \in Devices /\ x \in off \cup {x}
        BY DEF Devices
    <3>3. places' \in [Slaves -> Devices] /\ places'[s] = x /\ \A t \in Slaves : t # s => places'[t] = places[t]
        BY <1>1, <3>1, <3>2
    <3>4. PlaceInv'
        BY <1>1, <2>3, <3>1, <3>3 DEF PlaceInv
    <3>5. dev' \in [Devices -> Registers] /\ dev'[x] = Fresh
          /\ \A e \in Devices : dev'[e] = Fresh \/ dev'[e] = dev[e]
        BY <2>4, <3>1, <3>2
    <3> QED
        BY <1>1, <3>3, <3>4, <3>5
  <2> QED
      BY <2>2, <2>5, <2>6
<1>5. CASE \E d \in Devices : Restart(d)
  <2>1. PICK d \in Devices : dev' = [dev EXCEPT ![d] = Fresh] /\ UNCHANGED <<places, reach>>
      BY <1>5 DEF Restart, lineVars
  <2> QED
      BY <1>1, <1>2, <2>1 DEF PlaceInv
<1> QED
    BY <1>3, <1>4, <1>5

LEMMA LineStep ==
  ASSUME SegmentInv, UNCHANGED <<controlVars, callerVars>>,
         Cut \/ Join \/ \E d \in Devices : Restart(d)
  PROVE  SegmentInv'
<1>1. /\ TypeInv /\ ControlInv /\ NameInv /\ MapInv /\ StaleInv /\ PlaceInv
      /\ dev \in [Devices -> Registers] /\ places \in [Slaves -> Devices]
      /\ UNCHANGED <<sl, state0, ix, pc, missed, plan, checking, stage>>
    BY DEF SegmentInv, TypeInv, PlaceInv, controlVars, callerVars
<1>2. Fresh \in Registers /\ Fresh.adr = 0
    BY FreshIs
<1>3. /\ PlaceInv' /\ dev' \in [Devices -> Registers]
      /\ \A s \in Slaves :
           \/ dev'[places'[s]] = Fresh
           \/ places'[s] = places[s] /\ dev'[places[s]] = dev[places[s]]
    BY <1>1, LineDoes
<1>4. TypeInv'
    BY <1>1, <1>3 DEF TypeInv
<1>5. ControlInv'
    BY <1>1 DEF ControlInv, StageFits
<1>6. \A s \in Slaves :
        \/ Adr(s)' = 0
        \/ places'[s] = places[s] /\ Adr(s)' = Adr(s) /\ Mapped(s)' = Mapped(s)
    BY <1>2, <1>3 DEF Adr, Mapped
<1>7. NameInv'
    BY <1>1, <1>6, NamesStay
<1>8. MapInv'
    BY <1>1, <1>3, MapStays
<1>9. StaleInv'
  <2>1. \A s \in Slaves : Pending(s)' => Pending(s)
      BY <1>1 DEF Pending
  <2>2. \A s \in Slaves : 0 # s
      BY Line
  <2> QED
      BY <1>1, <1>6, <2>1, <2>2, StaleStays
<1> QED
    BY <1>4, <1>5, <1>7, <1>8, <1>9 DEF SegmentInv
-----------------------------------------------------------------------------
(***************************************************************************)
(* Writing.                                                                *)
(***************************************************************************)

(* A write reaches the devices with the address, and all of them when it   *)
(* was answered.                                                           *)
LEMMA WriteDoes ==
  ASSUME TypeInv, NEW a, NEW written, \A d \in Devices : written[d] \in Registers,
         NEW wkc, Datagram(Addressed(a), written, wkc)
  PROVE  /\ dev' \in [Devices -> Registers]
         /\ \A s \in Slaves : \/ dev'[places[s]] = dev[places[s]]
                              \/ Adr(s) = a /\ dev'[places[s]] = written[places[s]]
         /\ wkc > 0 => Addressed(a) # {} /\ \A d \in Addressed(a) : dev'[d] = written[d]
<1>1. PlaceInv /\ places \in [Slaves -> Devices]
    BY DEF TypeInv, PlaceInv
<1>2. Addressed(a) \in SUBSET Connected /\ Connected \in SUBSET Devices
      /\ \A d \in Addressed(a) : dev[d].adr = a
    BY <1>1, HitsAre
<1> DEFINE hits == Addressed(a)
<1> HIDE DEF hits
<1>3. hits \in SUBSET Connected /\ \A d \in hits : written[d] \in Registers
    BY <1>2 DEF hits
<1>4. Datagram(hits, written, wkc)
    BY DEF hits
<1>5. /\ dev' \in [Devices -> Registers]
      /\ \A d \in Devices : dev'[d] = dev[d] \/ (d \in hits /\ dev'[d] = written[d])
      /\ wkc > 0 => hits # {} /\ \A d \in hits : dev'[d] = written[d]
    BY <1>3, <1>4, DatagramDoes
<1> QED
    BY <1>1, <1>2, <1>5 DEF hits, Adr

LEMMA RequestedIs ==
  ASSUME TypeInv, NEW al \in Wants, NEW d \in Devices
  PROVE  /\ Requested(al)[d] \in Registers
         /\ Requested(al)[d].adr = dev[d].adr /\ Requested(al)[d].al = dev[d].al
         /\ Requested(al)[d].sm = dev[d].sm /\ Requested(al)[d].fmmu = dev[d].fmmu
         /\ Requested(al)[d].want = dev[d].want \/ Requested(al)[d].want = al
<1>1. dev[d] \in Registers
    BY DEF TypeInv
<1>2. Requested(al)[d] = IF dev[d].want = None THEN [dev[d] EXCEPT !.want = al] ELSE dev[d]
    BY DEF Requested
<1>3. CASE dev[d].want = None
  <2>1. Requested(al)[d] = [dev[d] EXCEPT !.want = al]
      BY <1>2, <1>3
  <2> QED
      BY <1>1, <2>1 DEF Registers
<1>4. CASE dev[d].want # None
    BY <1>1, <1>2, <1>4
<1> QED
    BY <1>3, <1>4

LEMMA NamedIs ==
  ASSUME TypeInv, NEW a \in 0 .. TEMP, NEW d \in Devices
  PROVE  /\ Named(a)[d] \in Registers
         /\ Named(a)[d].adr = a /\ Named(a)[d].al = dev[d].al /\ Named(a)[d].want = dev[d].want
         /\ Named(a)[d].sm = dev[d].sm /\ Named(a)[d].fmmu = dev[d].fmmu
BY DEF TypeInv, Named, Registers

(* A request to a slave that will not come to SAFE_OP without FMMUs by it. *)
LEMMA RequestStays ==
  ASSUME SegmentInv, UNCHANGED callerVars, NEW al \in Wants, NEW wkc, NEW hits \in SUBSET Connected,
         Datagram(hits, Requested(al), wkc), UNCHANGED <<places, reach, sl, ix, missed>>,
         pc \in {"writestate", "writeall", "reconfig", "preop", "safeop"}, ControlInv',
         \A s \in Slaves : Pending(s)' => Pending(s),
         missed \cap {"name", "fmmu"} = {} =>
           \A s \in Slaves :
             places[s] \in hits /\ checking /\ ~Mapped(s) =>
               State(al) # SAFEOP \/ (pc' = "await safeop" /\ Adr(s) = ix)
  PROVE  SegmentInv'
<1>1. /\ TypeInv /\ ControlInv /\ NameInv /\ MapInv /\ StaleInv /\ PlaceInv
      /\ dev \in [Devices -> Registers] /\ places \in [Slaves -> Devices]
      /\ UNCHANGED <<plan, checking, stage>>
    BY DEF SegmentInv, TypeInv, PlaceInv, callerVars
<1>2. /\ dev' \in [Devices -> Registers]
      /\ \A d \in Devices : dev'[d] = dev[d] \/ (d \in hits /\ dev'[d] = Requested(al)[d])
  <2> DEFINE written == Requested(al)
  <2>1. \A d \in hits : written[d] \in Registers
      BY <1>1, HitsAre, RequestedIs
  <2>2. Datagram(hits, written, wkc)
      OBVIOUS
  <2> HIDE DEF written
  <2>3. /\ dev' \in [Devices -> Registers]
        /\ \A d \in Devices : dev'[d] = dev[d] \/ (d \in hits /\ dev'[d] = written[d])
      BY <1>1, <2>1, <2>2, DatagramDoes
  <2> QED
      BY <2>3 DEF written
<1>3. TypeInv'
    BY <1>1, <1>2 DEF TypeInv, PlaceInv
<1>4. ASSUME NEW d \in Devices
      PROVE  /\ dev'[d].adr = dev[d].adr /\ dev'[d].al = dev[d].al /\ dev'[d].sm = dev[d].sm
             /\ dev'[d].fmmu = dev[d].fmmu
             /\ dev'[d].want = dev[d].want \/ (d \in hits /\ dev'[d].want = al)
    BY <1>1, <1>2, RequestedIs
<1>5. \A s \in Slaves :
        /\ places'[s] = places[s] /\ Adr(s)' = Adr(s) /\ Mapped(s)' = Mapped(s) /\ Al(s)' = Al(s)
        /\ dev'[places'[s]].sm = dev[places[s]].sm
        /\ Want(s)' = Want(s) \/ (places[s] \in hits /\ Want(s)' = State(al))
    BY <1>1, <1>4 DEF Adr, Mapped, Al, Want
<1>6. NameInv'
    BY <1>1, <1>5, NamesStay DEF Temporary
<1>7. StaleInv'
    BY <1>1, <1>5, StaleStays
<1>8. MapInv'
  <2> SUFFICES ASSUME missed \cap {"name", "fmmu"} = {}, NEW s \in Slaves, ~Mapped(s)
               PROVE  Below(s)' \/ Configuring(s)'
      BY <1>1, <1>5 DEF MapInv
  <2>1. Below(s)
      BY <1>1 DEF MapInv, Configuring
  <2>2. CASE ~checking
      BY <1>1, <1>5, <2>1, <2>2 DEF Below
  <2>3. CASE checking /\ Want(s)' # SAFEOP
      BY <1>1, <1>5, <2>1, <2>3 DEF Below
  <2>4. CASE checking /\ Want(s)' = SAFEOP
    <3>1. Al(s) \in {INIT, PREOP} /\ Want(s) # SAFEOP
        BY <2>1, <2>4 DEF Below
    <3>2. pc' = "await safeop" /\ Adr(s) = ix
        BY <1>5, <2>4, <3>1
    <3>3. Al(s)' # OP /\ Al(s)' # SAFEOP
        BY <1>5, <3>1, StatesDiffer
    <3> QED
        BY <1>1, <1>5, <2>4, <3>2, <3>3 DEF Configuring
  <2> QED
      BY <1>1, <2>2, <2>3, <2>4 DEF TypeInv
<1> QED
    BY <1>3, <1>6, <1>7, <1>8 DEF SegmentInv

LEMMA RequestStep ==
  ASSUME SegmentInv, UNCHANGED callerVars,
         writestate \/ writestateAll \/ reconfigInit \/ requestPreop \/ requestSafeop
  PROVE  SegmentInv'
<1>0. /\ TypeInv /\ ControlInv /\ NameInv /\ MapInv /\ StaleInv /\ PlaceInv /\ ix \in Slaves
      /\ UNCHANGED <<plan, checking, stage>>
      /\ UNCHANGED <<places, reach, sl, state0, ix, missed>>
    BY DEF SegmentInv, TypeInv, callerVars, writestate, writestateAll, reconfigInit, requestPreop,
           requestSafeop, Write, Unchecked, lineVars
<1>1. INIT \in Wants /\ PREOP \in Wants /\ SAFEOP \in Wants /\ OP \in Wants
      /\ SAFEOP + ERROR \in Wants /\ States \in SUBSET Wants
    BY DEF Wants, States
<1>2. /\ Connected \in SUBSET Connected
      /\ \A a : Addressed(a) \in SUBSET Connected /\ \A d \in Addressed(a) : dev[d].adr = a
    BY <1>0, HitsAre
<1>3. CASE writestateAll
  <2>1. pc = "writeall" /\ pc' = "checkall"
      BY <1>3 DEF writestateAll, Goto
  <2>2. PICK wkc : Datagram(Connected, Requested(state0), wkc)
      BY <1>3 DEF writestateAll, BWR, Broadcast
  <2>3. ~checking /\ state0 \in Wants
      BY <1>0, <1>1, <2>1 DEF ControlInv, CheckPcs, RecoverPcs, ReconfigPcs
  <2>4. ControlInv'
      BY <1>0, <2>1, <2>3 DEF ControlInv
  <2>5. \A s \in Slaves : Pending(s)' => Pending(s)
      BY <1>0, <2>1 DEF Pending
  <2> QED
      BY <1>0, <1>2, <2>1, <2>2, <2>3, <2>4, <2>5, RequestStays
<1>4. CASE writestate \/ reconfigInit \/ requestPreop \/ requestSafeop
  <2>1. \E al, wkc :
          /\ Datagram(Addressed(configadr), Requested(al), wkc)
          /\ \/ pc = "writestate" /\ pc' = "returned" /\ al = sl[ix].state
             \/ pc = "reconfig" /\ pc' \in {"returned", "await init"} /\ al = INIT
             \/ pc = "preop" /\ pc' = "await preop" /\ al = PREOP
             \/ pc = "safeop" /\ pc' = "await safeop" /\ al = SAFEOP
    <3>1. CASE writestate
        BY <3>1 DEF writestate, FPWR, Return
    <3>2. CASE reconfigInit
        BY <3>2 DEF reconfigInit, FPWR, Return, Goto
    <3>3. CASE requestPreop
        BY <3>3 DEF requestPreop, Write, FPWR, Unchecked, Goto
    <3>4. CASE requestSafeop
        BY <3>4 DEF requestSafeop, Write, FPWR, Unchecked, Goto
    <3> QED
        BY <1>4, <3>1, <3>2, <3>3, <3>4
  <2>2. PICK al, wkc :
          /\ Datagram(Addressed(configadr), Requested(al), wkc)
          /\ \/ pc = "writestate" /\ pc' = "returned" /\ al = sl[ix].state
             \/ pc = "reconfig" /\ pc' \in {"returned", "await init"} /\ al = INIT
             \/ pc = "preop" /\ pc' = "await preop" /\ al = PREOP
             \/ pc = "safeop" /\ pc' = "await safeop" /\ al = SAFEOP
      BY <2>1
  <2>3. checking /\ StageFits /\ \A s \in Slaves : sl[s].configadr = s
      BY <1>0, <2>2 DEF ControlInv
  <2>4. configadr = ix
      BY <1>0, <2>3 DEF configadr
  <2>5. al \in Wants /\ (pc = "writestate" => al \in {OP, SAFEOP + ERROR})
      BY <1>0, <1>1, <2>2 DEF ControlInv
  <2>6. pc' \in CheckPcs /\ StageFits' /\ stage # "readstate"
      BY <1>0, <2>2, <2>3 DEF StageFits, CheckPcs, RecoverPcs, ReconfigPcs
  <2>7. ControlInv'
      BY <1>0, <2>2, <2>3, <2>6 DEF ControlInv
  <2>8. \A s \in Slaves : s > ix => s >= ix
      BY <1>0, Line
  <2>9. \A s \in Slaves : Pending(s)' => Pending(s)
      BY <1>0, <2>2, <2>6, <2>8 DEF Pending
  <2>10. ASSUME missed \cap {"name", "fmmu"} = {}, NEW s \in Slaves, places[s] \in Addressed(ix),
                ~Mapped(s), State(al) = SAFEOP
         PROVE  pc' = "await safeop" /\ Adr(s) = ix
    <3>1. Adr(s) = ix
        BY <1>2, <2>10 DEF Adr
    <3>2. pc # "reconfig" /\ pc # "preop"
        BY <2>2, <2>10, StateIs, StatesDiffer
    <3>3. ASSUME pc = "writestate" PROVE FALSE
      <4>1. al = sl[ix].state /\ State(sl[ix].state) = SAFEOP
          BY <2>2, <2>10, <3>3
      <4>2. s = ix
        <5>1. "name" \notin missed /\ places[s] = places[ix]
            BY <1>0, <2>10, OwnPlace
        <5> QED
            BY <1>0, <5>1 DEF PlaceInv
      <4>3. Pending(s)
        <5>1. s >= ix
            BY <1>0, <4>2, Line
        <5> QED
            BY <3>3, <5>1 DEF Pending
      <4> QED
          BY <1>0, <2>3, <2>10, <3>1, <4>1, <4>2, <4>3 DEF StaleInv
    <3> QED
        BY <2>2, <3>1, <3>2, <3>3
  <2> DEFINE hits == Addressed(ix)
  <2>11. hits \in SUBSET Connected /\ Datagram(hits, Requested(al), wkc)
      BY <1>2, <2>2, <2>4
  <2>12. missed \cap {"name", "fmmu"} = {} =>
           \A s \in Slaves :
             places[s] \in hits /\ checking /\ ~Mapped(s) =>
               State(al) # SAFEOP \/ (pc' = "await safeop" /\ Adr(s) = ix)
      BY <2>10
  <2> HIDE DEF hits
  <2>13. pc \in {"writestate", "writeall", "reconfig", "preop", "safeop"}
      BY <2>2
  <2> QED
      BY <1>0, <2>5, <2>7, <2>9, <2>11, <2>12, <2>13, RequestStays
<1> QED
    BY <1>3, <1>4
LEMMA writeSMStep ==
  ASSUME SegmentInv, UNCHANGED callerVars, writeSM
  PROVE  SegmentInv'
<1> DEFINE written == [d \in Devices |-> [dev[d] EXCEPT !.sm = TRUE]]
<1>1. /\ TypeInv /\ ControlInv /\ NameInv /\ MapInv /\ StaleInv /\ PlaceInv
      /\ dev \in [Devices -> Registers] /\ places \in [Slaves -> Devices]
      /\ UNCHANGED <<places, reach, sl, state0, ix, missed, plan, checking, stage>>
      /\ pc = "sm" /\ pc' = "delay"
    BY DEF SegmentInv, TypeInv, PlaceInv, callerVars, writeSM, Write, Unchecked, Goto, lineVars
<1>2. PICK wkc : Datagram(Addressed(configadr), written, wkc)
    BY DEF writeSM, Write, FPWR
<1>3. \A d \in Devices :
        /\ written[d] \in Registers /\ written[d].adr = dev[d].adr /\ written[d].al = dev[d].al
        /\ written[d].want = dev[d].want /\ written[d].fmmu = dev[d].fmmu
    BY <1>1 DEF Registers
<1> HIDE DEF written
<1>4. /\ dev' \in [Devices -> Registers]
      /\ \A s \in Slaves : dev'[places[s]] = dev[places[s]] \/ dev'[places[s]] = written[places[s]]
    BY <1>1, <1>2, <1>3, WriteDoes
<1>5. TypeInv'
    BY <1>1, <1>4 DEF TypeInv, PlaceInv
<1>6. checking /\ StageFits /\ \A s \in Slaves : sl[s].configadr = s
    BY <1>1 DEF ControlInv
<1>7. pc' \in CheckPcs /\ StageFits' /\ stage # "readstate"
    BY <1>1, <1>6 DEF StageFits, CheckPcs, RecoverPcs, ReconfigPcs
<1>8. ControlInv'
    BY <1>1, <1>6, <1>7 DEF ControlInv
<1>9. \A s \in Slaves :
        /\ places'[s] = places[s] /\ Adr(s)' = Adr(s) /\ Mapped(s)' = Mapped(s) /\ Al(s)' = Al(s)
        /\ Want(s)' = Want(s)
    BY <1>1, <1>3, <1>4 DEF Adr, Mapped, Al, Want
<1>10. NameInv'
    BY <1>1, <1>9, NamesStay DEF Temporary
<1>11. StaleInv'
  <2>1. \A s \in Slaves : Pending(s)' => Pending(s)
      BY <1>1 DEF Pending
  <2> QED
      BY <1>1, <1>9, <2>1, StaleStays
<1>12. MapInv'
  <2>1. \A s \in Slaves : Below(s) => Below(s)'
      BY <1>1, <1>6, <1>9 DEF Below
  <2>2. \A s \in Slaves : ~Configuring(s)
      BY <1>1 DEF Configuring
  <2> QED
      BY <1>1, <1>9, <2>1, <2>2 DEF MapInv
<1> QED
    BY <1>5, <1>8, <1>10, <1>11, <1>12 DEF SegmentInv

(* The FMMUs reach the slave, or the write is missed. *)
LEMMA writeFMMUStep ==
  ASSUME SegmentInv, UNCHANGED callerVars, writeFMMU
  PROVE  SegmentInv'
<1> DEFINE written == [d \in Devices |-> [dev[d] EXCEPT !.fmmu = TRUE]]
<1>1. /\ TypeInv /\ ControlInv /\ NameInv /\ MapInv /\ StaleInv /\ PlaceInv
      /\ dev \in [Devices -> Registers] /\ places \in [Slaves -> Devices] /\ ix \in Slaves
      /\ UNCHANGED <<places, reach, sl, state0, ix, plan, checking, stage>>
      /\ pc = "fmmu" /\ pc' = "returned"
    BY DEF SegmentInv, TypeInv, PlaceInv, callerVars, writeFMMU, Write, Goto, lineVars
<1>2. checking /\ StageFits /\ \A s \in Slaves : sl[s].configadr = s
    BY <1>1 DEF ControlInv
<1>3. configadr = ix
    BY <1>1, <1>2 DEF configadr
<1>4. PICK wkc \in Counters : /\ Datagram(Addressed(ix), written, wkc)
                              /\ missed' = IF wkc <= 0 THEN missed \cup {"fmmu"} ELSE missed
    BY <1>3 DEF writeFMMU, Write, FPWR, Miss
<1>5. \A d \in Devices :
        /\ written[d] \in Registers /\ written[d].adr = dev[d].adr /\ written[d].al = dev[d].al
        /\ written[d].want = dev[d].want /\ written[d].fmmu
    BY <1>1 DEF Registers
<1> HIDE DEF written
<1>6. /\ dev' \in [Devices -> Registers]
      /\ \A s \in Slaves : dev'[places[s]] = dev[places[s]] \/ dev'[places[s]] = written[places[s]]
      /\ wkc > 0 => Addressed(ix) # {} /\ \A d \in Addressed(ix) : dev'[d] = written[d]
    BY <1>1, <1>4, <1>5, WriteDoes
<1>7. TypeInv'
    BY <1>1, <1>6 DEF TypeInv, PlaceInv
<1>8. pc' \in CheckPcs /\ StageFits' /\ stage # "readstate"
    BY <1>1, <1>2 DEF StageFits, CheckPcs, RecoverPcs, ReconfigPcs
<1>9. ControlInv'
    BY <1>1, <1>2, <1>8 DEF ControlInv
<1>10. \A s \in Slaves :
        /\ places'[s] = places[s] /\ Adr(s)' = Adr(s) /\ (Mapped(s) => Mapped(s)') /\ Al(s)' = Al(s)
        /\ Want(s)' = Want(s)
    BY <1>1, <1>5, <1>6 DEF Adr, Mapped, Al, Want
<1>11. missed \subseteq missed'
    BY <1>4
<1>12. NameInv'
    BY <1>1, <1>10, <1>11, NamesStay DEF Temporary
<1>13. StaleInv'
  <2>1. \A s \in Slaves : Pending(s)' => Pending(s)
      BY <1>1, <1>8 DEF Pending
  <2> QED
      BY <1>1, <1>10, <1>11, <2>1, StaleStays
<1>14. MapInv'
  <2> SUFFICES ASSUME missed' \cap {"name", "fmmu"} = {}, NEW s \in Slaves, ~Mapped(s)'
               PROVE  Below(s)'
      BY DEF MapInv
  <2>1. missed \cap {"name", "fmmu"} = {} /\ ~(wkc <= 0) /\ ~Mapped(s)
      BY <1>4, <1>10
  <2>2. wkc > 0
      BY <2>1 DEF Counters
  <2>3. Below(s) \/ Configuring(s)
      BY <1>1, <2>1 DEF MapInv
  <2>4. ~Configuring(s)
    <3> SUFFICES ASSUME Adr(s) = ix PROVE FALSE
        BY DEF Configuring
    <3>1. s = ix
      <4>1. Adr(s) \in {0, s, TEMP}
          BY <1>1, <2>1 DEF NameInv, NameFits
      <4> QED
          BY <1>1, <4>1, Line
    <3>2. PICK d \in Addressed(ix) : dev'[d] = written[d]
        BY <1>6, <2>2
    <3>3. d = places[s]
        BY <1>1, <2>1, <3>1, <3>2, OwnPlace
    <3>4. Mapped(s)'
        BY <1>1, <1>5, <3>2, <3>3 DEF Mapped
    <3> QED
        BY <3>4
  <2>5. Below(s)
      BY <2>3, <2>4
  <2> QED
      BY <1>1, <1>2, <1>10, <2>5 DEF Below
<1> QED
    BY <1>7, <1>9, <1>12, <1>13, <1>14 DEF SegmentInv

-----------------------------------------------------------------------------
(***************************************************************************)
(* Names given and taken.                                                  *)
(***************************************************************************)

(* A name given or taken changes nothing else of a device. *)
LEMMA NamingStays ==
  ASSUME SegmentInv, UNCHANGED callerVars, NEW a \in 0 .. TEMP, NEW wkc, NEW hits \in SUBSET Connected,
         Datagram(hits, Named(a), wkc), UNCHANGED <<places, reach, ix>>, missed \subseteq missed',
         pc \in {"clear", "temp", "undo", "rename", "remove"}, pc' \notin {"await safeop", "fmmu"}
  PROVE  /\ dev' \in [Devices -> Registers] /\ MapInv'
         /\ \A d \in Devices : dev'[d].adr = dev[d].adr \/ (d \in hits /\ dev'[d].adr = a)
         /\ wkc > 0 => hits # {} /\ \A d \in hits : dev'[d].adr = a
         /\ \A d \in Devices : dev'[d].al = dev[d].al /\ dev'[d].sm = dev[d].sm
         /\ \A s \in Slaves : Mapped(s)' = Mapped(s)
<1> DEFINE written == Named(a)
<1>1. /\ TypeInv /\ MapInv /\ PlaceInv /\ UNCHANGED checking
      /\ dev \in [Devices -> Registers] /\ places \in [Slaves -> Devices]
    BY DEF SegmentInv, TypeInv, PlaceInv, callerVars
<1>2. hits \in SUBSET Devices
    BY <1>1, HitsAre
<1>3. \A d \in Devices :
        /\ written[d] \in Registers /\ written[d].adr = a /\ written[d].al = dev[d].al
        /\ written[d].want = dev[d].want /\ written[d].sm = dev[d].sm /\ written[d].fmmu = dev[d].fmmu
    BY <1>1, NamedIs
<1>4. Datagram(hits, written, wkc) /\ \A d \in hits : written[d] \in Registers
    BY <1>2, <1>3
<1> HIDE DEF written
<1>5. /\ dev' \in [Devices -> Registers]
      /\ \A d \in Devices : dev'[d] = dev[d] \/ (d \in hits /\ dev'[d] = written[d])
      /\ wkc > 0 => hits # {} /\ \A d \in hits : dev'[d] = written[d]
    BY <1>1, <1>4, DatagramDoes
<1>6. \A d \in Devices : dev'[d].adr = dev[d].adr \/ (d \in hits /\ dev'[d].adr = a)
    BY <1>3, <1>5
<1>7. wkc > 0 => hits # {} /\ \A d \in hits : dev'[d].adr = a
    BY <1>2, <1>3, <1>5
<1>8. \A d \in Devices : /\ dev'[d].al = dev[d].al /\ dev'[d].want = dev[d].want
                         /\ dev'[d].sm = dev[d].sm /\ dev'[d].fmmu = dev[d].fmmu
    BY <1>3, <1>5
<1>9. \A s \in Slaves : /\ Mapped(s)' = Mapped(s) /\ Al(s)' = Al(s) /\ Want(s)' = Want(s)
                        /\ dev'[places'[s]].sm = dev[places[s]].sm
    BY <1>1, <1>8 DEF Mapped, Al, Want
<1>10. MapInv'
  <2>1. \A s \in Slaves : Below(s) => Below(s)'
      BY <1>1, <1>9 DEF Below
  <2>2. \A s \in Slaves : ~Configuring(s)
      BY DEF Configuring
  <2> QED
      BY <1>1, <1>9, <2>1, <2>2 DEF MapInv
<1> QED
    BY <1>5, <1>6, <1>7, <1>8, <1>9, <1>10

(* The temporary address is taken back from whoever has it, on the way in  *)
(* or out; out, everybody lost it or the write is missed.                  *)
LEMMA TakeBackStep ==
  ASSUME SegmentInv, UNCHANGED callerVars, recoverClear \/ recoverUndo \/ recoverRemove
  PROVE  SegmentInv'
<1>0. /\ TypeInv /\ ControlInv /\ NameInv /\ StaleInv /\ PlaceInv
      /\ dev \in [Devices -> Registers] /\ places \in [Slaves -> Devices] /\ ix \in Slaves
      /\ sl \in [Slaves -> Entries] /\ UNCHANGED <<places, reach, state0, ix, plan, checking, stage>>
    BY DEF SegmentInv, TypeInv, PlaceInv, callerVars, recoverClear, recoverUndo, recoverRemove,
           Write, lineVars
<1>1. PICK w \in Counters :
        /\ Datagram(Addressed(TEMP), Named(0), w) /\ missed \subseteq missed'
        /\ \/ pc = "clear" /\ pc' = "temp" /\ sl' = sl
           \/ pc = "undo" /\ pc' = "returned" /\ sl' = sl /\ (w <= 0 => "name" \in missed')
           \/ pc = "remove" /\ pc' = "returned" /\ BackToOwn /\ (w <= 0 => "name" \in missed')
  <2>1. CASE recoverClear
      BY <2>1 DEF recoverClear, Write, FPWR, Goto, Miss, Nameless
  <2>2. CASE recoverUndo
      BY <2>2 DEF recoverUndo, Write, FPWR, Return, Miss, Nameless
  <2>3. CASE recoverRemove
      BY <2>3 DEF recoverRemove, Write, FPWR, Return, Miss, Nameless
  <2> QED
      BY <2>1, <2>2, <2>3
<1>2. 0 \in 0 .. TEMP /\ \A s \in Slaves : s # 0 /\ s \in 0 .. TEMP
    BY Line
<1> DEFINE hits == Addressed(TEMP)
<1>3. hits \in SUBSET Connected /\ \A d \in hits : dev[d].adr = TEMP
    BY <1>0, HitsAre
<1>4. Datagram(hits, Named(0), w)
    BY <1>1
<1> HIDE DEF hits
<1>5. /\ dev' \in [Devices -> Registers] /\ MapInv'
      /\ \A d \in Devices : dev'[d].adr = dev[d].adr \/ (d \in hits /\ dev'[d].adr = 0)
      /\ w > 0 => hits # {} /\ \A d \in hits : dev'[d].adr = 0
      /\ \A s \in Slaves : Mapped(s)' = Mapped(s)
  <2>1. pc \in {"clear", "temp", "undo", "rename", "remove"} /\ pc' \notin {"await safeop", "fmmu"}
      BY <1>1
  <2> QED
      BY <1>0, <1>1, <1>2, <1>3, <1>4, <2>1, NamingStays
<1>6. /\ sl' \in [Slaves -> Entries]
      /\ \A s \in Slaves : sl'[s].state = sl[s].state /\ sl'[s].configadr = s
  <2>1. CASE sl' = sl /\ pc \in {"clear", "undo"}
      BY <1>0, <2>1 DEF ControlInv
  <2>2. CASE sl' = [sl EXCEPT ![ix].configadr = ix] /\ pc = "remove"
    <3>1. ix \in 0 .. TEMP /\ \A s \in Slaves : s # ix => sl[s].configadr = s
        BY <1>0, <1>2, <2>2 DEF ControlInv
    <3> QED
        BY <1>0, <2>2, <3>1 DEF Entries
  <2> QED
      BY <1>1, <2>1, <2>2 DEF BackToOwn
<1>7. TypeInv'
    BY <1>0, <1>5, <1>6 DEF TypeInv, PlaceInv
<1>8. checking /\ StageFits
    BY <1>0, <1>1 DEF ControlInv
<1>9. pc' \in CheckPcs /\ StageFits' /\ stage # "readstate"
    BY <1>0, <1>1, <1>8 DEF StageFits, CheckPcs, RecoverPcs, ReconfigPcs
<1>10. ControlInv'
    BY <1>0, <1>1, <1>6, <1>8, <1>9 DEF ControlInv
<1>11. \A s \in Slaves : Adr(s)' = 0 \/ (places'[s] = places[s] /\ Adr(s)' = Adr(s))
    BY <1>0, <1>5 DEF Adr
<1>12. NameInv'
  <2> SUFFICES ASSUME "name" \notin missed', NEW s \in Slaves PROVE NameFits(s)'
      BY DEF NameInv
  <2>1. NameFits(s) /\ "name" \notin missed
      BY <1>0, <1>1 DEF NameInv
  <2>2. Adr(s)' # TEMP
    <3> SUFFICES ASSUME Adr(s)' = TEMP PROVE FALSE
        OBVIOUS
    <3>1. Adr(s) = TEMP
        BY <1>11, Line
    <3>2. s = ix /\ pc \in Temporary
        BY <2>1, <3>1 DEF NameFits
    <3>3. w > 0
        BY <1>1, <3>2 DEF Temporary, Counters
    <3>4. PICK d \in hits : dev'[d].adr = 0
        BY <1>5, <3>3
    <3>5. d = places[s]
        BY <1>0, <2>1, <3>2, <3>4, TemporaryPlace DEF hits
    <3> QED
        BY <1>0, <3>4, <3>5, Line DEF Adr
  <2>3. \A v \in Words : Fits(s, v) => Fits(s, v)'
      BY <1>0, <1>1 DEF Fits
  <2> QED
      BY <1>0, <1>2, <1>11, <2>1, <2>2, <2>3 DEF NameFits
<1>13. StaleInv'
  <2>1. \A s \in Slaves : Pending(s)' => Pending(s)
      BY <1>0, <1>1, <1>9 DEF Pending
  <2> QED
      BY <1>0, <1>1, <1>2, <1>5, <1>6, <1>11, <2>1, StaleStays
<1> QED
    BY <1>5, <1>7, <1>10, <1>12, <1>13 DEF SegmentInv
(* The slave without a name is given the temporary one. *)
LEMMA recoverNameStep ==
  ASSUME SegmentInv, UNCHANGED callerVars, recoverName
  PROVE  SegmentInv'
<1>0. /\ TypeInv /\ ControlInv /\ NameInv /\ StaleInv /\ PlaceInv
      /\ dev \in [Devices -> Registers] /\ places \in [Slaves -> Devices] /\ ix \in Slaves
      /\ sl \in [Slaves -> Entries]
      /\ UNCHANGED <<places, reach, state0, ix, missed, plan, checking, stage>> /\ pc = "temp"
    BY DEF SegmentInv, TypeInv, PlaceInv, callerVars, recoverName, lineVars
<1>1. PICK wkc \in Counters :
        /\ Datagram(At(ix), Named(TEMP), wkc)
        /\ \/ pc' = "undo" /\ sl' = sl
           \/ pc' = "alias" /\ sl' = [sl EXCEPT ![ix].configadr = TEMP]
    BY DEF recoverName, APWR, Goto
<1>2. TEMP \in 0 .. TEMP /\ TEMP # 0 /\ \A s \in Slaves : s # TEMP
    BY Line
<1> DEFINE hits == At(ix)
<1>3. hits \in SUBSET Connected /\ \A d \in hits : d = places[ix]
    BY <1>0, HitsAre
<1>4. Datagram(hits, Named(TEMP), wkc)
    BY <1>1
<1> HIDE DEF hits
<1>5. /\ dev' \in [Devices -> Registers] /\ MapInv'
      /\ \A d \in Devices : dev'[d].adr = dev[d].adr \/ (d \in hits /\ dev'[d].adr = TEMP)
      /\ \A s \in Slaves : Mapped(s)' = Mapped(s)
  <2>1. /\ pc \in {"clear", "temp", "undo", "rename", "remove"} /\ pc' \notin {"await safeop", "fmmu"}
        /\ missed \subseteq missed'
      BY <1>0, <1>1
  <2> QED
      BY <1>0, <1>2, <1>3, <1>4, <2>1, NamingStays
<1>6. \A s \in Slaves : sl[s].configadr = s
    BY <1>0 DEF ControlInv
<1>7. /\ sl' \in [Slaves -> Entries] /\ \A s \in Slaves : sl'[s].state = sl[s].state
      /\ \A s \in Slaves : sl'[s].configadr = IF s = ix /\ pc' = "alias" THEN TEMP ELSE s
  <2>1. CASE pc' = "undo" /\ sl' = sl
      BY <1>0, <1>6, <2>1
  <2>2. CASE pc' = "alias" /\ sl' = [sl EXCEPT ![ix].configadr = TEMP]
      BY <1>0, <1>2, <1>6, <2>2 DEF Entries
  <2> QED
      BY <1>1, <2>1, <2>2
<1>8. TypeInv'
    BY <1>0, <1>5, <1>7 DEF TypeInv, PlaceInv
<1>9. checking /\ StageFits /\ pc' \in {"undo", "alias"}
    BY <1>0, <1>1 DEF ControlInv
<1>10. pc' \in CheckPcs /\ StageFits' /\ stage # "readstate"
    BY <1>0, <1>9 DEF StageFits, CheckPcs, RecoverPcs, ReconfigPcs
<1>11. ControlInv'
    BY <1>0, <1>7, <1>9, <1>10 DEF ControlInv
<1>12. \A s \in Slaves : \/ Adr(s)' = Adr(s)
                         \/ s = ix /\ Adr(s)' = TEMP
    BY <1>0, <1>3, <1>5 DEF Adr, PlaceInv
<1>13. NameInv'
  <2> SUFFICES ASSUME "name" \notin missed, NEW s \in Slaves PROVE NameFits(s)'
      BY <1>0 DEF NameInv
  <2>1. NameFits(s)
      BY <1>0 DEF NameInv
  <2>2. /\ \A w \in Words : Fits(s, w)' = Fits(s, w)
        /\ pc' \in Temporary /\ pc \notin Temporary /\ Compared' = {}
      BY <1>0, <1>9 DEF Fits, Temporary, Compared
  <2>3. CASE Adr(s)' = Adr(s)
      BY <1>0, <1>9, <2>1, <2>2, <2>3 DEF NameFits
  <2>4. CASE s = ix /\ Adr(s)' = TEMP
      BY <1>0, <1>2, <1>9, <2>2, <2>4 DEF NameFits
  <2> QED
      BY <1>12, <2>3, <2>4
<1>14. StaleInv'
  <2>1. \A s \in Slaves : Pending(s)' => Pending(s)
      BY <1>0, <1>9, <1>10 DEF Pending
  <2>2. \A s \in Slaves : \/ Adr(s)' # s
                          \/ places'[s] = places[s] /\ Adr(s)' = Adr(s)
      BY <1>0, <1>2, <1>12
  <2> QED
      BY <1>0, <1>5, <1>7, <2>1, <2>2, StaleStays
<1> QED
    BY <1>5, <1>8, <1>11, <1>13, <1>14 DEF SegmentInv

(* The slave that was compared is named again. *)
LEMMA recoverRenameStep ==
  ASSUME SegmentInv, UNCHANGED callerVars, recoverRename
  PROVE  SegmentInv'
<1>0. /\ TypeInv /\ ControlInv /\ NameInv /\ StaleInv /\ PlaceInv
      /\ dev \in [Devices -> Registers] /\ places \in [Slaves -> Devices] /\ ix \in Slaves
      /\ sl \in [Slaves -> Entries]
      /\ UNCHANGED <<places, reach, state0, ix, plan, checking, stage>>
      /\ pc = "rename" /\ pc' = "returned" /\ sl' = [sl EXCEPT ![ix].configadr = ix]
    BY DEF SegmentInv, TypeInv, PlaceInv, callerVars, recoverRename, Write, lineVars, Return, BackToOwn
<1>1. PICK w \in Counters : /\ Datagram(Addressed(TEMP), Named(ix), w)
                            /\ missed' = IF w <= 0 THEN missed \cup {"name"} ELSE missed
    BY DEF recoverRename, Write, FPWR, Miss
<1>2. ix \in 0 .. TEMP /\ \A s \in Slaves : s # TEMP /\ s # 0
    BY <1>0, Line
<1> DEFINE hits == Addressed(TEMP)
<1>3. hits \in SUBSET Connected /\ \A d \in hits : dev[d].adr = TEMP
    BY <1>0, HitsAre
<1>4. Datagram(hits, Named(ix), w)
    BY <1>1
<1> HIDE DEF hits
<1>5. /\ dev' \in [Devices -> Registers] /\ MapInv'
      /\ \A d \in Devices : dev'[d].adr = dev[d].adr \/ (d \in hits /\ dev'[d].adr = ix)
      /\ w > 0 => hits # {} /\ \A d \in hits : dev'[d].adr = ix
      /\ \A s \in Slaves : Mapped(s)' = Mapped(s)
  <2>1. /\ pc \in {"clear", "temp", "undo", "rename", "remove"} /\ pc' \notin {"await safeop", "fmmu"}
        /\ missed \subseteq missed'
      BY <1>0, <1>1
  <2> QED
      BY <1>0, <1>2, <1>3, <1>4, <2>1, NamingStays
<1>6. /\ sl' \in [Slaves -> Entries]
      /\ \A s \in Slaves : sl'[s].state = sl[s].state /\ sl'[s].configadr = s
  <2>1. \A s \in Slaves : s # ix => sl[s].configadr = s
      BY <1>0 DEF ControlInv
  <2> QED
      BY <1>0, <1>2, <2>1 DEF Entries
<1>7. TypeInv'
    BY <1>0, <1>5, <1>6 DEF TypeInv, PlaceInv
<1>8. checking /\ StageFits
    BY <1>0 DEF ControlInv
<1>9. pc' \in CheckPcs /\ StageFits' /\ stage # "readstate"
    BY <1>0, <1>8 DEF StageFits, CheckPcs, RecoverPcs, ReconfigPcs
<1>10. ControlInv'
    BY <1>0, <1>6, <1>8, <1>9 DEF ControlInv
<1>11. ASSUME "name" \notin missed', NEW s \in Slaves
       PROVE  \/ Adr(s)' = Adr(s) /\ Adr(s) # TEMP
              \/ s = ix /\ Adr(s) = TEMP /\ Adr(s)' = ix
  <2>1. "name" \notin missed /\ ~(w <= 0)
      BY <1>1, <1>11
  <2>2. w > 0
      BY <2>1 DEF Counters
  <2>3. Adr(s) = TEMP => s = ix
      BY <1>0, <2>1 DEF NameInv, NameFits
  <2>4. PICK d \in hits : dev'[d].adr = ix
      BY <1>5, <2>2
  <2>5. d = places[ix] /\ Adr(ix) = TEMP
      BY <1>0, <2>1, <2>4, TemporaryPlace DEF hits
  <2>6. CASE Adr(s) = TEMP
      BY <1>0, <2>3, <2>4, <2>5, <2>6 DEF Adr
  <2>7. CASE Adr(s) # TEMP
      BY <1>0, <1>3, <1>5, <2>7 DEF Adr
  <2> QED
      BY <2>6, <2>7
<1>12. NameInv'
  <2> SUFFICES ASSUME "name" \notin missed', NEW s \in Slaves PROVE NameFits(s)'
      BY DEF NameInv
  <2>1. NameFits(s) /\ missed' = missed
      BY <1>0, <1>1 DEF NameInv
  <2>2. (\A v \in Words : Fits(s, v)' = Fits(s, v)) /\ Compared = Words
      BY <1>0, <2>1 DEF Fits, Compared
  <2>3. CASE Adr(s)' = Adr(s) /\ Adr(s) # TEMP
      BY <1>0, <2>1, <2>2, <2>3 DEF NameFits
  <2>4. CASE s = ix /\ Adr(s) = TEMP /\ Adr(s)' = ix
    <3>1. \A v \in Words : Fits(s, v)'
        BY <1>0, <2>1, <2>2, <2>4 DEF NameFits
    <3> QED
        BY <1>0, <1>2, <2>4, <3>1 DEF NameFits
  <2> QED
      BY <1>11, <2>3, <2>4
<1>13. StaleInv'
  <2> SUFFICES ASSUME missed' \cap {"name", "fmmu"} = {} PROVE StaleInv'
      BY DEF StaleInv
  <2>1. \A s \in Slaves : Pending(s)' => Pending(s) /\ s > ix
      BY <1>0, <1>9 DEF Pending
  <2>2. \A s \in Slaves : Pending(s)' => s # ix
      BY <1>0, <2>1, Line
  <2>3. \A s \in Slaves : ~Pending(s)' \/ (places'[s] = places[s] /\ Adr(s)' = Adr(s))
      BY <1>0, <1>11, <2>2
  <2>4. missed \subseteq missed'
      BY <1>1
  <2> QED
      BY <1>0, <1>5, <1>6, <2>1, <2>3, <2>4, StaleStays
<1> QED
    BY <1>5, <1>7, <1>10, <1>12, <1>13 DEF SegmentInv

-----------------------------------------------------------------------------
(***************************************************************************)
(* A device without a name has not come beyond INIT.                       *)
(***************************************************************************)
LEMMA UnnamedStays ==
  ASSUME TypeInv, UnnamedInv, missed \subseteq missed',
         pc' \in {"clear", "temp"} => ix' \in Slaves /\ (Adr(ix') = 0 \/ (pc \in {"clear", "temp"} /\ ix' = ix)),
         \A s \in Slaves :
           \/ dev'[places'[s]] = Fresh
           \/ /\ Adr(s)' = Adr(s) /\ Al(s)' = Al(s)
              /\ dev'[places'[s]].sm = dev[places[s]].sm \/ Adr(s) \notin {0, TEMP}
  PROVE  UnnamedInv'
<1>1. ASSUME pc' \in {"clear", "temp"} PROVE Adr(ix)' = 0
  <2>1. PICK t \in Slaves : t = ix'
      BY <1>1
  <2>2. Adr(t) = 0
      BY <1>1, <2>1 DEF UnnamedInv
  <2>3. Adr(t)' = 0
      BY <2>2, FreshIs DEF Adr
  <2> QED
      BY <2>1, <2>3 DEF Adr
<1>2. ASSUME "name" \notin missed', NEW s \in Slaves, Adr(s)' \in {0, TEMP}
      PROVE  Al(s)' = INIT /\ ~dev'[places'[s]].sm
  <2>1. CASE dev'[places'[s]] = Fresh
      BY <2>1, FreshIs DEF Al
  <2>2. CASE /\ Adr(s)' = Adr(s) /\ Al(s)' = Al(s)
             /\ dev'[places'[s]].sm = dev[places[s]].sm \/ Adr(s) \notin {0, TEMP}
    <3>1. Al(s) = INIT /\ ~dev[places[s]].sm
        BY <1>2, <2>2 DEF UnnamedInv
    <3> QED
        BY <1>2, <2>2, <3>1
  <2> QED
      BY <2>1, <2>2
<1> QED
    BY <1>1, <1>2 DEF UnnamedInv

(* Steps that touch no device. *)
LEMMA KeepsDevices ==
  ASSUME SegmentInv, UnnamedInv, UNCHANGED <<dev, places>>, missed \subseteq missed',
         pc' \in {"clear", "temp"} => ix' \in Slaves /\ (Adr(ix') = 0 \/ (pc \in {"clear", "temp"} /\ ix' = ix))
  PROVE  UnnamedInv'
<1>1. TypeInv /\ \A s \in Slaves : /\ Adr(s)' = Adr(s) /\ Al(s)' = Al(s)
                                   /\ dev'[places'[s]].sm = dev[places[s]].sm
    BY DEF SegmentInv, Adr, Al
<1> QED
    BY <1>1, UnnamedStays

LEMMA CallerKeepsUnnamed ==
  ASSUME SegmentInv, UnnamedInv, Caller
  PROVE  UnnamedInv'
<1>1. UNCHANGED <<dev, places, missed>>
    BY DEF Caller, Check, CheckNow, Examine, Resume, AfterExamine, NextSlave, SetState, StateSet, StatesDumped,
           outsideCaller, segmentVars
<1>2. pc' \notin {"clear", "temp"}
  <2>1. CASE Check \/ NextSlave \/ SetState \/ StateSet \/ StatesDumped
      BY <2>1 DEF Check, CheckNow, NextSlave, SetState, StateSet, StatesDumped, Call, Goto, ReadState
  <2>2. CASE AfterExamine
      BY <2>2 DEF AfterExamine, Call, Goto
  <2>3. CASE Resume
    <3>1. stage \in {"readstate", "writestate", "recheck", "recover", "reconfig"}
        BY <2>3 DEF SegmentInv, Resume, ControlInv, StageFits
    <3>2. CASE stage = "readstate"
        BY <2>3, <3>2 DEF Resume, Goto
    <3>3. CASE stage = "writestate"
        BY <2>3, <3>3 DEF Resume, Goto
    <3>4. CASE stage = "recheck"
        BY <2>3, <3>4 DEF Resume, Goto
    <3>5. CASE stage = "recover"
        BY <2>3, <3>5 DEF Resume, Goto
    <3>6. CASE stage = "reconfig"
        BY <2>3, <3>6 DEF Resume, Goto
    <3> QED
        BY <3>1, <3>2, <3>3, <3>4, <3>5, <3>6
  <2>4. CASE Examine
      BY <2>4, ExamineGoes DEF SegmentInv
  <2> QED
      BY <2>1, <2>2, <2>3, <2>4 DEF Caller
<1> QED
    BY <1>1, <1>2, KeepsDevices

LEMMA ReadsKeepUnnamed ==
  ASSUME SegmentInv, UnnamedInv,
         \/ readstateBroadcast \/ readstateEach \/ checkAll \/ recheck \/ awaitInit \/ awaitPreop
         \/ awaitSafeop \/ recoverRead \/ recoverCompare \/ delay
  PROVE  UnnamedInv'
<1>0. /\ TypeInv /\ ControlInv /\ PlaceInv /\ ix \in Slaves /\ sl \in [Slaves -> Entries]
      /\ dev \in [Devices -> Registers]
    BY DEF SegmentInv, TypeInv
<1>1. CASE recheck \/ awaitInit \/ awaitPreop \/ awaitSafeop
  <2>1. PICK place, wanted, st : Checked(place, wanted, st)
      BY <1>1 DEF recheck, awaitInit, awaitPreop, awaitSafeop
  <2>2. UNCHANGED <<dev, places, missed>>
      BY <1>0, <2>1, CheckedDoes
  <2>3. pc' \notin {"clear", "temp"}
      BY <1>1 DEF recheck, awaitInit, awaitPreop, awaitSafeop, Onward, Goto, Return, AfterSafeop
  <2> QED
      BY <2>2, <2>3, KeepsDevices
<1>2. CASE readstateBroadcast \/ readstateEach \/ checkAll \/ recoverCompare
  <2>1. PICK hits, wkc : hits \in SUBSET Connected /\ Read(hits, wkc)
    <3>1. CASE readstateBroadcast \/ checkAll
        BY <3>1 DEF readstateBroadcast, checkAll, BRD, Broadcast
    <3>2. CASE readstateEach
      <4>1. PICK wkc : Read(UNION {Addressed(sl[s].configadr) : s \in Slaves}, wkc)
          BY <3>2 DEF readstateEach
      <4>2. UNION {Addressed(sl[s].configadr) : s \in Slaves} \in SUBSET Connected
          BY <1>0, HitsAre
      <4> QED
          BY <4>1, <4>2
    <3>3. CASE recoverCompare
      <4>1. PICK a, wkc : Read(Addressed(a), wkc)
          BY <3>3 DEF recoverCompare, FPRD
      <4>2. Addressed(a) \in SUBSET Connected
          BY <1>0, HitsAre
      <4> QED
          BY <4>1, <4>2
    <3> QED
        BY <1>2, <3>1, <3>2, <3>3
  <2>2. dev' = dev
      BY <1>0, <2>1, ReadDoes
  <2>3. UNCHANGED places /\ missed \subseteq missed'
      BY <1>2 DEF readstateBroadcast, readstateEach, checkAll, recoverCompare, Miss, lineVars
  <2>4. pc' \notin {"clear", "temp"}
    <3>1. CASE readstateBroadcast \/ readstateEach \/ checkAll
        BY <3>1 DEF readstateBroadcast, readstateEach, checkAll, Return, Goto
    <3>2. CASE recoverCompare
        BY <3>2 DEF recoverCompare, Goto, After, Words
    <3> QED
        BY <1>2, <3>1, <3>2
  <2> QED
      BY <2>2, <2>3, <2>4, KeepsDevices
<1>3. CASE delay
  <2>1. UNCHANGED <<dev, places, missed>> /\ pc' = "preop"
      BY <1>3 DEF delay, Goto, lineVars
  <2> QED
      BY <2>1, KeepsDevices
<1>4. CASE recoverRead
  <2> DEFINE value == [d \in Devices |-> dev[d].adr]
  <2>1. UNCHANGED <<places, ix, missed>>
      BY <1>4 DEF recoverRead, lineVars
  <2>2. PICK wkc \in Counters :
          /\ Read(At(ix), wkc)
          /\ pc' = "returned" \/ (pc' = "clear" /\ wkc > 0 /\ Taken(wkc, At(ix), value, Nowhere) = 0)
      BY <1>4 DEF recoverRead, APRD, Return, Goto
  <2> DEFINE hits == At(ix)
  <2>3. hits \in SUBSET Connected /\ Connected \in SUBSET Devices /\ \A d \in hits : d = places[ix]
      BY <1>0, HitsAre
  <2>4. Read(hits, wkc)
      BY <2>2
  <2> HIDE DEF hits
  <2>5. dev' = dev /\ (wkc > 0 => hits # {})
      BY <1>0, <2>3, <2>4, ReadDoes
  <2>6. ASSUME pc' = "clear" PROVE Adr(ix) = 0
    <3>1. Answering(hits) \in hits
        BY <1>0, <2>2, <2>3, <2>5, <2>6, AnsweringIs
    <3>2. value[Answering(hits)] = 0
        BY <2>2, <2>6 DEF Taken, hits
    <3> QED
        BY <2>3, <3>1, <3>2 DEF Adr
  <2> QED
      BY <1>0, <2>1, <2>2, <2>5, <2>6, KeepsDevices
<1> QED
    BY <1>1, <1>2, <1>3, <1>4

LEMMA WritesKeepUnnamed ==
  ASSUME SegmentInv, UnnamedInv,
         \/ writestate \/ writestateAll \/ reconfigInit \/ requestPreop \/ requestSafeop
         \/ writeSM \/ writeFMMU
  PROVE  UnnamedInv'
<1>0. /\ TypeInv /\ ControlInv /\ PlaceInv /\ ix \in Slaves /\ sl \in [Slaves -> Entries]
      /\ dev \in [Devices -> Registers] /\ places \in [Slaves -> Devices]
    BY DEF SegmentInv, TypeInv, PlaceInv
<1>1. UNCHANGED places /\ missed \subseteq missed' /\ pc' \notin {"clear", "temp"}
  <2>1. CASE writestate \/ writestateAll \/ reconfigInit
      BY <2>1 DEF writestate, writestateAll, reconfigInit, lineVars, Return, Goto
  <2>2. CASE requestPreop \/ requestSafeop \/ writeSM
      BY <2>2 DEF requestPreop, requestSafeop, writeSM, Write, Unchecked, lineVars, Goto
  <2>3. CASE writeFMMU
      BY <2>3 DEF writeFMMU, Write, Goto, Miss, lineVars
  <2> QED
      BY <2>1, <2>2, <2>3
<1>2. CASE writestate \/ writestateAll \/ reconfigInit \/ requestPreop \/ requestSafeop
  <2>1. INIT \in Wants /\ PREOP \in Wants /\ SAFEOP \in Wants /\ OP \in Wants
        /\ SAFEOP + ERROR \in Wants /\ States \in SUBSET Wants
      BY DEF Wants, States
  <2>2. /\ Connected \in SUBSET Connected /\ \A a : Addressed(a) \in SUBSET Connected
      BY <1>0, HitsAre
  <2>3. \E hits \in SUBSET Connected, al \in Wants : \E wkc : Datagram(hits, Requested(al), wkc)
    <3>1. CASE writestate
      <4>1. sl[ix].state \in Wants
          BY <1>0, <2>1, <3>1 DEF writestate, ControlInv
      <4> QED
          BY <2>2, <3>1, <4>1 DEF writestate, FPWR
    <3>2. CASE writestateAll
      <4>1. state0 \in Wants
          BY <1>0, <2>1, <3>2 DEF writestateAll, ControlInv
      <4> QED
          BY <2>2, <3>2, <4>1 DEF writestateAll, BWR, Broadcast
    <3>3. CASE reconfigInit
        BY <2>1, <2>2, <3>3 DEF reconfigInit, FPWR
    <3>4. CASE requestPreop
        BY <2>1, <2>2, <3>4 DEF requestPreop, Write, FPWR
    <3>5. CASE requestSafeop
        BY <2>1, <2>2, <3>5 DEF requestSafeop, Write, FPWR
    <3> QED
        BY <1>2, <3>1, <3>2, <3>3, <3>4, <3>5
  <2>4. PICK hits \in SUBSET Connected, al \in Wants : \E wkc : Datagram(hits, Requested(al), wkc)
      BY <2>3
  <2>5. PICK wkc : Datagram(hits, Requested(al), wkc)
      BY <2>4
  <2> DEFINE written == Requested(al)
  <2>6. \A d \in Devices : /\ written[d] \in Registers /\ written[d].adr = dev[d].adr
                           /\ written[d].al = dev[d].al /\ written[d].sm = dev[d].sm
      BY <1>0, RequestedIs
  <2>7. Datagram(hits, written, wkc) /\ hits \in SUBSET Devices /\ \A d \in hits : written[d] \in Registers
      BY <1>0, <2>5, <2>6, HitsAre
  <2> HIDE DEF written
  <2>8. \A d \in Devices : dev'[d] = dev[d] \/ (d \in hits /\ dev'[d] = written[d])
      BY <1>0, <2>7, DatagramDoes
  <2>9. \A s \in Slaves : /\ Adr(s)' = Adr(s) /\ Al(s)' = Al(s)
                          /\ dev'[places'[s]].sm = dev[places[s]].sm
      BY <1>0, <1>1, <2>6, <2>8 DEF Adr, Al
  <2> QED
      BY <1>0, <1>1, <2>9, UnnamedStays
<1>3. CASE writeSM \/ writeFMMU
  <2>1. configadr = ix /\ ix # 0 /\ ix # TEMP
      BY <1>0, <1>3, Line DEF writeSM, writeFMMU, Write, ControlInv, configadr
  <2>2. \E written : /\ \E wkc : Datagram(Addressed(ix), written, wkc)
                     /\ \A d \in Devices : /\ written[d] \in Registers /\ written[d].adr = dev[d].adr
                                           /\ written[d].al = dev[d].al
    <3>1. CASE writeSM
      <4> DEFINE to == [d \in Devices |-> [dev[d] EXCEPT !.sm = TRUE]]
      <4>1. \E wkc : Datagram(Addressed(ix), to, wkc)
          BY <2>1, <3>1 DEF writeSM, Write, FPWR
      <4>2. \A d \in Devices : to[d] \in Registers /\ to[d].adr = dev[d].adr /\ to[d].al = dev[d].al
          BY <1>0 DEF Registers
      <4> HIDE DEF to
      <4> QED
          BY <4>1, <4>2
    <3>2. CASE writeFMMU
      <4> DEFINE to == [d \in Devices |-> [dev[d] EXCEPT !.fmmu = TRUE]]
      <4>1. \E wkc : Datagram(Addressed(ix), to, wkc)
          BY <2>1, <3>2 DEF writeFMMU, Write, FPWR
      <4>2. \A d \in Devices : to[d] \in Registers /\ to[d].adr = dev[d].adr /\ to[d].al = dev[d].al
          BY <1>0 DEF Registers
      <4> HIDE DEF to
      <4> QED
          BY <4>1, <4>2
    <3> QED
        BY <1>3, <3>1, <3>2
  <2>3. PICK written :
          /\ \E wkc : Datagram(Addressed(ix), written, wkc)
          /\ \A d \in Devices : /\ written[d] \in Registers /\ written[d].adr = dev[d].adr
                                /\ written[d].al = dev[d].al
      BY <2>2
  <2>4. \A s \in Slaves : \/ dev'[places[s]] = dev[places[s]]
                          \/ Adr(s) = ix /\ dev'[places[s]] = written[places[s]]
      BY <1>0, <2>3, WriteDoes
  <2>5. \A s \in Slaves : /\ Adr(s)' = Adr(s) /\ Al(s)' = Al(s)
                          /\ dev'[places'[s]].sm = dev[places[s]].sm \/ Adr(s) \notin {0, TEMP}
      BY <1>0, <1>1, <2>1, <2>3, <2>4 DEF Adr, Al
  <2> QED
      BY <1>0, <1>1, <2>5, UnnamedStays
<1> QED
    BY <1>2, <1>3

LEMMA NamingKeepsUnnamed ==
  ASSUME SegmentInv, UnnamedInv, UNCHANGED callerVars,
         recoverClear \/ recoverName \/ recoverUndo \/ recoverRename \/ recoverRemove
  PROVE  UnnamedInv'
<1>0. /\ TypeInv /\ ControlInv /\ NameInv /\ PlaceInv /\ ix \in Slaves
      /\ dev \in [Devices -> Registers] /\ places \in [Slaves -> Devices]
    BY DEF SegmentInv, TypeInv, PlaceInv
<1>1. UNCHANGED <<places, reach, ix>> /\ missed \subseteq missed'
  <2>1. CASE recoverClear \/ recoverUndo \/ recoverRename \/ recoverRemove
      BY <2>1 DEF recoverClear, recoverUndo, recoverRename, recoverRemove, Write, Miss, lineVars
  <2>2. CASE recoverName
      BY <2>2 DEF recoverName, lineVars
  <2> QED
      BY <2>1, <2>2
<1>2. 0 \in 0 .. TEMP /\ TEMP \in 0 .. TEMP /\ ix \in 0 .. TEMP /\ TEMP # 0 /\ ix # 0 /\ ix # TEMP
    BY <1>0, Line
<1>3. /\ \A a : Addressed(a) \in SUBSET Connected /\ \A d \in Addressed(a) : dev[d].adr = a
      /\ At(ix) \in SUBSET Connected /\ \A d \in At(ix) : d = places[ix]
    BY <1>0, HitsAre
<1>4. \E hits \in SUBSET Connected, a \in 0 .. TEMP :
        /\ \E wkc : Datagram(hits, Named(a), wkc)
        /\ \/ /\ a = 0 /\ \A d \in hits : dev[d].adr = TEMP
              /\ \/ pc = "clear" /\ pc' = "temp"
                 \/ pc \in {"undo", "remove"} /\ pc' = "returned"
           \/ /\ a = TEMP /\ \A d \in hits : d = places[ix]
              /\ pc = "temp" /\ pc' \in {"undo", "alias"}
           \/ a = ix /\ pc = "rename" /\ pc' = "returned"
  <2>1. CASE recoverClear
    <3>1. (\E wkc : Datagram(Addressed(TEMP), Named(0), wkc)) /\ pc = "clear" /\ pc' = "temp"
        BY <2>1 DEF recoverClear, Write, FPWR, Goto, Nameless
    <3> QED
        BY <1>2, <1>3, <3>1
  <2>2. CASE recoverUndo \/ recoverRemove
    <3>1. /\ \E wkc : Datagram(Addressed(TEMP), Named(0), wkc)
          /\ pc \in {"undo", "remove"} /\ pc' = "returned"
        BY <2>2 DEF recoverUndo, recoverRemove, Write, FPWR, Return, Nameless
    <3> QED
        BY <1>2, <1>3, <3>1
  <2>3. CASE recoverName
    <3>1. (\E wkc : Datagram(At(ix), Named(TEMP), wkc)) /\ pc = "temp" /\ pc' \in {"undo", "alias"}
        BY <2>3 DEF recoverName, APWR, Goto
    <3> QED
        BY <1>2, <1>3, <3>1
  <2>4. CASE recoverRename
    <3>1. (\E wkc : Datagram(Addressed(TEMP), Named(ix), wkc)) /\ pc = "rename" /\ pc' = "returned"
        BY <2>4 DEF recoverRename, Write, FPWR, Return
    <3> QED
        BY <1>2, <1>3, <3>1
  <2> QED
      BY <2>1, <2>2, <2>3, <2>4
<1>5. PICK hits \in SUBSET Connected, a \in 0 .. TEMP :
        /\ \E wkc : Datagram(hits, Named(a), wkc)
        /\ \/ /\ a = 0 /\ \A d \in hits : dev[d].adr = TEMP
              /\ \/ pc = "clear" /\ pc' = "temp"
                 \/ pc \in {"undo", "remove"} /\ pc' = "returned"
           \/ /\ a = TEMP /\ \A d \in hits : d = places[ix]
              /\ pc = "temp" /\ pc' \in {"undo", "alias"}
           \/ a = ix /\ pc = "rename" /\ pc' = "returned"
    BY <1>4
<1>6. PICK wkc : Datagram(hits, Named(a), wkc)
    BY <1>5
<1>7. pc \in {"clear", "temp", "undo", "rename", "remove"} /\ pc' \notin {"await safeop", "fmmu"}
    BY <1>5
<1>8. \A d \in Devices : /\ dev'[d].adr = dev[d].adr \/ (d \in hits /\ dev'[d].adr = a)
                         /\ dev'[d].al = dev[d].al /\ dev'[d].sm = dev[d].sm
    BY <1>1, <1>6, <1>7, NamingStays
<1>9. \A s \in Slaves : /\ Adr(s)' = Adr(s) \/ (places[s] \in hits /\ Adr(s)' = a)
                        /\ Al(s)' = Al(s) /\ dev'[places'[s]].sm = dev[places[s]].sm
    BY <1>0, <1>1, <1>8 DEF Adr, Al
<1>10. ASSUME pc' \in {"clear", "temp"} PROVE Adr(ix)' = 0
  <2>1. pc = "clear" /\ a = 0
      BY <1>5, <1>10
  <2>2. Adr(ix) = 0
      BY <2>1 DEF UnnamedInv
  <2>3. \A s \in Slaves : Adr(s)' = Adr(s) \/ Adr(s)' = 0
      BY <1>9, <2>1
  <2>4. Adr(ix)' = dev'[places[ix]].adr /\ Adr(ix) = dev[places[ix]].adr
      BY <1>1 DEF Adr
  <2>5. PICK t \in Slaves : t = ix
      BY <1>0
  <2>6. Adr(t)' = dev'[places[t]].adr
      BY <1>1 DEF Adr
  <2> QED
      BY <2>2, <2>3, <2>4, <2>5, <2>6 DEF Adr
<1>11. ASSUME "name" \notin missed', NEW s \in Slaves, Adr(s)' \in {0, TEMP}
       PROVE  Al(s)' = INIT /\ ~dev'[places'[s]].sm
  <2>1. Adr(s) \in {0, TEMP}
    <3>1. CASE Adr(s)' = Adr(s)
        BY <1>11, <3>1
    <3>2. CASE places[s] \in hits /\ Adr(s)' = a
      <4>1. CASE \A d \in hits : dev[d].adr = TEMP
          BY <3>2, <4>1 DEF Adr
      <4>2. CASE pc = "temp" /\ \A d \in hits : d = places[ix]
        <5>1. Adr(ix) = 0 /\ places[s] = places[ix]
            BY <3>2, <4>2 DEF UnnamedInv
        <5> QED
            BY <5>1 DEF Adr
      <4>3. CASE a = ix
          BY <1>2, <1>11, <3>2, <4>3
      <4> QED
          BY <1>5, <4>1, <4>2, <4>3
    <3> QED
        BY <1>9, <3>1, <3>2
  <2>2. Al(s) = INIT /\ ~dev[places[s]].sm
      BY <1>1, <1>11, <2>1 DEF UnnamedInv
  <2> QED
      BY <1>9, <2>2
<1> QED
    BY <1>10, <1>11 DEF UnnamedInv

LEMMA EnvironmentKeepsUnnamed ==
  ASSUME SegmentInv, UnnamedInv, Environment
  PROVE  UnnamedInv'
<1>0. /\ TypeInv /\ PlaceInv /\ ix \in Slaves /\ UNCHANGED <<ix, pc, missed>>
      /\ dev \in [Devices -> Registers] /\ places \in [Slaves -> Devices]
    BY DEF SegmentInv, TypeInv, PlaceInv, Environment, controlVars
<1>1. missed \subseteq missed'
      /\ (pc' \in {"clear", "temp"} => ix' \in Slaves /\ (Adr(ix') = 0 \/ (pc \in {"clear", "temp"} /\ ix' = ix)))
    BY <1>0
<1>2. ASSUME NEW d \in Devices, Serve(d) PROVE UnnamedInv'
  <2> DEFINE r == Served(dev[d])
  <2>1. dev[d] \in Registers /\ dev[d].want # None /\ places' = places
      BY <1>0, <1>2 DEF Serve, lineVars
  <2>2. /\ r.adr = dev[d].adr /\ r.sm = dev[d].sm
        /\ \/ State(r.al) = INIT
           \/ State(r.al) = State(dev[d].al)
           \/ dev[d].sm /\ State(r.al) = PREOP
           \/ State(dev[d].al) \in {PREOP, SAFEOP, OP}
      BY <2>1, ServedIs
  <2>3. dev' = [dev EXCEPT ![d] = r]
      BY <1>2 DEF Serve
  <2> HIDE DEF r
  <2>4. dev'[d] = r /\ \A e \in Devices : e # d => dev'[e] = dev[e]
      BY <1>0, <2>3
  <2>5. \A s \in Slaves : Adr(s)' = Adr(s) /\ dev'[places'[s]].sm = dev[places[s]].sm
      BY <1>0, <2>1, <2>2, <2>4 DEF Adr
  <2>6. ASSUME NEW s \in Slaves, Al(s) = INIT, ~dev[places[s]].sm PROVE Al(s)' = INIT
    <3>1. CASE places[s] = d
        BY <2>1, <2>2, <2>4, <2>6, <3>1, StatesDiffer DEF Al
    <3>2. CASE places[s] # d
        BY <1>0, <2>1, <2>4, <2>6, <3>2 DEF Al
    <3> QED
        BY <3>1, <3>2
  <2>7. pc' \in {"clear", "temp"} => Adr(ix)' = 0
      BY <1>0, <2>5 DEF UnnamedInv
  <2> QED
      BY <1>0, <2>5, <2>6, <2>7 DEF UnnamedInv
<1>3. ASSUME NEW d \in Devices, Fail(d) PROVE UnnamedInv'
  <2>1. dev' = [dev EXCEPT ![d].al = SAFEOP + ERROR] /\ dev[d].al = OP /\ places' = places
      BY <1>3 DEF Fail, lineVars
  <2>2. /\ \A e \in Devices : e # d => dev'[e] = dev[e]
        /\ dev'[d].adr = dev[d].adr /\ dev'[d].sm = dev[d].sm
      BY <1>0, <2>1 DEF Registers
  <2>3. \A s \in Slaves : Adr(s)' = Adr(s) /\ dev'[places'[s]].sm = dev[places[s]].sm
      BY <1>0, <2>1, <2>2 DEF Adr
  <2>4. ASSUME NEW s \in Slaves, Al(s) = INIT PROVE Al(s)' = INIT
    <3>1. places[s] # d
        BY <2>1, <2>4, StateIs, StatesDiffer DEF Al
    <3> QED
        BY <1>0, <2>1, <2>2, <2>4, <3>1 DEF Al
  <2>5. pc' \in {"clear", "temp"} => Adr(ix)' = 0
      BY <1>0, <2>3 DEF UnnamedInv
  <2> QED
      BY <1>0, <2>3, <2>4, <2>5 DEF UnnamedInv
<1>4. CASE Cut \/ Join \/ \E d \in Devices : Restart(d)
  <2>1. \A s \in Slaves :
          \/ dev'[places'[s]] = Fresh
          \/ places'[s] = places[s] /\ dev'[places[s]] = dev[places[s]]
      BY <1>0, <1>4, LineDoes
  <2>2. \A s \in Slaves :
          \/ dev'[places'[s]] = Fresh
          \/ Adr(s)' = Adr(s) /\ Al(s)' = Al(s) /\ dev'[places'[s]].sm = dev[places[s]].sm
      BY <2>1 DEF Adr, Al
  <2> QED
      BY <1>0, <1>1, <2>2, UnnamedStays
<1> QED
    BY <1>2, <1>3, <1>4 DEF Environment, Device, Outside

-----------------------------------------------------------------------------
(***************************************************************************)
(* The invariant and what it says.                                         *)
(***************************************************************************)
LEMMA InitiallyRight == Init => SegmentInv
<1> SUFFICES ASSUME Init PROVE SegmentInv
    OBVIOUS
<1> DEFINE first == IF checking THEN OP ELSE PREOP
<1>1. /\ first \in {OP, PREOP} /\ (checking => first = OP)
      /\ places = [s \in Slaves |-> s] /\ reach = Cardinality(Slaves)
      /\ dev = [d \in Devices |-> IF d \in Slaves THEN Running(first)[d] ELSE Fresh]
      /\ sl = [s \in Slaves |-> [state |-> first, configadr |-> s, islost |-> FALSE]]
      /\ missed = {} /\ ix = 1 /\ pc = "idle" /\ plan \in Plans /\ checking = (plan = <<>>)
    BY DEF Init
<1> HIDE DEF first
<1>2. /\ first \in ALs /\ None \in Wants /\ Fresh \in Registers
      /\ \A s \in Slaves : s \in 0 .. TEMP /\ s \in Devices /\ s # TEMP /\ s # 0
      /\ 1 \in Slaves /\ reach \in 0 .. Cardinality(Slaves)
    BY <1>1, FreshIs, Line DEF ALs, States, Wants, Devices
<1>3. \A s \in Slaves : places[s] = s /\ dev[s] = Running(first)[s]
    BY <1>1, <1>2
<1>4. ASSUME NEW s \in Slaves PROVE dev[s] \in Registers /\ dev[s].adr = s /\ dev[s].fmmu
  <2> DEFINE r == [adr |-> s, al |-> first, want |-> None, sm |-> TRUE, fmmu |-> TRUE]
  <2>1. Running(first)[s] = r
      BY DEF Running
  <2>2. r \in Registers /\ r.adr = s /\ r.fmmu
      BY <1>2 DEF Registers
  <2> HIDE DEF r
  <2> QED
      BY <1>3, <2>1, <2>2
<1>5. dev \in [Devices -> Registers]
    BY <1>1, <1>2, <1>3, <1>4 DEF Devices
<1>6. sl \in [Slaves -> Entries] /\ \A s \in Slaves : sl[s].configadr = s
    BY <1>1, <1>2 DEF Entries
<1>7. plan \in Seq(States) /\ checking \in BOOLEAN
    BY <1>1, PlanAssumption DEF PlanAssumption, States
<1>8. TypeInv
    BY <1>1, <1>2, <1>5, <1>6, <1>7 DEF TypeInv, PlaceInv
<1>9. ControlInv
    BY <1>1, <1>6 DEF ControlInv
<1>10. \A s \in Slaves : Adr(s) = s /\ Mapped(s)
    BY <1>3, <1>4 DEF Adr, Mapped
<1>11. NameInv
    BY <1>2, <1>3, <1>10 DEF NameInv, NameFits, Fits
<1>12. MapInv /\ StaleInv
    BY <1>10 DEF MapInv, StaleInv
<1> QED
    BY <1>8, <1>9, <1>11, <1>12 DEF SegmentInv

LEMMA StepStaysRight == SegmentInv /\ [Next]_vars => SegmentInv'
<1> SUFFICES ASSUME SegmentInv, [Next]_vars PROVE SegmentInv'
    OBVIOUS
<1>1. CASE Caller
    BY <1>1, CheckStep, ExamineStep, ResumeStep, AfterExamineStep, NextSlaveStep, ProgramStep
    DEF Caller
<1>2. CASE Control /\ UNCHANGED callerVars
    BY <1>2, readstateBroadcastStep, readstateEachStep, RequestStep, StateCheckStep, checkAllStep,
       ReadAtPlaceStep, CompareStep, TakeBackStep, recoverNameStep, recoverRenameStep, writeSMStep,
       writeFMMUStep
    DEF Control
<1>3. CASE World
  <2>1. CASE Environment
      BY <2>1, ServeStep, FailStep, LineStep DEF Environment, Device, Outside
  <2> QED
      BY <1>3, <2>1, CheckStep DEF World
<1>4. CASE UNCHANGED vars
  <2>1. UNCHANGED <<dev, places, reach, missed, checking, plan, sl, state0, ix, pc, stage>>
      BY <1>4 DEF vars, segmentVars, controlVars
  <2>2. \A s \in Slaves : /\ Adr(s)' = Adr(s) /\ Mapped(s)' = Mapped(s) /\ Pending(s)' = Pending(s)
                          /\ places'[s] = places[s] /\ dev'[places'[s]] = dev[places[s]]
      BY <2>1 DEF Adr, Mapped, Pending
  <2>3. TypeInv' /\ ControlInv'
      BY <2>1 DEF SegmentInv, TypeInv, PlaceInv, ControlInv, StageFits
  <2>4. NameInv' /\ MapInv' /\ StaleInv'
      BY <2>1, <2>2, NamesStay, MapStays, StaleStays DEF SegmentInv
  <2> QED
      BY <2>3, <2>4 DEF SegmentInv
<1> QED
    BY <1>1, <1>2, <1>3, <1>4 DEF Next, Master

LEMMA SegmentStaysRight == Spec => []SegmentInv
BY InitiallyRight, StepStaysRight, PTL DEF Spec

LEMMA UnnamedStaysRight == SegmentInv /\ UnnamedInv /\ [Next]_vars => UnnamedInv'
<1> SUFFICES ASSUME SegmentInv, UnnamedInv, [Next]_vars PROVE UnnamedInv'
    OBVIOUS
<1>1. CASE Caller
    BY <1>1, CallerKeepsUnnamed
<1>2. CASE Control /\ UNCHANGED callerVars
    BY <1>2, ReadsKeepUnnamed, WritesKeepUnnamed, NamingKeepsUnnamed DEF Control
<1>3. CASE World
  <2>1. CASE CheckAfterLoss
    <3>1. UNCHANGED <<dev, places, missed, ix>> /\ pc' = "readstate" /\ ix \in Slaves
        BY <2>1 DEF CheckAfterLoss, CheckNow, Call, lineVars, SegmentInv, TypeInv
    <3> QED
        BY <3>1, KeepsDevices
  <2> QED
      BY <1>3, <2>1, EnvironmentKeepsUnnamed DEF World
<1>4. CASE UNCHANGED vars
  <2>1. UNCHANGED <<dev, places, missed, pc, ix>> /\ ix \in Slaves
      BY <1>4 DEF vars, segmentVars, controlVars, SegmentInv, TypeInv
  <2> QED
      BY <2>1, KeepsDevices
<1> QED
    BY <1>1, <1>2, <1>3, <1>4 DEF Next, Master

LEMMA NobodyUnnamed == Spec => []UnnamedInv
<1>1. Init => UnnamedInv
  <2> SUFFICES ASSUME Init PROVE UnnamedInv
      OBVIOUS
  <2>1. SegmentInv /\ pc = "idle"
      BY InitiallyRight DEF Init
  <2>2. ASSUME NEW s \in Slaves PROVE Adr(s) = s /\ s # 0 /\ s # TEMP
    <3> DEFINE st == IF checking THEN OP ELSE PREOP
    <3>1. places = [t \in Slaves |-> t]
          /\ dev = [d \in Devices |-> IF d \in Slaves THEN Running(st)[d] ELSE Fresh]
        BY DEF Init
    <3> HIDE DEF st
    <3>2. s \in Devices
        BY DEF Devices
    <3>3. places[s] = s /\ dev[s] = Running(st)[s]
        BY <3>1, <3>2
    <3>4. Running(st)[s].adr = s
        BY DEF Running
    <3> QED
        BY <3>3, <3>4, Line DEF Adr
  <2> QED
      BY <2>1, <2>2 DEF UnnamedInv
<1> QED
    BY <1>1, UnnamedStaysRight, SegmentStaysRight, PTL DEF Spec

(* However many slaves, lost datagrams and changes of the line there are:  *)
(* as long as no write of an address was missed, an address of a slave     *)
(* belongs to one device at most, and to one with the alias and the        *)
(* identity configured at that place, but for words configured as 0 that   *)
(* were not read (ecx_recover_slave).                                      *)
THEOREM AddressCorrect == Spec => []AddressIsRight
<1>1. SegmentInv => AddressIsRight
  <2> SUFFICES ASSUME SegmentInv, "name" \notin missed, NEW s \in Slaves
               PROVE  /\ Cardinality(Addressed(s)) <= 1
                      /\ \A d \in Addressed(s) :
                           \A w \in Words :
                             Identity[d][w] = Identity[s][w] \/ (w \in missed /\ Identity[s][w] = 0)
      BY DEF AddressIsRight
  <2>1. TypeInv /\ NameInv
      BY DEF SegmentInv
  <2>2. \A d \in Addressed(s) : d = places[s] /\ Adr(s) = s
      BY <2>1, OwnPlace
  <2>3. Cardinality(Addressed(s)) <= 1
    <3>1. Addressed(s) \subseteq {places[s]}
        BY <2>2
    <3>2. IsFiniteSet({places[s]}) /\ Cardinality({places[s]}) = 1
        BY FS_Singleton
    <3> QED
        BY <3>1, <3>2, FS_Subset
  <2>4. \A d \in Addressed(s), w \in Words :
          Identity[d][w] = Identity[s][w] \/ (w \in missed /\ Identity[s][w] = 0)
      BY <2>1, <2>2 DEF NameInv, NameFits, Fits
  <2> QED
      BY <2>3, <2>4
<1> QED
    BY <1>1, SegmentStaysRight, PTL

(* A device that is in OP under the address of a slave has its FMMUs, as   *)
(* long as no write of an address or of FMMUs was missed (ecatcheck,       *)
(* ecx_reconfig_slave).                                                    *)
THEOREM MappingCorrect == Spec => []OpIsMapped
<1>1. SegmentInv => OpIsMapped
  <2> SUFFICES ASSUME SegmentInv, missed \cap {"name", "fmmu"} = {}, NEW s \in Slaves,
                      NEW d \in Addressed(s), dev[d].al = OP
               PROVE  dev[d].fmmu
      BY DEF OpIsMapped
  <2>1. TypeInv /\ NameInv /\ MapInv
      BY DEF SegmentInv
  <2>2. d = places[s]
      BY <2>1, OwnPlace
  <2>3. Al(s) = OP
      BY <2>2, StateIs DEF Al
  <2>4. Mapped(s)
      BY <2>1, <2>3, StatesDiffer DEF MapInv, Below, Configuring
  <2> QED
      BY <2>2, <2>4 DEF Mapped
<1> QED
    BY <1>1, SegmentStaysRight, PTL

LEMMA ReadstateReports ==
  ASSUME SegmentInv, UnnamedInv, readstateBroadcast \/ readstateEach, "name" \notin missed,
         NEW s \in Slaves, SlaveState(s) # OP, SlaveState(s)' = OP
  PROVE  \E d \in Addressed(s) : dev[d].al = OP
<1>0. TypeInv /\ PlaceInv /\ ControlInv /\ NameInv /\ sl \in [Slaves -> Entries]
    BY DEF SegmentInv, TypeInv
<1>1. sl[s].state # OP /\ sl'[s].state = OP
    BY DEF SlaveState
<1>2. CASE readstateBroadcast
  <2>1. PICK wkc \in Counters :
          /\ Read(Connected, wkc)
          /\ LET rval == IF wkc > 0 THEN OredStates ELSE 0
                 same == State(rval) \in {INIT, PREOP, SAFEOP, OP} IN
             IF ~IsError(rval) /\ same /\ AllPresent(wkc)
             THEN sl' = [t \in Slaves |-> [sl[t] EXCEPT !.state = State(rval)]]
             ELSE sl' = sl
      BY <1>2 DEF readstateBroadcast, BRD, Broadcast
  <2> DEFINE rval == IF wkc > 0 THEN OredStates ELSE 0
             st == State(rval)
  <2>2. sl' # sl
      BY <1>1
  <2>3. /\ ~IsError(rval) /\ AllPresent(wkc) /\ st \in States
        /\ sl' = [t \in Slaves |-> [sl[t] EXCEPT !.state = st]]
      BY <2>1, <2>2 DEF States
  <2> HIDE DEF st, rval
  <2>4. sl'[s].state = st
      BY <1>0, <2>3 DEF Entries
  <2>5. st = OP
      BY <1>1, <2>4
  <2>6. wkc > 0
    <3>1. CASE ~(wkc > 0)
      <4>1. st = 0
          BY <3>1, StateIs DEF st, rval, None
      <4> QED
          BY <2>5, <4>1, StatesDiffer
    <3> QED
        BY <3>1
  <2>7. rval = OredStates /\ State(OredStates) = st /\ ~IsError(OredStates)
      BY <2>3, <2>6 DEF rval, st
  <2>8. wkc = Cardinality(Connected)
      BY <2>1, <2>6 DEF Read, Datagram
  <2>9. places[s] \in Connected
      BY <1>0, <2>3, <2>8, AllConnected DEF AllPresent
  <2>10. dev[places[s]].al = OP
      BY <1>0, <2>3, <2>5, <2>7, <2>9, OredShows
  <2>11. Al(s) = OP
      BY <2>10, StateIs DEF Al
  <2>12. Adr(s) = s
      BY <1>0, <2>11, StatesDiffer DEF UnnamedInv, NameInv, NameFits
  <2>13. places[s] \in Addressed(s)
      BY <2>9, <2>12 DEF Addressed, Adr
  <2> QED
      BY <2>10, <2>13
<1>3. CASE readstateEach
  <2>1. sl[s].configadr = s
      BY <1>0, <1>3 DEF ControlInv, readstateEach
  <2>2. PICK wkc \in Counters : sl' = [t \in Slaves |-> [sl[t] EXCEPT !.state = FPRD_multi(wkc)[t]]]
      BY <1>3 DEF readstateEach
  <2> DEFINE read == FPRD_multi(wkc)
             hits == Addressed(sl[s].configadr)
  <2>3. read[s] = IF wkc >= 0 /\ hits # {} THEN AlState[Answering(hits)] ELSE 0
      BY DEF FPRD_multi
  <2>4. sl' = [t \in Slaves |-> [sl[t] EXCEPT !.state = read[t]]]
      BY <2>2
  <2> HIDE DEF read
  <2>5. sl'[s].state = read[s]
      BY <1>0, <2>4 DEF Entries
  <2>6. hits = Addressed(s)
      BY <2>1
  <2> HIDE DEF hits
  <2>7. hits # {} /\ AlState[Answering(hits)] = OP
      BY <1>1, <2>3, <2>5, StatesDiffer
  <2>8. hits \in SUBSET Connected /\ Connected \in SUBSET Devices
      BY <1>0, <2>6, HitsAre
  <2>9. Answering(hits) \in hits
      BY <1>0, <2>7, <2>8, AnsweringIs
  <2>10. dev[Answering(hits)].al = OP
      BY <2>7, <2>8, <2>9 DEF AlState
  <2> QED
      BY <2>6, <2>9, <2>10
<1> QED
    BY <1>2, <1>3

LEMMA CheckReports ==
  ASSUME SegmentInv, checkAll, ret' = state0, NEW d \in Connected
  PROVE  State(dev[d].al) = state0
<1>0. TypeInv /\ ControlInv /\ pc = "checkall"
    BY DEF SegmentInv, checkAll
<1>1. state0 \in States
    BY <1>0 DEF ControlInv
<1>2. PICK wkc \in Counters : ret' = State(IF wkc > 0 THEN OredStates ELSE 0)
    BY DEF checkAll, Return
<1>3. CASE wkc > 0
    BY <1>0, <1>1, <1>2, <1>3, OredShows
<1>4. CASE ~(wkc > 0)
  <2>1. state0 = 0
      BY <1>2, <1>4, StateIs DEF None
  <2> QED
      BY <1>1, <2>1 DEF States, INIT, PREOP, SAFEOP, OP
<1> QED
    BY <1>3, <1>4

(* What the master believes of its slaves is so (ecx_readstate,            *)
(* ecx_statecheck).                                                        *)
THEOREM ReportCorrect == Spec => ReportIsTrue
<1>1. SegmentInv /\ UnnamedInv /\ [Next]_vars =>
        [/\ pc \in {"readstate", "readall"} /\ "name" \notin missed =>
              \A s \in Slaves :
                SlaveState(s) # OP /\ SlaveState(s)' = OP => \E d \in Addressed(s) : dev[d].al = OP
         /\ pc = "checkall" /\ pc' = "returned" /\ ret' = state0 =>
              \A d \in Connected : State(dev[d].al) = state0]_vars
  <2> SUFFICES ASSUME SegmentInv, UnnamedInv, Next
               PROVE  /\ pc \in {"readstate", "readall"} /\ "name" \notin missed =>
                           \A s \in Slaves :
                             SlaveState(s) # OP /\ SlaveState(s)' = OP => \E d \in Addressed(s) : dev[d].al = OP
                      /\ pc = "checkall" /\ pc' = "returned" /\ ret' = state0 =>
                           \A d \in Connected : State(dev[d].al) = state0
      OBVIOUS
  <2>1. CASE readstateBroadcast \/ readstateEach
    <3>1. pc # "checkall"
        BY <2>1 DEF readstateBroadcast, readstateEach
    <3> QED
        BY <2>1, <3>1, ReadstateReports
  <2>2. CASE checkAll
    <3>1. pc = "checkall"
        BY <2>2 DEF checkAll
    <3> QED
        BY <2>2, <3>1, CheckReports
  <2>3. CASE pc \in {"readstate", "readall", "checkall"} => UNCHANGED <<sl, pc>>
    <3>1. pc \in {"readstate", "readall"} => \A s \in Slaves : SlaveState(s)' = SlaveState(s)
        BY <2>3 DEF SlaveState
    <3>2. pc = "checkall" => pc' = "checkall"
        BY <2>3
    <3> QED
        BY <3>1, <3>2
  <2>4. CASE pc \in {"readstate", "readall", "checkall"} /\ Master /\ ~(readstateBroadcast \/ readstateEach \/ checkAll)
    <3>1. Caller => FALSE
        BY <2>4 DEF Caller, Check, CheckNow, Examine, Resume, AfterExamine, NextSlave, SetState, StateSet, StatesDumped
    <3>2. Control => FALSE
        BY <2>4 DEF Control, writestate, writestateAll, recheck, Checked, recoverRead, recoverClear,
           recoverName, recoverUndo, recoverCompare, recoverRename, recoverRemove, Write,
           Words, reconfigInit, awaitInit, writeSM, delay, requestPreop, awaitPreop, requestSafeop,
           awaitSafeop, writeFMMU
    <3> QED
        BY <2>4, <3>1, <3>2 DEF Master
  <2>5. World => UNCHANGED <<sl, pc>> \/ pc = "idle"
      BY DEF World, Environment, CheckAfterLoss, CheckNow, controlVars
  <2> QED
      BY <2>1, <2>2, <2>3, <2>4, <2>5 DEF Next
<1> QED
    BY <1>1, SegmentStaysRight, NobodyUnnamed, PTL DEF Spec, ReportIsTrue
=============================================================================
