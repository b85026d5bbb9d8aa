---------------------------- MODULE SlaveControl ----------------------------
(***************************************************************************)
(* The master's functions about the state of its slaves: ecx_readstate,    *)
(* ecx_writestate, ecx_statecheck (ec_main.c), ecx_recover_slave and       *)
(* ecx_reconfig_slave (ec_config.c), one datagram a step, and their caller *)
(* CheckThread.  A function is entered with pc at its first datagram for   *)
(* slave ix; "returned" is the way back, with its result in ret.           *)
(***************************************************************************)
EXTENDS Segment

VARIABLES
  sl,        \* slavelist: [state, configadr, islost]
  state0,    \* slavelist[0].state
  ix,        \* the slave a function is about
  pc,        \* the next datagram
  ret,       \* what the function returned
  missed     \* writes and reads that got no answer and that nobody repeats: see Miss

controlVars == <<sl, state0, ix, pc, ret, missed>>

configadr == sl[ix].configadr
InState(s, al) == [sl EXCEPT ![s].state = al]
Goto(place) == pc' = place
Return(value) == pc' = "returned" /\ ret' = value

AlState == [d \in Devices |-> dev[d].al]

(* What nobody looks at: "name", taking a temporary address back or giving *)
(* the own one; a word of the identity, compared; "fmmu", the FMMUs.       *)
Miss(what, is) == missed' = IF is THEN missed \cup {what} ELSE missed

(***************************************************************************)
(* ecx_readstate: one broadcast when everybody is present, in the same     *)
(* state and without error, else one datagram with a read for every slave. *)
(***************************************************************************)
AnyPresent(wkc) == TRUE   \* a mutant

AllPresent(wkc) == wkc >= Cardinality(Slaves)

readstateBroadcast ==
  /\ pc = "readstate"
  /\ \E wkc \in Counters :
       /\ BRD(wkc)
       /\ LET rval == IF wkc > 0 THEN OredStates ELSE 0
              same == State(rval) \in {INIT, PREOP, SAFEOP, OP} IN
          IF ~IsError(rval) /\ same /\ AllPresent(wkc)
          THEN /\ sl' = [s \in Slaves |-> [sl[s] EXCEPT !.state = State(rval)]]
               /\ state0' = State(rval) /\ Return(State(rval))
          ELSE /\ state0' = IF same THEN State(rval) ELSE state0
               /\ Goto("readall") /\ UNCHANGED <<sl, ret>>
  /\ UNCHANGED <<lineVars, events, slow, ix, missed>>

(* Every slave's register in one frame: what nobody filled comes back as   *)
(* zero, and so does all of a lost frame.                                  *)
FPRD_multi(wkc) ==
  [s \in Slaves |-> LET hits == Addressed(sl[s].configadr) IN
                    IF wkc >= 0 /\ hits # {} THEN AlState[Answering(hits)] ELSE 0]

readstateEach ==
  /\ pc = "readall"
  /\ \E wkc \in Counters :
       /\ Read(UNION {Addressed(sl[s].configadr) : s \in Slaves}, wkc)
       /\ sl' = [s \in Slaves |-> [sl[s] EXCEPT !.state = FPRD_multi(wkc)[s]]]
       /\ state0' = Min({State(sl'[s].state) : s \in Slaves})
       /\ Return(state0')
  /\ UNCHANGED <<lineVars, events, slow, ix, missed>>

(* ecx_writestate, to one slave or to all: nobody looks at the answer.     *)
writestate ==
  /\ pc = "writestate"
  /\ \E wkc \in Counters :
       FPWR(configadr, Requested(sl[ix].state), wkc) /\ Return(wkc)
  /\ UNCHANGED <<lineVars, events, slow, sl, state0, ix, missed>>

writestateAll ==
  /\ pc = "writeall"
  /\ \E wkc \in Counters :
       BWR(Requested(state0), wkc) /\ Goto("checkall")
  /\ UNCHANGED <<lineVars, events, slow, sl, state0, ix, ret, missed>>

(***************************************************************************)
(* ecx_statecheck: read until the requested state is there or the time is  *)
(* up.  The time is long: it runs out on a device that still has a request *)
(* to serve only MaxSlow times.                                            *)
(***************************************************************************)
TimeUp(hits) ==
  IF \E d \in hits : dev[d].want # None THEN slow < MaxSlow /\ Trouble /\ slow' = slow + 1
  ELSE UNCHANGED slow

ALStates == {0, INIT, PREOP, SAFEOP, OP}

Checked(place, reqstate, state) ==
  /\ pc = place
  /\ LET hits == Addressed(configadr) IN
     \E wkc \in Counters :
       /\ FPRD(configadr, wkc)
       /\ LET rval == Taken(wkc, hits, AlState, 0) IN
          /\ state = State(rval) /\ sl' = InState(ix, rval)
          /\ IF state = reqstate THEN UNCHANGED slow ELSE TimeUp(hits)
  /\ UNCHANGED <<lineVars, events, state0, ix, missed>>

recheck == \E st \in ALStates : Checked("recheck", OP, st) /\ Return(st)

checkAll ==
  /\ pc = "checkall"
  /\ \E wkc \in Counters :
       /\ BRD(wkc)
       /\ LET rval == IF wkc > 0 THEN OredStates ELSE 0 IN
          /\ State(rval) = state0 \/ TimeUp(Connected)
          /\ State(rval) = state0 => UNCHANGED slow
          /\ state0' = rval
          /\ Return(State(rval))
  /\ UNCHANGED <<lineVars, events, sl, ix, missed>>

(***************************************************************************)
(* ecx_recover_slave: a slave that lost its address is given a temporary   *)
(* one, compared with the slave configured at its place, and named again.  *)
(***************************************************************************)
Write(place, a, written, wkc) ==
  /\ pc = place /\ FPWR(a, written, wkc)
  /\ UNCHANGED <<lineVars, events, slow, state0, ix>>

recoverRead ==
  /\ pc = "recover"
  /\ \E wkc \in Counters :
       /\ APRD(ix, wkc)
       /\ LET readadr == Taken(wkc, At(ix), [d \in Devices |-> dev[d].adr], Nowhere) IN
          IF readadr = configadr THEN Return(1)
          ELSE IF wkc > 0 /\ readadr = 0 THEN Goto("clear") /\ UNCHANGED ret
          ELSE Return(0)
  /\ UNCHANGED <<lineVars, events, slow, sl, state0, ix, missed>>

(* A datagram to those at the temporary address that makes them nameless.  *)
Nameless == Named(0)

recoverClear ==
  \E w \in Counters : Write("clear", TEMP, Nameless, w) /\ Goto("temp") /\ Miss("name", w < 0) /\ UNCHANGED <<sl, ret>>

recoverName ==
  /\ pc = "temp"
  /\ \E wkc \in Counters :
       /\ APWR(ix, Named(TEMP), wkc)
       /\ IF wkc <= 0 THEN Goto("undo") /\ UNCHANGED sl
          ELSE Goto("alias") /\ sl' = [sl EXCEPT ![ix].configadr = TEMP]
  /\ UNCHANGED <<lineVars, events, slow, state0, ix, ret, missed>>

recoverUndo ==
  \E w \in Counters : Write("undo", TEMP, Nameless, w) /\ Return(0) /\ Miss("name", w <= 0) /\ UNCHANGED sl

AnyValue(word, read) == TRUE   \* a mutant

(* Compared with what the slave at this place was configured as.           *)
Same(word, read) == read = Identity[ix][word]

After(word) == CASE word = "alias" -> "id" [] word = "id" -> "man" [] word = "man" -> "rev" [] word = "rev" -> "rename"

(* The alias and three words of the EEPROM, each read on its own: one that *)
(* nobody answers counts as 0.                                             *)
recoverCompare ==
  \E word \in Words :
    /\ pc = word
    /\ \E wkc \in Counters :
         /\ FPRD(configadr, wkc)
         /\ LET read == Taken(wkc, Addressed(configadr), [d \in Devices |-> Identity[d][word]], 0) IN
            Goto(IF Same(word, read) THEN After(word) ELSE "remove")
         /\ Miss(word, wkc <= 0)
    /\ UNCHANGED <<lineVars, events, slow, sl, state0, ix, ret>>

BackToOwn == sl' = [sl EXCEPT ![ix].configadr = ix]

recoverRename ==
  \E w \in Counters : Write("rename", TEMP, Named(ix), w) /\ Return(w) /\ BackToOwn /\ Miss("name", w <= 0)

recoverRemove ==
  \E w \in Counters : Write("remove", TEMP, Nameless, w) /\ Return(0) /\ BackToOwn /\ Miss("name", w <= 0)

(***************************************************************************)
(* ecx_reconfig_slave: INIT, sync managers, PRE_OP, SAFE_OP, FMMUs.  Only  *)
(* the first write and the states read are looked at.                      *)
(***************************************************************************)
reconfigInit ==
  /\ pc = "reconfig"
  /\ \E wkc \in Counters :
       /\ FPWR(configadr, Requested(INIT), wkc)
       /\ IF wkc <= 0 THEN Return(0) ELSE Goto("await init") /\ UNCHANGED ret
  /\ UNCHANGED <<lineVars, events, slow, sl, state0, ix, missed>>

Onward(st, wanted, next) == IF st = wanted THEN Goto(next) /\ UNCHANGED ret ELSE Return(st)

awaitInit == \E st \in ALStates : Checked("await init", INIT, st) /\ Onward(st, INIT, "sm")

Unchecked(next) == Goto(next) /\ UNCHANGED <<sl, ret, missed>>

writeSM ==
  \E w \in Counters : Write("sm", configadr, [d \in Devices |-> [dev[d] EXCEPT !.sm = TRUE]], w) /\ Unchecked("delay")

(* 5 ms for the slave, which mostly suffice to serve what it was asked.    *)
delay ==
  /\ pc = "delay" /\ Goto("preop") /\ TimeUp(Addressed(configadr))
  /\ UNCHANGED <<lineVars, dev, events, losses, sl, state0, ix, ret, missed>>

requestPreop ==
  \E w \in Counters : Write("preop", configadr, Requested(PREOP), w) /\ Unchecked("await preop")
awaitPreop == \E st \in ALStates : Checked("await preop", PREOP, st) /\ Onward(st, PREOP, "safeop")
requestSafeop ==
  \E w \in Counters : Write("safeop", configadr, Requested(SAFEOP), w) /\ Unchecked("await safeop")

AfterSafeopOnly(st) == IF st = SAFEOP THEN "fmmu" ELSE "returned"   \* a mutant

AfterSafeop(st) == "fmmu"

awaitSafeop ==
  \E st \in ALStates : Checked("await safeop", SAFEOP, st) /\ Goto(AfterSafeop(st)) /\ ret' = st

writeFMMU ==
  \E w \in Counters :
    /\ Write("fmmu", configadr, [d \in Devices |-> [dev[d] EXCEPT !.fmmu = TRUE]], w)
    /\ Goto("returned") /\ Miss("fmmu", w <= 0) /\ UNCHANGED <<sl, ret>>

Control ==
  \/ readstateBroadcast \/ readstateEach \/ writestate \/ writestateAll \/ recheck \/ checkAll
  \/ recoverRead \/ recoverClear \/ recoverName \/ recoverUndo \/ recoverCompare
  \/ recoverRename \/ recoverRemove
  \/ reconfigInit \/ awaitInit \/ writeSM \/ delay \/ requestPreop \/ awaitPreop
  \/ requestSafeop \/ awaitSafeop \/ writeFMMU
=============================================================================
