---------------------------- MODULE CheckThread ----------------------------
(***************************************************************************)
(* The callers of SlaveControl: the thread that watches a running segment  *)
(* and brings lost slaves back (ecatcheck in samples/ec_sample), or a      *)
(* program that moves the whole segment through states (soem_set_state).   *)
(***************************************************************************)
EXTENDS SlaveControl

CONSTANTS
  Plans,   \* <<>> for the check thread, else the states the program asks for
  Data     \* the process data of each slave

ASSUME PlanAssumption ==
  /\ \A p \in Plans : p \in Seq({INIT, PREOP, SAFEOP, OP})
  /\ Data \in [Slaves -> {"none", "inputs", "outputs"}]

VARIABLES
  plan,      \* states still to be asked for
  checking,  \* the caller is the check thread
  docheck,   \* grouplist[].docheckstate
  stage      \* what the caller has called

vars == <<segmentVars, controlVars, plan, checking, docheck, stage>>
outsideCaller == <<segmentVars, state0, missed, plan, checking>>

Running(al) == [s \in Slaves |-> [adr |-> s, al |-> al, want |-> None, sm |-> TRUE, fmmu |-> TRUE]]

Init ==
  /\ plan \in Plans /\ checking = (plan = <<>>)
  /\ places = [s \in Slaves |-> s] /\ reach = Cardinality(Slaves)
  /\ dev = [d \in Devices |-> IF d \in Slaves THEN Running(IF checking THEN OP ELSE PREOP)[d] ELSE Fresh]
  /\ events = 0 /\ losses = 0 /\ slow = 0 /\ missed = {}
  /\ sl = [s \in Slaves |-> [state |-> IF checking THEN OP ELSE PREOP, configadr |-> s, islost |-> FALSE]]
  /\ state0 = IF checking THEN OP ELSE PREOP
  /\ ix = 1 /\ pc = "idle" /\ ret = 0 /\ docheck = FALSE /\ stage = "none"

(* The device that answers for a slave is in OP and exchanges its data.    *)
AtWork(s) == \E d \in Addressed(s) : dev[d].al = OP /\ dev[d].fmmu

(* A slave adds its share to the working counter of the process data:      *)
(* inputs are read in SAFE_OP too, even with an error, outputs are written *)
(* in OP only, and without process data nothing is missed.                 *)
Counted(s) ==
  CASE Data[s] = "none" -> TRUE
    [] Data[s] = "inputs" -> \E d \in Addressed(s) : State(dev[d].al) \in {SAFEOP, OP} /\ dev[d].fmmu
    [] Data[s] = "outputs" -> AtWork(s)

Call(place) == pc' = place /\ stage' = place

CheckNow ==
  /\ checking /\ pc = "idle"
  /\ docheck' = FALSE /\ Call("readstate")

(* The working counter has been wrong for some cycles, or a check is due.  *)
Check ==
  /\ docheck \/ \E s \in Slaves : ~Counted(s)
  /\ CheckNow
  /\ UNCHANGED <<outsideCaller, sl, ix, ret>>

(* It was wrong because three exchanges were lost (counted as one loss).   *)
CheckAfterLoss ==
  /\ CheckNow
  /\ losses < MaxLoss /\ Trouble /\ losses' = losses + 1
  /\ UNCHANGED <<lineVars, dev, events, slow, sl, state0, ix, ret, missed, plan, checking>>

Unacknowledged == SAFEOP   \* a mutant

Acknowledged == SAFEOP + ERROR   \* EC_STATE_SAFE_OP + EC_STATE_ACK

Examine ==
  /\ pc = "examine"
  /\ LET st == sl[ix].state IN
     /\ docheck' = (docheck \/ st # OP)
     /\ CASE st = OP -> Goto("tail") /\ UNCHANGED <<sl, stage>>
          [] st = SAFEOP + ERROR -> Call("writestate") /\ sl' = InState(ix, Acknowledged)
          [] st = SAFEOP -> Call("writestate") /\ sl' = InState(ix, OP)
          [] st > None /\ st \notin {OP, SAFEOP, SAFEOP + ERROR} -> Call("reconfig") /\ UNCHANGED sl
          [] st = None /\ ~sl[ix].islost -> Call("recheck") /\ UNCHANGED sl
          [] st = None /\ sl[ix].islost -> Goto("tail") /\ UNCHANGED <<sl, stage>>
  /\ UNCHANGED <<outsideCaller, ix, ret>>

Lost(is) == [sl EXCEPT ![ix].islost = is]

Resume ==
  /\ checking /\ pc = "returned"
  /\ CASE stage = "readstate" -> ix' = 1 /\ Goto("examine") /\ UNCHANGED sl
       [] stage = "writestate" -> Goto("tail") /\ UNCHANGED <<sl, ix>>
       [] stage = "reconfig" ->
            Goto("tail") /\ UNCHANGED ix /\ sl' = IF ret >= PREOP THEN Lost(FALSE) ELSE sl
       [] stage = "recheck" ->
            Goto("tail") /\ UNCHANGED ix /\ sl' = IF sl[ix].state = None THEN Lost(TRUE) ELSE sl
       [] stage = "recover" ->
            Goto("next") /\ UNCHANGED ix /\ sl' = IF ret # 0 THEN Lost(FALSE) ELSE sl
  /\ UNCHANGED <<outsideCaller, docheck, stage, ret>>

MayHaveLostName(st) == st <= INIT

AfterExamine ==
  /\ pc = "tail"
  /\ IF ~sl[ix].islost THEN Goto("next") /\ UNCHANGED <<sl, stage>>
     ELSE IF MayHaveLostName(sl[ix].state) THEN Call("recover") /\ UNCHANGED sl
     ELSE Goto("next") /\ sl' = Lost(FALSE) /\ UNCHANGED stage
  /\ UNCHANGED <<outsideCaller, docheck, ix, ret>>

NextSlave ==
  /\ pc = "next"
  /\ IF ix + 1 \in Slaves THEN ix' = ix + 1 /\ Goto("examine") ELSE ix' = 1 /\ Goto("idle")
  /\ UNCHANGED <<outsideCaller, docheck, stage, sl, ret>>

(* soem_set_state: success is the state asked for.                         *)
SetState ==
  /\ ~checking /\ pc = "idle" /\ plan # <<>>
  /\ state0' = Head(plan) /\ Call("writeall")
  /\ UNCHANGED <<segmentVars, missed, plan, checking, docheck, sl, ix, ret>>

(* After a failure the program reads the states of all slaves once more    *)
(* and reports them (DumpSlaveStates).                                     *)
ReadState == Call("readstate")

SlaveState(i) == IF i \in Slaves THEN sl[i].state ELSE None   \* soem_slave_state

StateSet ==
  /\ ~checking /\ pc = "returned" /\ stage = "writeall"
  /\ IF ret = Head(plan)
     THEN plan' = Tail(plan) /\ Goto("idle") /\ UNCHANGED stage
     ELSE plan' = <<>> /\ ReadState
  /\ UNCHANGED <<segmentVars, missed, state0, checking, docheck, sl, ix, ret>>

StatesDumped ==
  /\ ~checking /\ pc = "returned" /\ stage = "readstate" /\ Goto("idle")
  /\ UNCHANGED <<outsideCaller, docheck, stage, sl, ix, ret>>

Caller == Check \/ Examine \/ Resume \/ AfterExamine \/ NextSlave \/ SetState \/ StateSet
  \/ StatesDumped

callerVars == <<plan, checking, docheck, stage>>

Master == Caller \/ (Control /\ UNCHANGED callerVars)
Environment == (Device \/ Outside) /\ UNCHANGED <<controlVars, callerVars>>
World == Environment \/ CheckAfterLoss

Next == Master \/ World

Spec == Init /\ [][Next]_vars

(* The thread keeps running and a device serves what it was asked.         *)
FairSpec ==
  /\ Spec /\ WF_vars(Master)
  /\ \A d \in Devices : WF_vars(Serve(d) /\ UNCHANGED <<controlVars, callerVars>>)

-----------------------------------------------------------------------------
(* What the master may believe of its slaves, and whether they come back. *)

(* A station address belongs to one device of the segment, and a device    *)
(* that has the address of a slave is the one configured there             *)
(* (ecx_recover_slave): alias, product, manufacturer and revision are its  *)
(* own.  Not so after a write that takes a temporary address back or gives *)
(* the own one was not answered, and not for a word that could not be read *)
(* and is 0 in the configured slave: unread is 0, which is then accepted   *)
(* whatever the device has there.                                          *)
AddressIsRight ==
  "name" \notin missed =>
    \A s \in Slaves :
      /\ Cardinality(Addressed(s)) <= 1
      /\ \A d \in Addressed(s), w \in Words :
           Identity[d][w] = Identity[s][w] \/ (w \in missed /\ Identity[s][w] = 0)

(* A device in OP under a slave's address has its FMMUs, unless nobody     *)
(* answered when they were written (ecx_reconfig_slave looks at the state  *)
(* of the slave and not at that answer) or an address went to two devices, *)
(* where the one that was off the line then is never configured; whatever  *)
(* the slave and the line do in between.                                   *)
OpIsMapped ==
  missed \cap {"name", "fmmu"} = {} =>
    \A s \in Slaves : \A d \in Addressed(s) : dev[d].al = OP => dev[d].fmmu

(* What the master believes is so: ecx_readstate reports OP for a slave    *)
(* only while the device with its address is in OP, unless one address was *)
(* given away twice; and soem_set_state succeeds only when everybody       *)
(* still on the line is in the state.                                      *)
ReportIsTrue ==
  [][/\ pc \in {"readstate", "readall"} /\ "name" \notin missed =>
          \A s \in Slaves :
            SlaveState(s) # OP /\ SlaveState(s)' = OP => \E d \in Addressed(s) : dev[d].al = OP
     /\ pc = "checkall" /\ pc' = "returned" /\ ret' = state0 =>
          \A d \in Connected : State(dev[d].al) = state0]_vars

(* A slave that is back at its place with its identity comes to work again *)
(* (ecatcheck).  Not so after an unanswered write of a name or of FMMUs;   *)
(* not when all slaves restart between two checks: they answer INIT        *)
(* together, ecx_readstate looks no further, and nobody is missed; and not *)
(* while the working counter is right without the slave, which nobody then *)
(* examines: one that has no process data, or has only inputs and left OP  *)
(* with an error.                                                          *)
Recoverable(s) == s <= reach /\ Identity[places[s]] = Identity[s]

Overlooked(s) ==
  /\ \A d \in Connected : dev[d].al = INIT
  /\ dev[places[s]].adr = 0 /\ ~sl[s].islost

Unnoticed == \A s \in Slaves : Counted(s)

Recovery ==
  checking => <>[](\A s \in Slaves : Recoverable(s) =>
                     \/ AtWork(s) \/ Overlooked(s) \/ Unnoticed
                     \/ missed \cap {"name", "fmmu"} # {})
=============================================================================
