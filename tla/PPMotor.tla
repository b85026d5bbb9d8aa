------------------------------- MODULE PPMotor -------------------------------
(***************************************************************************)
(* NormalMotorWithPPMode: one CiA 402 axis in profile-position mode.  The  *)
(* UI thread gives commands by writing request fields; the PDO thread      *)
(* reads them once per cycle in OnAfterPdoReceived, runs the move/homing   *)
(* state machine and writes the Controlword; the SDO worker carries out    *)
(* the parameter writes the machine queues, and answers in WriteStatus.    *)
(* No lock is held by anybody: a command is split where the PDO thread     *)
(* tells its writes apart, and the stop and the jog of a cycle where a      *)
(* command may come between.                                               *)
(*                                                                         *)
(* The SDO worker may be lost: its thread dies by an exception, another    *)
(* Datamap takes the motor's points away, or HandleNIC disposes it under   *)
(* the running PDO loop.  The motor keeps its reference to it.             *)
(*                                                                         *)
(* The drive may answer any Statusword in any cycle.  Its bits 12 and 13   *)
(* mean set-point acknowledged and following error, or homing attained and *)
(* homing error.                                                           *)
(*                                                                         *)
(* Data is abstracted to what the machine tells apart.  A profile is only  *)
(* "not zero" and "dirty"; of targets and jog directions nothing is kept;  *)
(* WriteStatus is kept for the object being waited for, the only one that  *)
(* is read (MarkWritePending sets it before the wait begins).  Left out:   *)
(* the bits that follow the command (relative, change at once), the words  *)
(* that bring a servo up or down, the fault-reset pulse, the servo I/O     *)
(* display, the fixed torque and speed limits, and _pdoModeCommand, which   *)
(* the cycle only copies into the output image.                            *)
(***************************************************************************)
EXTENDS Naturals, Sequences, FiniteSets, SequencesExt

CONSTANTS
  ProfileObjects,  \* the objects of a profile in writing order: 6081, 6083, 6084
  HomeObjects,     \* 6098, 6099:1, 6099:2, 609A, 607C
  ModeObject,      \* 6060
  TargetObject,    \* 607A, written only through the RxPDO
  Mappings,        \* which of these objects a drive can have in its RxPDO
  Capacity         \* of the SDO worker's queue

ASSUME ObjectsAssumption ==
  /\ ProfileObjects \in Seq(Range(ProfileObjects)) /\ ProfileObjects # <<>>
  /\ \A i, j \in DOMAIN ProfileObjects : ProfileObjects[i] = ProfileObjects[j] => i = j
  /\ HomeObjects \in Seq(Range(HomeObjects))
  /\ ModeObject \notin Range(ProfileObjects) \cup Range(HomeObjects)
  /\ Range(ProfileObjects) \cap Range(HomeObjects) = {}
ASSUME MappingsAssumption ==
  /\ TargetObject \notin {ModeObject} \cup Range(ProfileObjects) \cup Range(HomeObjects)
  /\ \A M \in Mappings : M \subseteq {ModeObject, TargetObject} \cup Range(ProfileObjects)
ASSUME MotorCapacityAssumption == Capacity \in Nat \ {0}

VARIABLES
  mapped, bound,    \* the RxPDO mapping; have the SDO hot references been bound?
  profiled, dirty,  \* are the _profile fields set? _profileDirty
  motion, halt,     \* _motion, _haltActive
  req,              \* _reqMove, _reqStop, _jogActive with _jogDirection
  call,             \* what the UI thread is in the middle of
  state, chain, at, \* _moveState; in "Queue" and "Wait", which write of which chain
  thenFault,        \* _homeRestoreThenFault
  cycle, sw,        \* where the PDO thread is in its cycle; its Statusword
  cw,               \* NewSetPoint and Halt in the Controlword of the output image
  status, jobs,     \* WriteStatus of the object waited for; the SDO worker's queue
  writer            \* _sdoWorker: "none", "up", "blind", "dead" or "disposed"

vars == <<mapped, bound, profiled, dirty, motion, halt, req, call, state, chain, at, thenFault,
          cycle, sw, cw, status, jobs, writer>>
machine == <<state, chain, at>>
sdoVars == <<status, jobs, writer>>
driveVars == <<mapped, bound, sw>>

ProfileSet == Range(ProfileObjects)
Objects == {ModeObject} \cup ProfileSet \cup Range(HomeObjects)
Chain(c) == CASE c = "profile" -> ProfileObjects
              [] c = "home" -> <<ModeObject>> \o HomeObjects
              [] c = "restore" -> <<ModeObject>>

Init ==
  /\ mapped \in Mappings /\ bound \in BOOLEAN
  /\ profiled = FALSE /\ dirty = TRUE
  /\ motion = "None" /\ halt = FALSE
  /\ req = [move |-> FALSE, stop |-> FALSE, jog |-> FALSE]
  /\ call = "none"
  /\ state = "Idle" /\ chain = "profile" /\ at = 1
  /\ thenFault = FALSE
  /\ cycle = "start" /\ sw = "off"
  /\ cw = [start |-> FALSE, halt |-> FALSE]
  /\ status = "Pending" /\ jobs = <<>> /\ writer = "none"

-----------------------------------------------------------------------------
(* The commands, on the UI thread.  One that is turned away does nothing.  *)

IsServoOn == sw = "on"
IsError == sw = "fault"

UiFrame == UNCHANGED <<driveVars, machine, thenFault, cycle, cw, sdoVars>>
Goes(from, to) == call = from /\ call' = to /\ cycle # "crashed"
Ask(r) == req' = r

SetProfile ==
  /\ Goes("none", "none")
  /\ profiled' = TRUE /\ dirty' = TRUE
  /\ UNCHANGED <<motion, halt, req>> /\ UiFrame

(* MoveABS, MoveINC: the target and the motion, and _reqMove last. *)
Move ==
  /\ profiled /\ state = "Idle" /\ ~req.move
  /\ Goes("none", "ReqMove")
  /\ motion' = "Move"
  /\ UNCHANGED <<profiled, dirty, halt, req>> /\ UiFrame

Home ==
  /\ IsServoOn /\ state = "Idle" /\ ~req.move
  /\ Goes("none", "SetHome")
  /\ Ask([req EXCEPT !.jog = FALSE]) /\ halt' = FALSE
  /\ UNCHANGED <<profiled, dirty, motion>> /\ UiFrame

SetHome ==
  /\ Goes("SetHome", "ReqMove")
  /\ motion' = "Home"
  /\ UNCHANGED <<profiled, dirty, halt, req>> /\ UiFrame

ReqMove ==
  /\ Goes("ReqMove", "none")
  /\ Ask([req EXCEPT !.move = TRUE])
  /\ UNCHANGED <<profiled, dirty, motion, halt>> /\ UiFrame

(* JogPlus, JogMinus *)
Jog ==
  /\ profiled /\ IsServoOn
  /\ Goes("none", "none")
  /\ Ask([req EXCEPT !.jog = TRUE]) /\ motion' = "Jog"
  /\ UNCHANGED <<profiled, dirty, halt>> /\ UiFrame

(* Stop and QuickStop, the button and the release of a jog button. *)
Stop ==
  /\ Goes("none", "none")
  /\ Ask([req EXCEPT !.jog = FALSE, !.stop = TRUE])
  /\ UNCHANGED <<profiled, dirty, motion, halt>> /\ UiFrame

ServoOn ==
  /\ ~IsError
  /\ Goes("none", "none")
  /\ Ask([req EXCEPT !.stop = FALSE, !.jog = FALSE]) /\ halt' = FALSE
  /\ UNCHANGED <<profiled, dirty, motion>> /\ UiFrame

ServoOff ==
  /\ Goes("none", "none")
  /\ Ask([req EXCEPT !.jog = FALSE])
  /\ UNCHANGED <<profiled, dirty, motion, halt>> /\ UiFrame

-----------------------------------------------------------------------------
(* OnAfterPdoReceived.  The Statusword of a cycle is chosen when the cycle  *)
(* before ends; then comes the stop request, if there is one.               *)

StopFrame == UNCHANGED <<driveVars, profiled, dirty, call, cw, sdoVars>>

(* if (_reqStop): first the requests are dropped and the axis is halted ... *)
StopRequest ==
  /\ cycle = "start" /\ req.stop /\ cycle' = "stopped"
  /\ Ask([move |-> FALSE, stop |-> FALSE, jog |-> FALSE]) /\ halt' = TRUE
  /\ UNCHANGED <<motion, machine, thenFault>> /\ StopFrame

(* The states: of the machine itself, and the first write of a chain. *)
At(s) == state' = s /\ chain' = "profile" /\ at' = 1
AtWrite(s, c, i) == state' = s /\ chain' = c /\ at' = i
Enter(c) == AtWrite("Queue", c, 1)

(* ... then the machine leaves what it was in; from homing through PP mode. *)
StopState ==
  /\ cycle = "stopped" /\ cycle' = "machine"
  /\ IF motion = "Home"
     THEN Enter("restore") /\ thenFault' = FALSE /\ UNCHANGED motion
     ELSE At("Idle") /\ motion' = "None" /\ UNCHANGED thenFault
  /\ UNCHANGED <<halt, req>> /\ StopFrame

-----------------------------------------------------------------------------
(* ProcessMoveAbsStateMachine: one step ends the cycle with a Controlword.  *)

Write(start, halted) ==
  /\ cw' = [start |-> start, halt |-> halted]
  /\ cycle' = "start" /\ sw' \in {"off", "on", "fault"}
  /\ UNCHANGED <<mapped, bound, profiled, call>>

(* A fault of the drive takes every state but Idle to Fault. *)
InMachine == cycle = "machine" \/ (cycle = "start" /\ ~req.stop)
InState(s) == InMachine /\ state = s /\ ~(IsError /\ s # "Idle")
InFault == InMachine /\ (state = "Fault" \/ (IsError /\ state # "Idle"))

DoneOrFault ==
  /\ InState("Done") \/ InFault
  /\ motion' = "None" /\ thenFault' = FALSE /\ At("Idle")
  /\ Write(FALSE, halt)
  /\ UNCHANGED <<dirty, halt, req, sdoVars>>

(* The first state of what was asked for. *)
Start ==
  IF writer = "none" \/ ~IsServoOn THEN At("Fault") /\ UNCHANGED thenFault
  ELSE IF motion = "Home" THEN Enter("home") /\ thenFault' = FALSE
  ELSE /\ IF dirty THEN Enter("profile") ELSE At("QueuePdoStart")
       /\ UNCHANGED thenFault

(* A jog asks for a move when nothing else has. *)
Idle ==
  /\ InState("Idle")
  /\ IF req.move \/ req.jog
     THEN Ask([req EXCEPT !.move = FALSE]) /\ Start
     ELSE UNCHANGED <<req, thenFault, machine>>
  /\ Write(FALSE, halt)
  /\ UNCHANGED <<dirty, motion, halt, sdoVars>>

(* The object to write, and the way on once it has been written. *)
Object == Chain(chain)[at]
AtEnd == at = Len(Chain(chain))

Restored == chain = "restore" /\ Object \notin mapped

AfterChain == CASE chain = "profile" -> "QueuePdoStart"
                [] chain = "home" -> "QueuePdoHomeStart"
                [] chain = "restore" -> IF thenFault /\ Restored THEN "Fault" ELSE "Done"

Written ==
  /\ IF AtEnd THEN At(AfterChain) ELSE AtWrite("Queue", chain, at + 1)
  /\ dirty' = (dirty /\ ~(chain = "profile" /\ AtEnd))      \* MarkProfileApplied
  /\ motion' = IF Restored THEN "None" ELSE motion
  /\ thenFault' = (thenFault /\ ~Restored)

NotWritten == UNCHANGED <<dirty, motion, thenFault>>

(* TryWriteRxPdoU32: into the output image when the object is mapped. *)
QueueInPdo ==
  /\ Object \in mapped
  /\ Written /\ UNCHANGED sdoVars

(* TryQueueWrite*: through the SDO worker, whose full queue makes the PDO   *)
(* thread wait.  A worker whose thread is dead takes writes as ever.        *)
QueueToWorker ==
  /\ Object \notin mapped /\ bound /\ writer \in {"up", "blind", "dead"} /\ Len(jobs) < Capacity
  /\ status' = "Pending" /\ jobs' = Append(jobs, Object) /\ UNCHANGED writer
  /\ AtWrite("Wait", chain, at) /\ NotWritten

QueueUnbound ==
  /\ Object \notin mapped /\ (~bound \/ writer = "none")
  /\ At("Fault") /\ NotWritten /\ UNCHANGED sdoVars

(* The Queue... states *)
Queue ==
  /\ InState("Queue")
  /\ QueueInPdo \/ QueueToWorker \/ QueueUnbound
  /\ Write(FALSE, halt)
  /\ UNCHANGED <<halt, req>>

(* A disposed worker throws ObjectDisposedException, which nothing on the   *)
(* PDO thread catches: the process ends.                                    *)
QueueThrows ==
  /\ InState("Queue") /\ Object \notin mapped /\ bound /\ writer = "disposed"
  /\ cycle' = "crashed" /\ status' = "Pending"
  /\ UNCHANGED <<driveVars, profiled, dirty, motion, halt, req, call, machine, thenFault, cw, jobs, writer>>

(* Mutant: only an error keeps the machine from going on. *)
WaitHasty ==
  /\ InState("Wait")
  /\ IF status = "Error" THEN At("Fault") /\ NotWritten ELSE Written
  /\ Write(FALSE, halt)
  /\ UNCHANGED <<halt, req, sdoVars>>

(* The Wait... states look at WriteStatus only. *)
Wait ==
  /\ InState("Wait")
  /\ \/ status = "Pending" /\ UNCHANGED machine /\ NotWritten
     \/ status = "Error" /\ At("Fault") /\ NotWritten
     \/ status = "Ok" /\ Written
  /\ Write(FALSE, halt)
  /\ UNCHANGED <<halt, req, sdoVars>>

MoveFrame == UNCHANGED <<dirty, motion, thenFault, req, sdoVars>>

(* Mutant: only the Halt bit is cleared, and the flag brings it back. *)
QueuePdoStartHalted ==
  /\ InState("QueuePdoStart")
  /\ IF IsServoOn THEN At("WaitSetPointAck") /\ Write(TRUE, FALSE)
     ELSE UNCHANGED machine /\ Write(FALSE, halt)
  /\ UNCHANGED halt /\ MoveFrame

(* The new target and the rising edge of NewSetPoint; it ends a halt. *)
QueuePdoStart ==
  /\ InState("QueuePdoStart")
  /\ IF ~IsServoOn
     THEN UNCHANGED <<halt, machine>> /\ Write(FALSE, halt)
     ELSE IF TargetObject \notin mapped
     THEN At("Fault") /\ Write(FALSE, halt) /\ UNCHANGED halt
     ELSE At("WaitSetPointAck") /\ halt' = FALSE /\ Write(TRUE, FALSE)
  /\ MoveFrame

WaitSetPointAck ==
  /\ InState("WaitSetPointAck")
  /\ At("WaitSetPointAck") \/ At("WaitSetPointAckClear")
  /\ Write(TRUE, halt) /\ UNCHANGED halt
  /\ MoveFrame

WaitSetPointAckClear ==
  /\ InState("WaitSetPointAckClear") /\ ~req.jog
  /\ At("WaitSetPointAckClear") \/ At("WaitTargetReached")
  /\ Write(FALSE, halt) /\ UNCHANGED halt
  /\ MoveFrame

(* A jog goes on with its next set-point without waiting for the drive:     *)
(* _jogActive is read first ...                                             *)
SeeJog ==
  /\ InState("WaitSetPointAckClear") /\ req.jog
  /\ cycle' = "jog"
  /\ UNCHANGED <<driveVars, profiled, dirty, motion, halt, req, call, machine, thenFault, cw, sdoVars>>

(* ... and _jogDirection next, which is 0 when a command came between.      *)
NextJog ==
  /\ cycle = "jog" /\ state = "WaitSetPointAckClear"
  /\ At(IF req.jog THEN "QueuePdoStart" ELSE "Done")
  /\ Write(FALSE, halt) /\ UNCHANGED halt
  /\ MoveFrame

WaitTargetReached ==
  /\ InState("WaitTargetReached")
  /\ At("WaitTargetReached") \/ At("Done")
  /\ Write(FALSE, halt) /\ UNCHANGED halt
  /\ MoveFrame

QueuePdoHomeStart ==
  /\ InState("QueuePdoHomeStart")
  /\ IF IsServoOn THEN At("WaitHomeComplete") /\ Write(TRUE, FALSE)
     ELSE UNCHANGED machine /\ Write(FALSE, halt)
  /\ UNCHANGED halt /\ MoveFrame

(* Homing goes on, is attained, or has failed. *)
WaitHomeComplete ==
  /\ InState("WaitHomeComplete")
  /\ \/ UNCHANGED <<machine, thenFault>> /\ Write(TRUE, halt)
     \/ Enter("restore") /\ thenFault' \in BOOLEAN /\ Write(FALSE, halt)
  /\ UNCHANGED <<dirty, motion, halt, req, sdoVars>>

-----------------------------------------------------------------------------
RestFrame == UNCHANGED <<driveVars, profiled, dirty, motion, halt, req, call, machine,
                         thenFault, cycle, cw>>

(* Mutant: a transfer that fails leaves WriteStatus at Pending. *)
SdoDoneSilent ==
  /\ writer = "up" /\ jobs # <<>> /\ jobs' = Tail(jobs)
  /\ status' \in IF state = "Wait" /\ Object = Head(jobs) THEN {"Ok", status} ELSE {status}
  /\ UNCHANGED writer /\ RestFrame

(* SDOSubWorker carries out the oldest write, which may fail. *)
SdoDone ==
  /\ writer = "up" /\ jobs # <<>> /\ jobs' = Tail(jobs)
  /\ status' \in IF state = "Wait" /\ Object = Head(jobs) THEN {"Ok", "Error"} ELSE {status}
  /\ UNCHANGED writer /\ RestFrame

(* AttachSdoWorker, the first time.  Later workers go to the motors of the  *)
(* new Datamap, which holds none yet.                                       *)
AttachSdoWorker ==
  /\ writer = "none" /\ Goes("none", "none") /\ writer' = "up"
  /\ UNCHANGED <<driveVars, profiled, dirty, motion, halt, req, machine, thenFault, cycle, cw,
                 status, jobs>>

(* Datamap.Init while the worker lives: a write finds no slave or a new     *)
(* SDOStore, and the point the motor looks at keeps its status.             *)
DatamapReplaced ==
  /\ writer = "up" /\ Goes("none", "none") /\ writer' = "blind"
  /\ UNCHANGED <<driveVars, profiled, dirty, motion, halt, req, machine, thenFault, cycle, cw,
                 status, jobs>>

SdoSkipped ==
  /\ writer = "blind" /\ jobs # <<>> /\ jobs' = Tail(jobs)
  /\ UNCHANGED <<status, writer>> /\ RestFrame

(* An exception ends the worker's thread, in a write of this axis or in     *)
(* another's.                                                               *)
WorkerDies ==
  /\ writer \in {"up", "blind"} /\ cycle # "crashed" /\ writer' = "dead"
  /\ jobs' = jobs \/ (jobs # <<>> /\ jobs' = Tail(jobs))
  /\ UNCHANGED status /\ RestFrame

(* HandleNIC: the writes still queued are dropped with the worker.          *)
WorkerDisposed ==
  /\ writer \in {"up", "blind", "dead"} /\ Goes("none", "none")
  /\ writer' = "disposed" /\ jobs' = <<>>
  /\ UNCHANGED <<driveVars, profiled, dirty, motion, halt, req, machine, thenFault, cycle, cw,
                 status>>

-----------------------------------------------------------------------------
Command == SetProfile \/ Move \/ Home \/ Jog \/ Stop \/ ServoOn \/ ServoOff
CommandGoesOn == SetHome \/ ReqMove
Cycle ==
  \/ StopRequest \/ StopState \/ DoneOrFault \/ Idle \/ Queue \/ QueueThrows \/ Wait
  \/ QueuePdoStart \/ WaitSetPointAck \/ WaitSetPointAckClear \/ SeeJog \/ NextJog
  \/ WaitTargetReached \/ QueuePdoHomeStart \/ WaitHomeComplete
Lost == DatamapReplaced \/ SdoSkipped \/ WorkerDies \/ WorkerDisposed

Next == Command \/ CommandGoesOn \/ Cycle \/ SdoDone \/ AttachSdoWorker \/ Lost

Spec == Init /\ [][Next]_vars

(* The PDO loop cycles, the SDO worker works while it is there, and a       *)
(* command goes on.                                                         *)
Fairness == WF_vars(Cycle) /\ WF_vars(SdoDone) /\ WF_vars(CommandGoesOn)
FairSpec == Spec /\ Fairness

-----------------------------------------------------------------------------
(* A history variable: how many chains of profile writes were broken off by *)
(* a stop, a fault or an error while their writes were in the SDO worker's  *)
(* queue, since no profile write was in it; 2 stands for more.              *)
VARIABLE broken

Started == {"WaitSetPointAck", "WaitSetPointAckClear", "WaitTargetReached"}
Moving == state \in Started \cup {"QueuePdoStart"}
ProfileJobs == Range(jobs) \cap ProfileSet

BreaksOff ==
  state = "Wait" /\ chain = "profile" /\ (state' \in {"Idle", "Fault"} \/ chain' # "profile")
Track ==
  broken' = CASE ProfileJobs' = {} -> 0
              [] ProfileJobs' # {} /\ BreaksOff /\ broken < 2 -> broken + 1
              [] OTHER -> broken

HistoryInit == Init /\ broken = 0
HistorySpec == HistoryInit /\ [][Next /\ Track]_<<vars, broken>> /\ Fairness

-----------------------------------------------------------------------------
(* Writes of a stopped move stay in the SDO worker's queue and set the same *)
(* WriteStatus as those of the next, which goes on when the older one has   *)
(* ended (WaitWrite6081 to WaitWrite6084).  One chain that was broken off   *)
(* does no harm when the drive takes its profile by two SDO writes or more: *)
(* their order makes sure that none is left when the move begins.  Two do.  *)
NoProfileWriteWhileMoving ==
  Moving /\ (broken = 0 \/ (broken = 1 /\ Cardinality(ProfileSet \ mapped) > 1)) => ProfileJobs = {}

(* A halt that Stop has asked for and a set-point under way exclude each    *)
(* other, whatever commands come between; the rest of the cycle that takes  *)
(* the stop away ends the move.                                             *)
MoveNotHalted == state \in Started /\ halt => cycle = "stopped"

(* A wait for an SDO write ends as long as the worker is there (the write   *)
(* may fail, and older writes of the same object may answer in its place)   *)
(* or a Stop is asked for.  Only once the worker is lost (its thread dead,  *)
(* the Datamap replaced, or disposed by HandleNIC) the WriteStatus stays    *)
(* Pending and the Wait state, which has no time limit, hangs until Stop    *)
(* ends it (WaitWrite6081 and the like, _reqStop).                          *)
Hanging == writer # "up" /\ ~req.stop
WaitsEnd == state = "Wait" ~> state # "Wait" \/ Hanging
=============================================================================
