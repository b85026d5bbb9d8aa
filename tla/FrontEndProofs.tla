--------------------------- MODULE FrontEndProofs ---------------------------
(***************************************************************************)
(* The safety of the front end's state machine, of a motor axis, and of    *)
(* the error list that the front end's threads share through the wrapper.  *)
(*                                                                         *)
(* The state machine, for any number of PDO workers: a loop is started at  *)
(* the end of a step to OP.  Such a step begins only from SAFE-OP and only *)
(* while the target is OP, so before Shutdown, when no loop runs; none     *)
(* starts on its way; and once Shutdown has set the target to INIT, the    *)
(* one step to OP that may be under way is the last.                       *)
(*                                                                         *)
(* The axis, for every profile, homing table, PDO mapping and SDO queue    *)
(* size: see the second part.  The error list, for every size of the ring, *)
(* any number of threads and transfers of any length: see the third.       *)
(***************************************************************************)
EXTENDS Automation, PPMotor, Wrapper, FiniteSetTheorems, SequenceTheorems, TLAPS

-----------------------------------------------------------------------------
(* The state machine.                                                      *)
ToOp == {"create", "bind", "start", "run", "spawn"}

AutomationTypes ==
  /\ worker \in Workers \cup {Null}
  /\ loop \in [Workers -> {"none", "alive", "dead"}]
  /\ current \in Sequence /\ target \in Sequence /\ hop \in Sequence
  /\ apc \in {"run", "spawn", "join"} => aw \in Workers

NoLoop == \A w \in Workers : ~Alive(w)

(* Where the automation thread is tells the step that is under way.        *)
StepInv ==
  /\ apc \in ToOp => hop = "Op"
  /\ apc \in {"run", "spawn"} => bus = "Op"
  /\ apc = "start" => bus = "Op"
  /\ apc = "map" => hop = "SafeOp" /\ current = "PreOp"

(* Shutdown asks for INIT first of all, and nobody asks after it.          *)
ClosingInv ==
  /\ upc \in {"await", "stop", "join", "clear", "off", "wake", "jointhread", "done"} => closing
  /\ closing => target = "Init" /\ upc # "idle"

(* On the way to OP no loop runs.                                          *)
RiseInv == hop = "Op" /\ apc \in ToOp \cup {"stop", "join", "clear", "ensure"} => NoLoop

(* Before Shutdown's StopPdoWorker.                                        *)
HeldInv ==
  ~StopBegun =>
    /\ \A w \in Workers : Alive(w) =>
         /\ w = worker /\ bus = "Op"
         /\ current = "Op" \/ (apc = "set" /\ hop = "Op")
    /\ apc \in {"clear", "ensure", "map"} => NoLoop
    /\ apc = "set" /\ hop # "Op" => NoLoop
    /\ apc \in {"join", "clear", "run", "spawn"} => aw = worker
    /\ apc \in {"bind", "start"} => worker # Null
    /\ apc = "ensure" /\ hop = "Op" => worker # Null
    /\ apc # "crashed"

AutomationInv == AutomationTypes /\ StepInv /\ ClosingInv /\ RiseInv /\ OnePdoLoop /\ HeldInv

-----------------------------------------------------------------------------
LEMMA InitAutomationInv == AutomationInit => AutomationInv
BY WorkersAssumption
DEF AutomationInit, AutomationInv, AutomationTypes, StepInv, ClosingInv, RiseInv, OnePdoLoop, HeldInv, NoLoop, Alive,
    StopBegun, ToOp, Sequence

(* The steps of the automation thread. *)
LEMMA AutomationStep == AutomationInv /\ AutomationThread => AutomationInv'
<1> SUFFICES ASSUME AutomationInv, AutomationThread PROVE AutomationInv'
  OBVIOUS
<1> USE WorkersAssumption
    DEF AutomationInv, AutomationTypes, StepInv, ClosingInv, RiseInv, OnePdoLoop, HeldInv, NoLoop, Alive,
        StopBegun, ToOp, Sequence, requestVars, pdoVars, uiVars, Goto
<1>1. CASE Wake
  BY <1>1 DEF Wake
<1>2. CASE Outer
  BY <1>2 DEF Outer
\* A step to OP begins in SAFE-OP with target OP: not yet closing, so HeldInv says that no loop runs.
<1>3. CASE NextStep
  BY <1>3 DEF NextStep, Toward, FirstStep
<1>4. CASE Map
  BY <1>4 DEF Map, Failed
<1>5. CASE EnsureOk
  BY <1>5 DEF EnsureOk
<1>6. CASE EnsureFails
  BY <1>6 DEF EnsureFails, Failed
<1>7. CASE SetCurrentState
  BY <1>7 DEF SetCurrentState
\* Before Shutdown no loop runs when the field is null.
<1>8. CASE StopPdo
  BY <1>8 DEF StopPdo, AfterStop, StopRun
\* Before Shutdown the worker joined is the one of the field, the only one that could run.
<1>9. CASE JoinPdo
  BY <1>9 DEF JoinPdo
<1>10. CASE ClearPdo
  BY <1>10 DEF ClearPdo, AfterStop
<1>11. CASE Create
  BY <1>11 DEF Create
\* Before Shutdown the field is still what Create has set.
<1>12. CASE Bind
  BY <1>12 DEF Bind
<1>13. CASE StartPdo
  BY <1>13 DEF StartPdo
<1>14. CASE StartRun
  BY <1>14 DEF StartRun
\* RiseInv: the loop that starts is the only one.
<1>15. CASE StartThread
  BY <1>15 DEF StartThread
<1> QED
  BY <1>1, <1>2, <1>3, <1>4, <1>5, <1>6, <1>7, <1>8, <1>9, <1>10, <1>11, <1>12, <1>13, <1>14, <1>15
  DEF AutomationThread

(* What the UI thread does once it has begun. *)
LEMMA UiStep == AutomationInv /\ UiGoesOn => AutomationInv'
<1> SUFFICES ASSUME AutomationInv, UiGoesOn PROVE AutomationInv'
  OBVIOUS
<1> USE WorkersAssumption
    DEF AutomationInv, AutomationTypes, StepInv, ClosingInv, RiseInv, OnePdoLoop, HeldInv, NoLoop, Alive,
        StopBegun, ToOp, Sequence, requestVars, pdoVars, autoVars
<1>1. CASE SetSignal
  BY <1>1 DEF SetSignal
<1>2. CASE WaitForInit
  BY <1>2 DEF WaitForInit
<1>3. CASE UStopPdo
  BY <1>3 DEF UStopPdo, StopRun
<1>4. CASE UJoinPdo
  BY <1>4 DEF UJoinPdo
<1>5. CASE UClearPdo
  BY <1>5 DEF UClearPdo
<1>6. CASE SwitchOff
  BY <1>6 DEF SwitchOff
<1>7. CASE WakeThread
  BY <1>7 DEF WakeThread
<1>8. CASE JoinThread
  BY <1>8 DEF JoinThread
<1> QED  BY <1>1, <1>2, <1>3, <1>4, <1>5, <1>6, <1>7, <1>8 DEF UiGoesOn

LEMMA StepAutomationInv == AutomationInv /\ [AutomationNext]_automationVars => AutomationInv'
<1> SUFFICES ASSUME AutomationInv, [AutomationNext]_automationVars PROVE AutomationInv'
  OBVIOUS
<1>1. CASE AutomationThread
  BY <1>1, AutomationStep
<1>2. CASE UiGoesOn
  BY <1>2, UiStep
<1> USE WorkersAssumption
    DEF AutomationInv, AutomationTypes, StepInv, ClosingInv, RiseInv, OnePdoLoop, HeldInv, NoLoop, Alive,
        StopBegun, ToOp, Sequence, requestVars, pdoVars, autoVars
<1>3. CASE \E w \in Workers : PdoExit(w)
  BY <1>3 DEF PdoExit, uiVars
\* Nobody asks for a state once Shutdown has asked for INIT.
<1>4. CASE \E t \in Sequence : RequestState(t)
  BY <1>4 DEF RequestState
<1>5. CASE Shutdown
  BY <1>5 DEF Shutdown
<1>6. CASE UNCHANGED automationVars
  BY <1>6 DEF automationVars
<1> QED  BY <1>1, <1>2, <1>3, <1>4, <1>5, <1>6 DEF AutomationNext

LEMMA AutomationInvHolds == AutomationSpec => []AutomationInv
BY InitAutomationInv, StepAutomationInv, PTL DEF AutomationSpec

(* At most one real-time loop runs, whatever steps, failures and Shutdown  *)
(* interleave, and until Shutdown stops it only in OP and in the hand of   *)
(* the state machine, however many workers were made.                      *)
THEOREM PdoLoopCorrect == AutomationSpec => []PdoOnlyInOp
<1>1. AutomationInv => PdoOnlyInOp
  BY DEF AutomationInv, HeldInv, PdoOnlyInOp, LoopIsHeld
<1> QED  BY <1>1, AutomationInvHolds, PTL

(* The automation thread dies of a null `worker` only in Shutdown.         *)
THEOREM CrashCorrect == AutomationSpec => []CrashOnlyInShutdown
<1>1. AutomationInv => CrashOnlyInShutdown
  BY DEF AutomationInv, HeldInv, CrashOnlyInShutdown
<1> QED  BY <1>1, AutomationInvHolds, PTL

-----------------------------------------------------------------------------
(* The motor axis.                                                         *)

(* What is inductive: a chain of writes ends outside a move under way.      *)
NotHaltedInv == MoveNotHalted /\ chain \in {"profile", "home", "restore"}

LEMMA AfterChainState == chain \in {"profile", "home", "restore"} => AfterChain \notin Started
BY DEF AfterChain, Started

LEMMA InitNotHalted == Init => NotHaltedInv
BY DEF Init, NotHaltedInv, MoveNotHalted, Started

(* A halt begins with a stop, which also takes the machine out of its       *)
(* state; the one way back into a move is QueuePdoStart, which ends a halt. *)
LEMMA StepNotHalted == NotHaltedInv /\ [Next]_vars => NotHaltedInv'
<1> SUFFICES ASSUME NotHaltedInv, [Next]_vars PROVE NotHaltedInv'
  OBVIOUS
<1> USE DEF NotHaltedInv, MoveNotHalted, Started, machine, Enter, AtWrite, At
<1>1. CASE Command \/ CommandGoesOn
  BY <1>1 DEF Command, CommandGoesOn, SetProfile, Move, Home, Jog, Stop, ServoOn, ServoOff,
              SetHome, ReqMove, UiFrame
<1>2. CASE StopRequest \/ StopState
  BY <1>2 DEF StopRequest, StopState, StopFrame
<1>3. ASSUME Written PROVE state' \notin Started /\ chain' \in {"profile", "home", "restore"}
  BY <1>3, AfterChainState DEF Written
<1>4. CASE Queue
  BY <1>3, <1>4 DEF Queue, QueueInPdo, QueueToWorker, QueueUnbound, InState
<1>13. CASE QueueThrows
  BY <1>13 DEF QueueThrows, InState
<1>5. CASE Wait
  BY <1>3, <1>5 DEF Wait, InState
<1>6. CASE QueuePdoStart
  BY <1>6 DEF QueuePdoStart, MoveFrame, InState
<1>7. CASE WaitSetPointAck \/ WaitSetPointAckClear \/ SeeJog \/ NextJog \/ WaitTargetReached
  <2>1. state \in Started /\ cycle # "stopped" /\ halt' = halt /\ chain' \in {"profile", chain}
    BY <1>7 DEF WaitSetPointAck, WaitSetPointAckClear, SeeJog, NextJog, WaitTargetReached, InState, InMachine
  <2> QED  BY <2>1
<1>8. CASE DoneOrFault
  BY <1>8 DEF DoneOrFault
<1>9. CASE Idle
  BY <1>9 DEF Idle, InState, Start
<1>10. CASE QueuePdoHomeStart \/ WaitHomeComplete
  BY <1>10 DEF QueuePdoHomeStart, WaitHomeComplete, InState
<1>11. CASE SdoDone \/ AttachSdoWorker \/ Lost
  BY <1>11 DEF SdoDone, AttachSdoWorker, Lost, DatamapReplaced, SdoSkipped, WorkerDies, WorkerDisposed,
               RestFrame
<1>12. CASE UNCHANGED vars
  BY <1>12 DEF vars
<1> QED
  BY <1>1, <1>2, <1>4, <1>5, <1>6, <1>7, <1>8, <1>9, <1>10, <1>11, <1>12, <1>13 DEF Next, Cycle

(* For every profile, homing table, mapping and queue size: no set-point is *)
(* under way on a halted axis.                                              *)
THEOREM NotHaltedCorrect == Spec => []MoveNotHalted
<1>1. NotHaltedInv => MoveNotHalted
  BY DEF NotHaltedInv
<1> QED  BY <1>1, InitNotHalted, StepNotHalted, PTL DEF Spec

-----------------------------------------------------------------------------
(***************************************************************************)
(* Where profile writes may be left in the worker's queue.  The write that *)
(* the machine waits for is the last one, unless the worker is lost.  Of   *)
(* earlier ones there is one at most, unless two chains were broken off,   *)
(* and it can answer for another only at the first write a new chain sends.*)
(***************************************************************************)
Sending(s) == state = s /\ chain = "profile"
Waiting == Sending("Wait") /\ status = "Pending"
NoneBefore(i) == \A j \in 1 .. i - 1 : ProfileObjects[j] \in mapped
Places == {i \in DOMAIN jobs : jobs[i] \in ProfileSet}
Left == IF Waiting THEN {i \in Places : \E j \in Places : i < j} ELSE Places
Harmless == broken = 0 \/ (broken = 1 /\ Cardinality(ProfileSet \ mapped) > 1)

ChainInv ==
  /\ jobs \in Seq(Objects) /\ broken \in 0 .. 2 /\ dirty \in BOOLEAN
  /\ chain \in {"profile", "home", "restore"} /\ at \in 1 .. Len(Chain(chain))
  /\ Sending("Wait") => ProfileObjects[at] \notin mapped
  /\ Sending("Queue") \/ Sending("Wait") => dirty
Gone == writer \in {"blind", "dead", "disposed"}
OwnInv ==
  Waiting /\ ~Gone => \E n \in Places : jobs[n] = ProfileObjects[at] /\ \A i \in Places : i <= n
FewInv ==
  Harmless =>
    /\ \A i, j \in Left : i = j
    /\ broken = 0 => Left = {}
    /\ Moving \/ ~dirty => Places = {}
Answered(i) == jobs[i] = ProfileObjects[at]
InPlaceOf(i, f) ==
  /\ jobs[i] = ProfileObjects[f] /\ NoneBefore(f)
  /\ \A g \in f + 1 .. at - 1 : ProfileObjects[g] \in mapped
OrderInv ==
  Harmless => \A i \in Left :
    /\ Waiting => (Answered(i) => NoneBefore(at))
    /\ Sending("Wait") /\ ~Waiting => Answered(i) /\ NoneBefore(at)
    /\ Sending("Queue") => NoneBefore(at) \/ \E f \in 1 .. at - 1 : InPlaceOf(i, f)
WritesInv == ChainInv /\ OwnInv /\ FewInv /\ OrderInv

(* The chains of writes. *)
LEMMA ChainIs ==
  /\ Chain("profile") = ProfileObjects /\ Chain("home") = <<ModeObject>> \o HomeObjects
  /\ Chain("restore") = <<ModeObject>>
BY DEF Chain

LEMMA ChainsAre ==
  ASSUME NEW c \in {"profile", "home", "restore"}
  PROVE  /\ Chain(c) \in Seq(Objects) /\ Len(Chain(c)) \in Nat \ {0}
         /\ c # "profile" => \A i \in 1 .. Len(Chain(c)) : Chain(c)[i] \notin ProfileSet
<1>1. ProfileSet \subseteq Objects /\ ModeObject \in Objects /\ Range(HomeObjects) \subseteq Objects
  BY DEF Objects
<1>2. /\ ProfileObjects \in Seq(ProfileSet) /\ ProfileObjects # <<>>
      /\ HomeObjects \in Seq(Range(HomeObjects))
      /\ ModeObject \notin ProfileSet /\ ProfileSet \cap Range(HomeObjects) = {}
  BY ObjectsAssumption DEF ObjectsAssumption, ProfileSet
<1>3. CASE c = "profile"
  BY <1>1, <1>2, <1>3, ChainIs
<1>4. CASE c = "home"
  <2> DEFINE h == HomeObjects
             s == <<ModeObject>> \o h
  <2>1. <<ModeObject>> \in Seq(Objects) /\ h \in Seq(Objects)
    BY <1>1, <1>2
  <2>2. s \in Seq(Objects) /\ Len(s) = 1 + Len(h) /\ Len(h) \in Nat
    BY <2>1
  <2>3. ASSUME NEW i \in 1 .. Len(s) PROVE s[i] \notin ProfileSet
    <3>1. CASE i = 1
      BY <1>2, <2>1, <3>1
    <3>2. CASE i # 1
      <4>1. i - 1 \in 1 .. Len(h) /\ s[i] = h[i - 1]
        BY <2>1, <2>2, <3>2
      <4>2. h[i - 1] \in Range(HomeObjects)
        BY <1>2, <4>1
      <4> QED  BY <1>2, <4>1, <4>2
    <3> QED  BY <3>1, <3>2
  <2>4. Chain(c) = s
    BY <1>4, ChainIs
  <2>5. s \in Seq(Objects) /\ Len(s) \in Nat \ {0}
    BY <2>2
  <2> HIDE DEF s, h
  <2> QED  BY <2>3, <2>4, <2>5
<1>5. CASE c = "restore"
  <2> DEFINE s == <<ModeObject>>
  <2>1. s \in Seq(Objects) /\ Len(s) = 1 /\ s[1] = ModeObject
    BY <1>1
  <2>2. Chain(c) = s
    BY <1>5, ChainIs
  <2>3. \A i \in 1 .. Len(s) : s[i] \notin ProfileSet
    BY <1>2, <2>1
  <2>4. s \in Seq(Objects) /\ Len(s) \in Nat \ {0}
    BY <2>1
  <2> HIDE DEF s
  <2> QED  BY <2>2, <2>3, <2>4
<1> QED  BY <1>3, <1>4, <1>5

(* What the machine is to write. *)
LEMMA ObjectIs ==
  ASSUME ChainInv
  PROVE  /\ Object \in Objects /\ (chain # "profile" => Object \notin ProfileSet)
         /\ chain = "profile" =>
              /\ Object = ProfileObjects[at] /\ at \in 1 .. Len(ProfileObjects) /\ Object \in ProfileSet
<1>1. chain \in {"profile", "home", "restore"} /\ at \in 1 .. Len(Chain(chain))
  BY DEF ChainInv
<1>2. /\ Object \in Objects /\ (chain # "profile" => Object \notin ProfileSet)
  BY <1>1, ChainsAre DEF Object
<1>3. ASSUME chain = "profile"
      PROVE  /\ Object = ProfileObjects[at] /\ at \in 1 .. Len(ProfileObjects) /\ Object \in ProfileSet
  <2>1. Object = ProfileObjects[at] /\ at \in 1 .. Len(ProfileObjects)
    BY <1>1, <1>3, ChainIs DEF Object
  <2>2. ProfileObjects \in Seq(ProfileSet)
    BY ObjectsAssumption DEF ObjectsAssumption, ProfileSet
  <2> QED  BY <2>1, <2>2
<1> QED  BY <1>2, <1>3

(* How the history variable follows the queue. *)
LEMMA BrokenIs ==
  ASSUME ChainInv, Track, mapped' = mapped
  PROVE  /\ broken' \in 0 .. 2
         /\ Harmless' /\ Places' # {} =>
              /\ Harmless
              /\ broken' = broken \/ (BreaksOff /\ broken = 0 /\ broken' = 1)
              /\ BreaksOff => broken' # broken
<1>1. ProfileJobs' = {} <=> Places' = {}
  BY DEF ProfileJobs, Places, Range
<1>2. /\ ProfileJobs' = {} => broken' = 0
      /\ ProfileJobs' # {} /\ BreaksOff /\ broken < 2 => broken' = broken + 1
      /\ ProfileJobs' # {} /\ ~(BreaksOff /\ broken < 2) => broken' = broken
  BY DEF Track
<1>3. broken \in 0 .. 2
  BY DEF ChainInv
<1>4. Harmless' => broken' = 0 \/ (broken' = 1 /\ Cardinality(ProfileSet \ mapped) > 1)
  BY DEF Harmless
<1> QED  BY <1>1, <1>2, <1>3, <1>4 DEF Harmless

(* With no profile write in the queue there is nothing to say. *)
LEMMA EmptyQueue == ASSUME Places' = {} PROVE FewInv' /\ OrderInv'
BY DEF FewInv, OrderInv, Left

LEMMA PlacesAre ==
  ASSUME ChainInv
  PROVE  /\ jobs \in Seq(Objects) /\ Len(jobs) \in Nat
         /\ Places = {i \in 1 .. Len(jobs) : jobs[i] \in ProfileSet} /\ Left \subseteq Places
         /\ ~Waiting => Left = Places
         /\ Left = {} => \A i, j \in Places : i = j
<1>1. jobs \in Seq(Objects) /\ Len(jobs) \in Nat
  BY DEF ChainInv
<1>2. Places = {i \in 1 .. Len(jobs) : jobs[i] \in ProfileSet} /\ Left \subseteq Places
  BY <1>1 DEF Places, Left
<1>3. Left = {} => \A i, j \in Places : ~(i < j)
  BY DEF Left
<1>4. \A i \in Places : i \in Int
  BY <1>2
<1> QED  BY <1>1, <1>2, <1>3, <1>4 DEF Left

(* A step that is not about the machine, the queue or the mapping. *)
LEMMA QuietStep ==
  ASSUME WritesInv, Track, UNCHANGED <<state, chain, at, jobs, mapped>>, Gone => Gone',
         status' = status \/ state # "Wait", dirty' = dirty \/ dirty' = TRUE
  PROVE  WritesInv'
<1>0. ChainInv /\ OwnInv /\ FewInv /\ OrderInv
  BY DEF WritesInv
<1>1. ChainInv'
  BY <1>0, BrokenIs DEF ChainInv, Sending
<1>2. /\ Places' = Places /\ (Waiting' <=> Waiting) /\ (Moving' <=> Moving)
      /\ Sending("Wait")' = Sending("Wait") /\ Sending("Queue")' = Sending("Queue")
  BY DEF Places, Waiting, Moving, Started, Sending
<1>3. Left' = Left
  BY <1>2 DEF Left
<1>4. OwnInv'
  BY <1>0, <1>2 DEF OwnInv
<1>5. CASE Harmless' /\ Places' # {}
  <2>1. Harmless /\ broken' = broken
    BY <1>0, <1>5, BrokenIs DEF BreaksOff
  <2>2. FewInv'
    BY <1>0, <1>2, <1>3, <2>1 DEF FewInv
  <2>3. OrderInv'
    BY <1>0, <1>2, <1>3, <2>1 DEF OrderInv, Answered, InPlaceOf, NoneBefore
  <2> QED  BY <1>1, <1>4, <2>2, <2>3 DEF WritesInv
<1>6. CASE ~(Harmless' /\ Places' # {})
  BY <1>1, <1>4, <1>6, EmptyQueue DEF WritesInv, FewInv, OrderInv
<1> QED  BY <1>5, <1>6

(* A step to a place outside a profile chain and outside a move. *)
LEMMA OutsideStep ==
  ASSUME WritesInv, Track, mapped' = mapped, dirty' = dirty \/ dirty' = TRUE,
         chain' \in {"profile", "home", "restore"}, at' \in 1 .. Len(Chain(chain')),
         jobs' = jobs \/ \E o \in Objects \ ProfileSet : jobs' = Append(jobs, o),
         ~Sending("Queue")', ~Sending("Wait")', ~Moving', Sending("Wait") => BreaksOff
  PROVE  WritesInv'
<1>0. ChainInv /\ OwnInv /\ FewInv /\ OrderInv
  BY DEF WritesInv
<1>1. jobs' \in Seq(Objects) /\ Places' = Places
  <2>1. CASE jobs' = jobs
    BY <1>0, <2>1, PlacesAre DEF Places
  <2>2. CASE jobs' # jobs
    <3>1. PICK o \in Objects \ ProfileSet : jobs' = Append(jobs, o)
      BY <2>2
    <3>2. /\ jobs' \in Seq(Objects) /\ Len(jobs') = Len(jobs) + 1 /\ jobs'[Len(jobs) + 1] = o
          /\ \A i \in 1 .. Len(jobs) : jobs'[i] = jobs[i]
      BY <1>0, <3>1, PlacesAre
    <3>3. Places' = {i \in 1 .. Len(jobs) + 1 : jobs'[i] \in ProfileSet}
      BY <3>2 DEF Places
    <3> QED  BY <1>0, <3>1, <3>2, <3>3, PlacesAre
  <2> QED  BY <2>1, <2>2
<1>2. ChainInv'
  BY <1>0, <1>1, BrokenIs DEF ChainInv
<1>3. ~Waiting' /\ Left' = Places'
  BY DEF Waiting, Left
<1>4. OwnInv' /\ OrderInv'
  BY <1>3 DEF OwnInv, OrderInv
<1>5. CASE Harmless' /\ Places' # {}
  <2>1. Harmless /\ (~dirty' => Places = {})
    BY <1>0, <1>5, BrokenIs DEF FewInv
  <2>2. CASE BreaksOff
    <3>1. broken = 0 /\ broken' = 1
      BY <1>0, <1>5, <2>2, BrokenIs
    <3>2. \A i, j \in Places : i = j
      BY <1>0, <2>1, <3>1, PlacesAre DEF FewInv
    <3> QED  BY <1>1, <1>2, <1>3, <1>4, <2>1, <3>1, <3>2 DEF WritesInv, FewInv
  <2>3. CASE ~BreaksOff
    <3>1. broken' = broken /\ ~Waiting
      BY <1>0, <1>5, <2>3, BrokenIs DEF Waiting
    <3>2. Left = Places
      BY <1>0, <3>1, PlacesAre
    <3>3. FewInv'
      BY <1>0, <1>1, <1>3, <2>1, <3>1, <3>2 DEF FewInv
    <3> QED  BY <1>2, <1>4, <3>3 DEF WritesInv
  <2> QED  BY <2>2, <2>3
<1>6. CASE ~(Harmless' /\ Places' # {})
  BY <1>2, <1>4, <1>6, EmptyQueue DEF WritesInv, FewInv
<1> QED  BY <1>5, <1>6

(* A step to a place in a move, when no write is left. *)
LEMMA MovingStep ==
  ASSUME WritesInv, Track, mapped' = mapped, jobs' = jobs, Moving', chain' = "profile", at' = 1,
         dirty' \in BOOLEAN, Harmless => Places = {}
  PROVE  WritesInv'
<1>0. ChainInv
  BY DEF WritesInv
<1>1. ~Sending("Queue")' /\ ~Sending("Wait")' /\ ~Waiting'
  BY DEF Moving, Started, Sending, Waiting
<1>2. 1 \in 1 .. Len(Chain("profile"))
  BY ChainsAre
<1>3. ChainInv' /\ OwnInv'
  BY <1>0, <1>1, <1>2, BrokenIs DEF ChainInv, OwnInv
<1>4. Places' = Places
  BY DEF Places
<1>5. Harmless' => Places' = {}
  BY <1>0, <1>4, BrokenIs
<1> QED  BY <1>3, <1>5, EmptyQueue DEF WritesInv, FewInv, OrderInv

(* A profile chain begins. *)
LEMMA BeginStep ==
  ASSUME WritesInv, Track, mapped' = mapped, jobs' = jobs, dirty, dirty' = dirty, state = "Idle",
         state' = "Queue", chain' = "profile", at' = 1
  PROVE  WritesInv'
<1>0. ChainInv /\ FewInv
  BY DEF WritesInv
<1>1. ~Waiting /\ ~Waiting' /\ ~Sending("Wait")' /\ ~Moving' /\ Places' = Places
  BY DEF Sending, Waiting, Moving, Started, Places
<1>2. 1 \in 1 .. Len(Chain("profile"))
  BY ChainsAre
<1>3. ChainInv' /\ OwnInv'
  BY <1>0, <1>1, <1>2, BrokenIs DEF ChainInv, OwnInv
<1>4. Left' = Left /\ Left' = Places'
  BY <1>1 DEF Left
<1>5. NoneBefore(at)'
  BY DEF NoneBefore
<1>6. OrderInv'
  BY <1>1, <1>5 DEF OrderInv
<1>7. FewInv'
  <2>1. CASE Harmless' /\ Places' # {}
    <3>1. Harmless /\ broken' = broken
      BY <1>0, <2>1, BrokenIs DEF BreaksOff
    <3> QED  BY <1>0, <1>1, <1>4, <3>1 DEF FewInv
  <2>2. CASE ~(Harmless' /\ Places' # {})
    BY <2>2, EmptyQueue DEF FewInv
  <2> QED  BY <2>1, <2>2
<1> QED  BY <1>3, <1>6, <1>7 DEF WritesInv

(* A write of a profile chain is over. *)
Over ==
  \/ Sending("Queue") /\ ProfileObjects[at] \in mapped
  \/ Sending("Wait") /\ ~Waiting

(* The chain goes on with its next write. *)
LEMMA NextWrite ==
  ASSUME WritesInv, Track, mapped' = mapped, jobs' = jobs, dirty' = dirty, Over,
         state' = "Queue", chain' = "profile", at' = at + 1, at # Len(ProfileObjects)
  PROVE  WritesInv'
<1>0. ChainInv /\ FewInv /\ OrderInv
  BY DEF WritesInv
<1>1. chain = "profile" /\ state \in {"Queue", "Wait"} /\ at \in 1 .. Len(ProfileObjects) /\ dirty
  BY <1>0, ChainIs DEF Over, Sending, ChainInv
<1>2. ~Waiting /\ ~Waiting' /\ ~Sending("Wait")' /\ ~Moving' /\ Places' = Places
  BY <1>1 DEF Over, Sending, Waiting, Moving, Started, Places
<1>3. at + 1 \in 1 .. Len(Chain("profile"))
  BY <1>1, ChainIs, ChainsAre
<1>4. ChainInv' /\ OwnInv'
  BY <1>0, <1>1, <1>2, <1>3, BrokenIs DEF ChainInv, OwnInv
<1>5. Left = Places /\ Left' = Places'
  BY <1>2 DEF Left
<1>6. CASE Harmless' /\ Places' # {}
  <2>1. Harmless /\ broken' = broken
    BY <1>0, <1>6, BrokenIs DEF BreaksOff
  <2>2. FewInv'
    BY <1>0, <1>1, <1>2, <1>5, <2>1 DEF FewInv
  <2>3. ASSUME NEW i \in Left PROVE NoneBefore(at + 1) \/ \E f \in 1 .. at : InPlaceOf(i, f)'
    <3>1. CASE Sending("Wait")
      <4>1. Answered(i) /\ NoneBefore(at)
        BY <1>0, <1>2, <2>1, <3>1 DEF OrderInv
      <4>2. PICK f \in 1 .. at : f = at
        BY <1>1
      <4>3. InPlaceOf(i, f)'
        BY <1>1, <4>1, <4>2 DEF InPlaceOf, Answered, NoneBefore
      <4> QED  BY <4>3
    <3>2. CASE Sending("Queue") /\ ProfileObjects[at] \in mapped
      <4>1. NoneBefore(at) \/ \E f \in 1 .. at - 1 : InPlaceOf(i, f)
        BY <1>0, <2>1, <3>2 DEF OrderInv
      <4>2. NoneBefore(at) => NoneBefore(at + 1)
        BY <1>1, <3>2 DEF NoneBefore
      <4>3. ASSUME NEW f \in 1 .. at - 1, InPlaceOf(i, f) PROVE InPlaceOf(i, f)' /\ f \in 1 .. at
        <5>1. \A g \in f + 1 .. at : ProfileObjects[g] \in mapped
          BY <1>1, <3>2, <4>3 DEF InPlaceOf
        <5> QED  BY <1>1, <4>3, <5>1 DEF InPlaceOf, NoneBefore
      <4> QED  BY <4>1, <4>2, <4>3
    <3> QED  BY <3>1, <3>2 DEF Over
  <2>4. OrderInv'
    BY <1>1, <1>2, <1>5, <2>3 DEF OrderInv, NoneBefore
  <2> QED  BY <1>4, <2>2, <2>4 DEF WritesInv
<1>7. CASE ~(Harmless' /\ Places' # {})
  BY <1>4, <1>7, EmptyQueue DEF WritesInv, FewInv, OrderInv
<1> QED  BY <1>6, <1>7

(* After the last write of a chain none is left. *)
LEMMA LastWrite ==
  ASSUME WritesInv, Over, Harmless, at = Len(ProfileObjects)
  PROVE  Places = {}
<1> SUFFICES ASSUME NEW i \in Places PROVE FALSE
  OBVIOUS
<1>0. ChainInv /\ FewInv /\ OrderInv
  BY DEF WritesInv
<1>1. chain = "profile" /\ state \in {"Queue", "Wait"} /\ at \in 1 .. Len(ProfileObjects)
  BY <1>0, ChainIs DEF Over, Sending, ChainInv
<1>2. ~Waiting /\ i \in Left
  BY <1>0, <1>1, PlacesAre DEF Over, Sending, Waiting
<1>3. Cardinality(ProfileSet \ mapped) > 1
  BY <1>0, <1>2 DEF Harmless, FewInv
<1>4. \E f \in 1 .. at : \A g \in 1 .. at : g # f => ProfileObjects[g] \in mapped
  <2>1. CASE Sending("Wait")
    BY <1>0, <1>1, <1>2, <2>1 DEF OrderInv, NoneBefore
  <2>2. CASE Sending("Queue") /\ ProfileObjects[at] \in mapped
    <3>1. NoneBefore(at) \/ \E f \in 1 .. at - 1 : InPlaceOf(i, f)
      BY <1>0, <1>2, <2>2 DEF OrderInv
    <3>2. CASE NoneBefore(at)
      BY <1>1, <2>2, <3>2 DEF NoneBefore
    <3>3. ASSUME NEW f \in 1 .. at - 1, InPlaceOf(i, f)
          PROVE  \A g \in 1 .. at : g # f => ProfileObjects[g] \in mapped
      <4> TAKE g \in 1 .. at
      <4>1. g \in 1 .. f - 1 \/ g = f \/ g \in f + 1 .. at - 1 \/ g = at
        BY <1>1
      <4> QED  BY <2>2, <3>3, <4>1 DEF InPlaceOf, NoneBefore
    <3>4. \A f \in 1 .. at - 1 : f \in 1 .. at
      BY <1>1
    <3> QED  BY <3>1, <3>2, <3>3, <3>4
  <2> QED  BY <2>1, <2>2 DEF Over
<1>5. PICK f \in 1 .. at : \A g \in 1 .. at : g # f => ProfileObjects[g] \in mapped
  BY <1>4
<1>6. ProfileSet \ mapped \subseteq {ProfileObjects[f]}
  BY <1>1, <1>5 DEF ProfileSet, Range
<1>7. Cardinality({ProfileObjects[f]}) = 1 /\ IsFiniteSet({ProfileObjects[f]})
  BY FS_Singleton
<1>8. Cardinality(ProfileSet \ mapped) <= 1 /\ Cardinality(ProfileSet \ mapped) \in Nat
  BY <1>6, <1>7, FS_Subset, FS_CardinalityType
<1> QED  BY <1>3, <1>8

(* A write of a profile chain goes to the worker. *)
LEMMA SendStep ==
  ASSUME WritesInv, Track, mapped' = mapped, dirty' = dirty, Sending("Queue"),
         ProfileObjects[at] \notin mapped, jobs' = Append(jobs, ProfileObjects[at]),
         status' = "Pending", state' = "Wait", chain' = chain, at' = at
  PROVE  WritesInv'
<1>0. ChainInv /\ FewInv /\ OrderInv
  BY DEF WritesInv
<1>1. chain = "profile" /\ state = "Queue" /\ at \in 1 .. Len(ProfileObjects) /\ dirty
  BY <1>0, ChainIs DEF Sending, ChainInv
<1>2. ProfileObjects[at] \in ProfileSet /\ ProfileObjects[at] \in Objects
  BY <1>0, <1>1, ObjectIs
<1> DEFINE n == Len(jobs) + 1
<1>3. /\ jobs' \in Seq(Objects) /\ Len(jobs') = n /\ jobs'[n] = ProfileObjects[at] /\ n \in Nat
      /\ \A i \in 1 .. Len(jobs) : jobs'[i] = jobs[i]
  BY <1>0, <1>2, PlacesAre
<1>4. Places' = Places \cup {n}
  <2>1. Places' = {i \in 1 .. n : jobs'[i] \in ProfileSet}
    BY <1>3 DEF Places
  <2> QED  BY <1>0, <1>2, <1>3, <2>1, PlacesAre
<1>5. \A i \in Places : i < n /\ i \in Int
  BY <1>0, PlacesAre
<1>6. Waiting' /\ Sending("Wait")' /\ ~Sending("Queue")' /\ ~Moving' /\ ~Waiting
  BY <1>1 DEF Waiting, Sending, Moving, Started
<1>7. Left' = Places /\ Left = Places
  <2>1. Left' = {i \in Places' : \E j \in Places' : i < j}
    BY <1>6 DEF Left
  <2> HIDE DEF n
  <2>2. Left' = Places
    BY <1>3, <1>4, <1>5, <2>1
  <2> QED  BY <1>6, <2>2 DEF Left
<1>8. ChainInv'
  BY <1>0, <1>1, <1>3, BrokenIs DEF ChainInv, Sending
<1>9. OwnInv'
  <2>1. n \in Places' /\ jobs'[n] = ProfileObjects[at'] /\ \A i \in Places' : i <= n
    BY <1>3, <1>4, <1>5
  <2> QED  BY <2>1 DEF OwnInv
<1>10. CASE Harmless'
  <2>1. Harmless /\ broken' = broken
    BY <1>0, <1>1, <1>4, <1>10, BrokenIs DEF BreaksOff
  <2>2. FewInv'
    BY <1>0, <1>1, <1>6, <1>7, <2>1 DEF FewInv
  <2>3. ASSUME NEW i \in Places, jobs[i] = ProfileObjects[at] PROVE NoneBefore(at)
    <3>1. NoneBefore(at) \/ \E f \in 1 .. at - 1 : InPlaceOf(i, f)
      BY <1>0, <1>1, <1>7, <2>1 DEF OrderInv, Sending
    <3>2. ASSUME NEW f \in 1 .. at - 1, InPlaceOf(i, f) PROVE FALSE
      <4>1. ProfileObjects[f] = ProfileObjects[at] /\ f \in 1 .. Len(ProfileObjects) /\ f # at
        BY <1>1, <2>3, <3>2 DEF InPlaceOf
      <4>2. ProfileObjects \in Seq(Range(ProfileObjects))
        BY ObjectsAssumption DEF ObjectsAssumption
      <4>3. DOMAIN ProfileObjects = 1 .. Len(ProfileObjects)
        BY <4>2
      <4> QED  BY <1>1, <4>1, <4>3, ObjectsAssumption DEF ObjectsAssumption
    <3> QED  BY <3>1, <3>2
  <2>4. ASSUME NEW i \in Places, Answered(i)' PROVE NoneBefore(at)'
    <3>1. jobs'[i] = jobs[i]
      BY <1>0, <1>3, PlacesAre
    <3> QED  BY <2>3, <2>4, <3>1 DEF Answered, NoneBefore
  <2>5. OrderInv'
    BY <1>6, <1>7, <2>4 DEF OrderInv
  <2> QED  BY <1>8, <1>9, <2>2, <2>5 DEF WritesInv
<1>11. CASE ~Harmless'
  BY <1>8, <1>9, <1>11 DEF WritesInv, FewInv, OrderInv
<1> QED  BY <1>10, <1>11

(* The worker has carried out its oldest write, or taken it along.          *)
OldestGone ==
  /\ jobs # <<>> /\ jobs' = Tail(jobs) /\ UNCHANGED <<state, chain, at, mapped, dirty>>
  /\ \/ /\ ~Gone
        /\ status' \in IF state = "Wait" /\ Object = Head(jobs) THEN {"Ok", "Error"} ELSE {status}
     \/ Gone' /\ status' = status

LEMMA DoneStep ==
  ASSUME WritesInv, Track, OldestGone, Gone => Gone'
  PROVE  WritesInv'
<1>0. ChainInv /\ OwnInv /\ FewInv /\ OrderInv
  BY DEF WritesInv
<1>1. /\ jobs # <<>> /\ jobs' = Tail(jobs) /\ UNCHANGED <<state, chain, at, mapped, dirty>>
      /\ ~Gone' => status' \in IF state = "Wait" /\ Object = Head(jobs) THEN {"Ok", "Error"} ELSE {status}
      /\ status' # status => ~Gone /\ state = "Wait" /\ Object = Head(jobs) /\ status' \in {"Ok", "Error"}
      /\ ~Gone' => ~Gone
  BY DEF OldestGone
<1>2. /\ jobs \in Seq(Objects) /\ jobs' \in Seq(Objects) /\ Len(jobs) \in Nat \ {0} /\ Len(jobs') = Len(jobs) - 1
      /\ Head(jobs) = jobs[1] /\ \A i \in 1 .. Len(jobs) - 1 : jobs'[i] = jobs[i + 1]
  BY <1>0, <1>1, PlacesAre
<1>3. /\ \A i \in Places : i \in Int /\ i >= 1
      /\ \A i \in Places' : i \in Int /\ i >= 1 /\ i + 1 \in Places /\ jobs'[i] = jobs[i + 1]
      /\ \A i \in Places : i # 1 => i - 1 \in Places'
  <2>1. Places' = {i \in 1 .. Len(jobs) - 1 : jobs'[i] \in ProfileSet}
    BY <1>2 DEF Places
  <2>2. Places = {i \in 1 .. Len(jobs) : jobs[i] \in ProfileSet}
    BY <1>0, PlacesAre
  <2>3. ASSUME NEW i \in Places, i # 1 PROVE i - 1 \in Places'
    <3>1. i - 1 \in 1 .. Len(jobs) - 1 /\ jobs'[i - 1] = jobs[i]
      BY <1>2, <2>2, <2>3
    <3> QED  BY <2>1, <2>2, <3>1
  <2> QED  BY <1>2, <2>1, <2>2, <2>3
<1>4. /\ (Moving' <=> Moving) /\ Sending("Wait")' = Sending("Wait") /\ Sending("Queue")' = Sending("Queue")
      /\ ~BreaksOff
  BY <1>1 DEF Moving, Started, Sending, BreaksOff
<1>5. ChainInv'
  BY <1>0, <1>1, <1>2, <1>4, BrokenIs DEF ChainInv
<1>6. Waiting' => Waiting /\ (~Gone' => Object # Head(jobs))
  BY <1>1 DEF Waiting, Sending
<1>7. Waiting => Object = ProfileObjects[at] /\ Object \in ProfileSet
  BY <1>0, ObjectIs DEF Waiting, Sending
<1>8. OwnInv'
  <2> SUFFICES ASSUME Waiting', ~Gone'
               PROVE  \E n \in Places' : jobs'[n] = ProfileObjects[at'] /\ \A i \in Places' : i <= n
    BY DEF OwnInv
  <2>1. PICK n \in Places : jobs[n] = ProfileObjects[at] /\ \A i \in Places : i <= n
    BY <1>0, <1>1, <1>6 DEF OwnInv
  <2>2. n # 1
    BY <1>2, <1>6, <1>7, <2>1
  <2>3. n - 1 \in Places' /\ jobs'[n - 1] = jobs[(n - 1) + 1] /\ (n - 1) + 1 = n
    BY <1>3, <2>2
  <2>4. \A i \in Places' : i <= n - 1
    BY <1>3, <2>1
  <2> QED  BY <1>1, <2>1, <2>3, <2>4
<1>9. CASE Harmless' /\ Places' # {}
  <2>1. Harmless /\ broken' = broken
    BY <1>0, <1>1, <1>4, <1>9, BrokenIs
  <2>2. CASE Waiting' \/ ~Waiting
    <3>1. Waiting' <=> Waiting
      BY <1>6, <2>2
    <3>2. \A i \in Left' : i \in Int /\ i + 1 \in Left /\ jobs'[i] = jobs[i + 1]
      BY <1>3, <3>1 DEF Left
    <3>3. FewInv'
      <4>1. \A i, j \in Left' : i = j
        BY <1>0, <2>1, <3>2 DEF FewInv
      <4>2. broken' = 0 => Left' = {}
        BY <1>0, <2>1, <3>2 DEF FewInv
      <4>3. Moving' \/ ~dirty' => Places' = {}
        BY <1>0, <1>1, <1>3, <1>4, <2>1 DEF FewInv
      <4> QED  BY <4>1, <4>2, <4>3 DEF FewInv
    <3>4. OrderInv'
      <4>1. ASSUME NEW i \in Left'
            PROVE  /\ Waiting' => (Answered(i)' => NoneBefore(at)')
                   /\ Sending("Wait")' /\ ~Waiting' => Answered(i)' /\ NoneBefore(at)'
                   /\ Sending("Queue")' => NoneBefore(at)' \/ \E f \in 1 .. at' - 1 : InPlaceOf(i, f)'
        <5>1. i + 1 \in Left /\ jobs'[i] = jobs[i + 1]
          BY <3>2
        <5>2. /\ Waiting => (Answered(i + 1) => NoneBefore(at))
              /\ Sending("Wait") /\ ~Waiting => Answered(i + 1) /\ NoneBefore(at)
              /\ Sending("Queue") => NoneBefore(at) \/ \E f \in 1 .. at - 1 : InPlaceOf(i + 1, f)
          BY <1>0, <2>1, <5>1 DEF OrderInv
        <5>3. /\ Answered(i)' = Answered(i + 1) /\ NoneBefore(at)' = NoneBefore(at)
              /\ \A f \in 1 .. at - 1 : InPlaceOf(i + 1, f) => InPlaceOf(i, f)'
          BY <1>1, <5>1 DEF Answered, NoneBefore, InPlaceOf
        <5> QED  BY <1>1, <1>4, <3>1, <5>2, <5>3
      <4> QED  BY <4>1 DEF OrderInv
    <3> QED  BY <1>5, <1>8, <3>3, <3>4 DEF WritesInv
  <2>3. CASE Waiting /\ ~Waiting'
    <3>1. jobs[1] = ProfileObjects[at]
      BY <1>1, <1>2, <1>7, <2>3 DEF Waiting, Sending
    <3>2. 1 \in Places
      BY <1>0, <1>2, <1>7, <2>3, <3>1, PlacesAre
    <3>3. PICK n \in Places : jobs[n] = ProfileObjects[at] /\ \A i \in Places : i <= n
      BY <1>0, <1>1, <2>3 DEF OwnInv, Waiting, Sending
    <3>4. ASSUME NEW i \in Places' PROVE i + 1 = n /\ 1 \in Left
      <4>1. i \in Int /\ i >= 1 /\ i + 1 \in Places /\ i + 1 <= n
        BY <1>3, <3>3
      <4>2. n \in Int
        BY <1>3
      <4>3. 1 \in Left
        BY <2>3, <3>2, <4>1 DEF Left
      <4>4. i + 1 < n => i + 1 \in Left
        BY <2>3, <4>1 DEF Left
      <4>5. ~(i + 1 < n)
        BY <1>0, <2>1, <4>1, <4>3, <4>4 DEF FewInv
      <4> QED  BY <4>1, <4>2, <4>3, <4>5
    <3>5. 1 \in Left /\ broken' # 0
      BY <1>0, <1>9, <2>1, <3>4 DEF FewInv
    <3>6. NoneBefore(at)
      BY <1>0, <2>1, <2>3, <3>1, <3>5 DEF OrderInv, Answered
    <3>7. Left' = Places'
      BY <2>3 DEF Left
    <3>8. \A i, j \in Places' : i = j
      BY <1>3, <3>4
    <3>9. \A i \in Places' : Answered(i)'
      BY <1>1, <1>3, <3>3, <3>4 DEF Answered
    <3>10. dirty' /\ ~Moving' /\ ~Sending("Queue")' /\ NoneBefore(at)'
      BY <1>0, <1>1, <1>4, <2>3, <3>6 DEF ChainInv, Waiting, Sending, Moving, Started, NoneBefore
    <3>11. FewInv' /\ OrderInv'
      BY <2>3, <3>5, <3>7, <3>8, <3>9, <3>10 DEF FewInv, OrderInv
    <3> QED  BY <1>5, <1>8, <3>11 DEF WritesInv
  <2> QED  BY <2>2, <2>3
<1>10. CASE ~(Harmless' /\ Places' # {})
  BY <1>5, <1>8, <1>10, EmptyQueue DEF WritesInv, FewInv, OrderInv
<1> QED  BY <1>9, <1>10

-----------------------------------------------------------------------------
(***************************************************************************)
(* Every step.                                                             *)
(***************************************************************************)
LEMMA StateAt ==
  /\ \A s : At(s) => state' = s /\ chain' = "profile" /\ at' = 1
  /\ \A c : Enter(c) => state' = "Queue" /\ chain' = c /\ at' = 1
  /\ \A c \in {"profile", "home", "restore"} : 1 \in 1 .. Len(Chain(c))
BY ChainsAre DEF At, Enter, AtWrite

(* What a write that is over does to the machine. *)
LEMMA WrittenStep ==
  ASSUME WritesInv, Track, mapped' = mapped, jobs' = jobs, Written,
         IF chain = "profile" THEN Over ELSE state \in {"Queue", "Wait"}
  PROVE  WritesInv'
<1>0. ChainInv
  BY DEF WritesInv
<1>1. chain \in {"profile", "home", "restore"} /\ at \in 1 .. Len(Chain(chain)) /\ 1 \in 1 .. Len(Chain("profile"))
  BY <1>0, StateAt DEF ChainInv
<1>2. dirty' = (dirty /\ ~(chain = "profile" /\ AtEnd))
  BY DEF Written
<1>3. CASE chain = "profile"
  <2>1. AtEnd <=> at = Len(ProfileObjects)
    BY <1>3, ChainIs DEF AtEnd
  <2>2. CASE AtEnd
    <3>1. AfterChain = "QueuePdoStart"
      BY <1>3 DEF AfterChain
    <3>2. state' = "QueuePdoStart" /\ chain' = "profile" /\ at' = 1
      BY <2>2, <3>1 DEF Written, At
    <3>3. Harmless => Places = {}
      BY <1>3, <2>1, <2>2, LastWrite
    <3>4. dirty' \in BOOLEAN
      BY <1>2
    <3> QED  BY <3>2, <3>3, <3>4, MovingStep DEF Moving
  <2>3. CASE ~AtEnd
    <3>1. state' = "Queue" /\ chain' = "profile" /\ at' = at + 1
      BY <1>3, <2>3 DEF Written, AtWrite
    <3>2. Sending("Queue") \/ Sending("Wait")
      BY <1>3 DEF Over
    <3>3. dirty' = dirty
      BY <1>0, <1>2, <2>3, <3>2 DEF ChainInv
    <3> QED  BY <1>3, <2>1, <2>3, <3>1, <3>3, NextWrite
  <2> QED  BY <2>2, <2>3
<1>4. CASE chain # "profile"
  <2>1. ~Sending("Queue") /\ ~Sending("Wait")
    BY <1>4 DEF Sending
  <2>2. dirty' = dirty \/ dirty' = TRUE
    BY <1>0, <1>2, <1>4 DEF ChainInv
  <2>3. CASE AtEnd
    <3>1. AfterChain \in {"QueuePdoHomeStart", "Fault", "Done"}
      BY <1>1, <1>4 DEF AfterChain
    <3>2. state' = AfterChain /\ chain' = "profile" /\ at' = 1
      BY <2>3 DEF Written, At
    <3>3. ~Sending("Queue")' /\ ~Sending("Wait")' /\ ~Moving'
      BY <3>1, <3>2 DEF Sending, Moving, Started
    <3> QED  BY <1>1, <2>1, <2>2, <3>2, <3>3, OutsideStep
  <2>4. CASE ~AtEnd
    <3>1. state' = "Queue" /\ chain' = chain /\ at' = at + 1
      BY <2>4 DEF Written, AtWrite
    <3>2. at' \in 1 .. Len(Chain(chain'))
      BY <1>1, <2>4, <3>1, ChainsAre DEF AtEnd
    <3>3. ~Sending("Queue")' /\ ~Sending("Wait")' /\ ~Moving'
      BY <1>4, <3>1 DEF Sending, Moving, Started
    <3> QED  BY <1>1, <2>1, <2>2, <3>1, <3>2, <3>3, OutsideStep
  <2> QED  BY <2>3, <2>4
<1> QED  BY <1>3, <1>4

(* Back to the idle machine, to a fault, or on through PP mode. *)
LEMMA LeaveStep ==
  ASSUME WritesInv, Track, mapped' = mapped, jobs' = jobs, dirty' = dirty, at' = 1,
         \/ state' \in {"Idle", "Fault"} /\ chain' = "profile"
         \/ state' = "Queue" /\ chain' \in {"home", "restore"}
  PROVE  WritesInv'
<1>1. ~Sending("Queue")' /\ ~Sending("Wait")' /\ ~Moving' /\ (Sending("Wait") => BreaksOff)
  BY DEF Sending, Moving, Started, BreaksOff
<1>2. chain' \in {"profile", "home", "restore"} /\ at' \in 1 .. Len(Chain(chain'))
  BY StateAt
<1> QED  BY <1>1, <1>2, OutsideStep

LEMMA QueueStep ==
  ASSUME WritesInv, Track, Queue
  PROVE  WritesInv'
<1>0. ChainInv /\ state = "Queue" /\ mapped' = mapped
  BY DEF WritesInv, Queue, InState, Write
<1>1. CASE QueueInPdo
  <2>1. Object \in mapped /\ Written /\ jobs' = jobs
    BY <1>1 DEF QueueInPdo, sdoVars
  <2>2. chain = "profile" => Over
    BY <1>0, <2>1, ObjectIs DEF Over, Sending
  <2> QED  BY <1>0, <2>1, <2>2, WrittenStep
<1>2. CASE QueueToWorker
  <2>1. /\ Object \notin mapped /\ status' = "Pending" /\ jobs' = Append(jobs, Object)
        /\ state' = "Wait" /\ chain' = chain /\ at' = at /\ dirty' = dirty
    BY <1>2 DEF QueueToWorker, AtWrite, NotWritten
  <2>2. CASE chain = "profile"
    BY <1>0, <2>1, <2>2, ObjectIs, SendStep DEF Sending
  <2>3. CASE chain # "profile"
    <3>1. Object \in Objects \ ProfileSet
      BY <1>0, <2>3, ObjectIs
    <3>2. ~Sending("Queue")' /\ ~Sending("Wait")' /\ ~Moving' /\ ~Sending("Wait")
      BY <1>0, <2>1, <2>3 DEF Sending, Moving, Started
    <3>3. chain' \in {"profile", "home", "restore"} /\ at' \in 1 .. Len(Chain(chain'))
      BY <1>0, <2>1 DEF ChainInv
    <3> QED  BY <1>0, <2>1, <3>1, <3>2, <3>3, OutsideStep
  <2> QED  BY <2>2, <2>3
<1>3. CASE QueueUnbound
  <2>1. state' = "Fault" /\ chain' = "profile" /\ at' = 1 /\ dirty' = dirty /\ jobs' = jobs
    BY <1>3 DEF QueueUnbound, At, NotWritten, sdoVars
  <2> QED  BY <1>0, <2>1, LeaveStep
<1> QED  BY <1>1, <1>2, <1>3 DEF Queue

(* A disposed worker throws; the worker is attached, and it is lost.        *)
LEMMA WorkerStep ==
  ASSUME WritesInv, Track, QueueThrows \/ SdoDone \/ AttachSdoWorker \/ Lost
  PROVE  WritesInv'
<1> USE DEF Gone
<1>1. CASE QueueThrows
  BY <1>1, QuietStep DEF QueueThrows, InState, machine, driveVars
<1>2. CASE SdoDone
  BY <1>2, DoneStep DEF OldestGone, SdoDone, RestFrame, machine, driveVars
<1>3. CASE AttachSdoWorker \/ DatamapReplaced
  BY <1>3, QuietStep DEF AttachSdoWorker, DatamapReplaced, machine, driveVars
<1>4. CASE SdoSkipped
  BY <1>4, DoneStep DEF OldestGone, SdoSkipped, RestFrame, machine, driveVars
<1>5. CASE WorkerDies
  BY <1>5, QuietStep, DoneStep DEF OldestGone, WorkerDies, RestFrame, machine, driveVars
<1>6. CASE WorkerDisposed
  <2>1. /\ UNCHANGED <<state, chain, at, mapped, dirty>> /\ jobs' = <<>> /\ Gone'
    BY <1>6 DEF WorkerDisposed, machine, driveVars
  <2>2. ChainInv
    BY DEF WritesInv
  <2>3. ChainInv'
    BY <2>1, <2>2, BrokenIs DEF ChainInv, Sending
  <2>4. Places' = {}
    BY <2>1 DEF Places
  <2> QED  BY <2>1, <2>3, <2>4, EmptyQueue DEF WritesInv, OwnInv
<1> QED  BY <1>1, <1>2, <1>3, <1>4, <1>5, <1>6 DEF Lost

LEMMA WaitStep ==
  ASSUME WritesInv, Track, Wait
  PROVE  WritesInv'
<1>0. ChainInv /\ state = "Wait" /\ mapped' = mapped /\ jobs' = jobs /\ status' = status /\ writer' = writer
  BY DEF WritesInv, Wait, InState, Write, sdoVars
<1>1. CASE UNCHANGED machine /\ NotWritten
  BY <1>0, <1>1, QuietStep DEF machine, Gone, NotWritten
<1>2. CASE At("Fault") /\ NotWritten
  BY <1>0, <1>2, StateAt, LeaveStep DEF NotWritten
<1>3. CASE status = "Ok" /\ Written
  <2>1. chain = "profile" => Over
    BY <1>0, <1>3 DEF Over, Sending, Waiting
  <2> QED  BY <1>0, <1>3, <2>1, WrittenStep
<1> QED  BY <1>1, <1>2, <1>3 DEF Wait

LEMMA IdleStep ==
  ASSUME WritesInv, Track, Idle
  PROVE  WritesInv'
<1>0. /\ state = "Idle" /\ mapped' = mapped /\ jobs' = jobs /\ status' = status /\ dirty' = dirty
      /\ writer' = writer /\ ChainInv /\ FewInv
  BY DEF WritesInv, Idle, InState, Write, sdoVars
<1>1. CASE UNCHANGED machine
  BY <1>0, <1>1, QuietStep DEF machine, Gone
<1>2. CASE At("Fault")
  BY <1>0, <1>2, StateAt, LeaveStep
<1>3. CASE Enter("home")
  BY <1>0, <1>3, StateAt, LeaveStep
<1>4. CASE dirty /\ Enter("profile")
  BY <1>0, <1>4, StateAt, BeginStep
<1>5. CASE ~dirty /\ At("QueuePdoStart")
  <2>1. Harmless => Places = {}
    BY <1>0, <1>5 DEF FewInv
  <2>2. dirty' \in BOOLEAN
    BY <1>0 DEF ChainInv
  <2> QED  BY <1>0, <1>5, <2>1, <2>2, StateAt, MovingStep DEF Moving
<1> QED  BY <1>1, <1>2, <1>3, <1>4, <1>5 DEF Idle, Start

(* The rest of a move and of homing. *)
LEMMA MachineStep ==
  ASSUME WritesInv, Track,
         \/ QueuePdoStart \/ WaitSetPointAck \/ WaitSetPointAckClear \/ SeeJog \/ NextJog
         \/ WaitTargetReached \/ QueuePdoHomeStart \/ WaitHomeComplete
  PROVE  WritesInv'
<1>0. /\ mapped' = mapped /\ jobs' = jobs /\ status' = status /\ dirty' = dirty /\ writer' = writer
      /\ FewInv
  BY DEF WritesInv, QueuePdoStart, WaitSetPointAck, WaitSetPointAckClear, SeeJog, NextJog, WaitTargetReached,
         QueuePdoHomeStart, WaitHomeComplete, Write, MoveFrame, sdoVars, driveVars
<1>1. CASE UNCHANGED machine
  BY <1>0, <1>1, QuietStep DEF machine, Gone
<1>2. ASSUME NEW s \in Started \cup {"QueuePdoStart"}, At(s), Moving PROVE WritesInv'
  <2>1. Harmless => Places = {}
    BY <1>0, <1>2 DEF FewInv
  <2>2. state' = s /\ chain' = "profile" /\ at' = 1
    BY <1>2, StateAt
  <2>3. Moving' /\ dirty' \in BOOLEAN
    BY <1>0, <1>2, <2>2 DEF Moving, WritesInv, ChainInv
  <2> QED  BY <1>0, <2>1, <2>2, <2>3, MovingStep
<1>3. ASSUME NEW s \in {"Done", "WaitHomeComplete"}, At(s), state # "Wait" PROVE WritesInv'
  <2>1. state' = s /\ chain' = "profile" /\ at' = 1 /\ at' \in 1 .. Len(Chain(chain'))
    BY <1>3, StateAt
  <2>2. ~Sending("Queue")' /\ ~Sending("Wait")' /\ ~Moving' /\ ~Sending("Wait")
    BY <1>3, <2>1 DEF Sending, Moving, Started
  <2> QED  BY <1>0, <2>1, <2>2, OutsideStep
<1>4. CASE Enter("restore")
  BY <1>0, <1>4, StateAt, LeaveStep
<1>5. CASE QueuePdoStart \/ WaitSetPointAck \/ WaitSetPointAckClear \/ SeeJog \/ NextJog \/ WaitTargetReached
  <2>1. state \in Started \cup {"QueuePdoStart"} /\ Moving /\ state # "Wait"
    BY <1>5 DEF QueuePdoStart, WaitSetPointAck, WaitSetPointAckClear, SeeJog, NextJog, WaitTargetReached,
                InState, Moving, Started
  <2>2. \/ UNCHANGED machine \/ (\E s \in Started \cup {"QueuePdoStart"} : At(s))
        \/ At("Done") \/ At("Fault")
    BY <1>5 DEF QueuePdoStart, WaitSetPointAck, WaitSetPointAckClear, SeeJog, NextJog, WaitTargetReached, Started
  <2>3. CASE At("Fault")
    BY <1>0, <2>3, StateAt, LeaveStep
  <2> QED  BY <1>1, <1>2, <1>3, <2>1, <2>2, <2>3
<1>6. CASE QueuePdoHomeStart \/ WaitHomeComplete
  <2>1. state # "Wait"
    BY <1>6 DEF QueuePdoHomeStart, WaitHomeComplete, InState
  <2>2. UNCHANGED machine \/ At("WaitHomeComplete") \/ Enter("restore")
    BY <1>6 DEF QueuePdoHomeStart, WaitHomeComplete
  <2> QED  BY <1>1, <1>3, <1>4, <2>1, <2>2
<1> QED  BY <1>5, <1>6

LEMMA OtherStep ==
  ASSUME WritesInv, Track, Command \/ CommandGoesOn \/ StopRequest \/ StopState \/ DoneOrFault
  PROVE  WritesInv'
<1>1. CASE Command \/ CommandGoesOn \/ StopRequest
  <2>1. UNCHANGED <<state, chain, at, jobs, status, mapped, writer>> /\ (dirty' = dirty \/ dirty' = TRUE)
    BY <1>1 DEF Command, CommandGoesOn, SetProfile, Move, Home, Jog, Stop, ServoOn, ServoOff, SetHome, ReqMove,
                UiFrame, StopRequest, StopFrame, machine, sdoVars, driveVars
  <2> QED  BY <2>1, QuietStep DEF Gone
<1>2. CASE StopState \/ DoneOrFault
  <2>1. mapped' = mapped /\ jobs' = jobs /\ dirty' = dirty /\ (At("Idle") \/ Enter("restore"))
    BY <1>2 DEF StopState, DoneOrFault, StopFrame, driveVars, sdoVars, Write
  <2> QED  BY <2>1, StateAt, LeaveStep
<1> QED  BY <1>1, <1>2

(* When a move begins, no write of a profile is left in the SDO worker's   *)
(* queue, neither its own nor an earlier one's, unless chains were broken  *)
(* off as the property says (ProcessMoveAbsStateMachine, WaitWrite6081 to  *)
(* WaitWrite6084); for every profile, mapping and queue size.              *)
THEOREM NoWriteLeft == HistorySpec => []NoProfileWriteWhileMoving
<1>1. HistoryInit => WritesInv
  <2> SUFFICES ASSUME HistoryInit PROVE WritesInv
    OBVIOUS
  <2>1. jobs = <<>> /\ broken = 0 /\ dirty = TRUE /\ state = "Idle" /\ chain = "profile" /\ at = 1
    BY DEF HistoryInit, Init
  <2>2. Places = {}
    BY <2>1 DEF Places
  <2>3. ~Waiting /\ ~Sending("Wait") /\ ~Sending("Queue")
    BY <2>1 DEF Waiting, Sending
  <2>4. ChainInv
    BY <2>1, <2>3, StateAt DEF ChainInv
  <2> QED  BY <2>2, <2>3, <2>4 DEF WritesInv, OwnInv, FewInv, OrderInv, Left
<1>2. WritesInv /\ [Next /\ Track]_<<vars, broken>> => WritesInv'
  <2> SUFFICES ASSUME WritesInv, [Next /\ Track]_<<vars, broken>> PROVE WritesInv'
    OBVIOUS
  <2>1. CASE Next /\ Track
    BY <2>1, WorkerStep, QueueStep, WaitStep, IdleStep, MachineStep, OtherStep DEF Next, Cycle
  <2>2. CASE UNCHANGED <<vars, broken>>
    BY <2>2 DEF vars, WritesInv, ChainInv, OwnInv, Gone, FewInv, OrderInv, Harmless, Left, Places, Waiting, Sending,
                NoneBefore, Answered, InPlaceOf, Moving, Started
  <2> QED  BY <2>1, <2>2
<1>3. WritesInv => NoProfileWriteWhileMoving
  <2>1. ProfileJobs = {} <=> Places = {}
    BY DEF ProfileJobs, Places, Range
  <2> QED  BY <2>1 DEF WritesInv, FewInv, NoProfileWriteWhileMoving, Harmless
<1> QED  BY <1>1, <1>2, <1>3, PTL DEF HistorySpec

-----------------------------------------------------------------------------
(* The error list and the error messages of the wrapper.  While no two     *)
(* threads have met, the list is described at every step of the one thread *)
(* that may be in it: which entries of the ring are the log, counted from  *)
(* the tail, and which one is about to be there.                           *)
Kinds == {"SDO_ERROR", "PACKET_ERROR", "MBX_ERROR", "EMERGENCY"}
Error == Nat \X Nat \X Kinds
Pushing == {"store", "head", "full"}
Popping == {"take", "take none", "tail"}

TypeOK ==
  /\ head \in Int /\ tail \in Int /\ DOMAIN ring = Slots
  /\ place \in [Threads -> {"out"} \cup Pushing \cup Popping]
  /\ DOMAIN ec = Threads /\ DOMAIN due = Threads
  /\ log \in Seq(Error) /\ Len(log) <= MaxElist /\ met \in BOOLEAN
  /\ transfers \in Nat /\ DOMAIN pc = {sdo, pdo}
  /\ DOMAIN transfer = {"op", "ok", "raised", "waiting"}
  /\ transfer.raised \in Nat /\ transfer.waiting \in Nat
  /\ DOMAIN message = {"last", "text"}

(* The slot i places after slot 0, and how many lie from tail to head.     *)
Slot(i) == IF i > MaxElist THEN i - (MaxElist + 1) ELSE i
Length == IF head >= tail THEN head - tail ELSE head - tail + MaxElist + 1

(* The log is what lies in the ring from the k-th entry after the tail on, *)
(* up to the n-th of the log.                                              *)
Lies(k, n) == \A i \in 1 .. n : log[i] = ring[Slot(tail + k + i - 1)]

Alone == \A t, u \in Threads : place[t] # "out" /\ place[u] # "out" => t = u

Place(t) ==
  /\ place[t] = "store" /\ Length < MaxElist =>
       Len(log) = Length + 1 /\ Lies(0, Length) /\ log[Length + 1] = ec[t]
  /\ place[t] = "store" /\ Length = MaxElist =>
       Len(log) = MaxElist /\ Lies(1, MaxElist - 1) /\ log[MaxElist] = ec[t]
  /\ place[t] = "head" /\ Length < MaxElist => Len(log) = Length + 1 /\ Lies(0, Len(log))
  /\ place[t] = "head" /\ Length = MaxElist => Len(log) = MaxElist /\ Lies(1, Len(log))
  /\ place[t] = "full" /\ head # tail => Len(log) = Length /\ Lies(0, Len(log))
  /\ place[t] = "full" /\ head = tail => Len(log) = MaxElist /\ Lies(1, Len(log))
  /\ place[t] \in {"take", "tail"} =>
       Length > 0 /\ Len(log) = Length - 1 /\ Lies(1, Len(log)) /\ due[t] = ring[tail]
  /\ place[t] = "take none" => head = tail /\ Len(log) = 0 /\ due[t] = NoError
  /\ place[t] = "tail" => ec[t] = due[t]

InRing ==
  /\ head \in Slots /\ tail \in Slots
  /\ Inside = {} => Len(log) = Length /\ Lies(0, Len(log))
  /\ \A t \in Threads : Place(t)

RingInv == ~met => Alone /\ InRing

(* How the errors of a read keep to it: of the log, all but those that     *)
(* waited are of this transfer, and after the pop that follows every read  *)
(* all of it is; so is what the two pops for the message take.             *)
OwnAfter(k) == \A i \in 1 .. Len(log) : i > k => Own(log[i])
OwnOrNone(e) == e # NoError => Own(e)

Reading ==
  /\ pc[sdo] \in {"transfer", "elist"} => OwnAfter(transfer.waiting)
  /\ pc[sdo] \in {"read", "info", "pop info", "shown", "elist2", "told"} /\ inited => OwnAfter(0)
  /\ pc[sdo] \in {"pop info", "shown", "told"} => inited
  /\ pc[sdo] \in {"shown", "told"} =>
       /\ OwnOrNone(due[sdo]) /\ place[sdo] \notin Pushing
       /\ place[sdo] = "out" => ec[sdo] = due[sdo]
  /\ pc[sdo] \in {"elist2", "told", "idle"} => OwnOrNone(message.last)
  /\ pc[sdo] \in {"info", "pop info", "shown", "elist2"} => message.text = NoText
  /\ pc[sdo] = "info" => message.last = NoError
  /\ pc[sdo] = "idle" /\ message.text # NoText => Own(message.text.error)

MessageInv == ~met /\ transfer.op = "read" /\ transfer.waiting <= 1 => Reading

-----------------------------------------------------------------------------
(* Counting round the ring with % is what Slot and Length say.             *)
LEMMA Modulo ==
  ASSUME NEW k \in Nat \ {0}, NEW a \in 0 .. (2 * k - 1)
  PROVE  a % k = IF a >= k THEN a - k ELSE a
OBVIOUS

(* What a push leaves of the log: the last MaxElist errors of it.          *)
LEMMA LatestIs ==
  ASSUME ErrorListAssumption, log \in Seq(Error), Len(log) <= MaxElist, NEW e \in Error
  PROVE  /\ Latest(Append(log, e)) \in Seq(Error)
         /\ Len(log) < MaxElist =>
              /\ Len(Latest(Append(log, e))) = Len(log) + 1
              /\ \A i \in 1 .. Len(log) : Latest(Append(log, e))[i] = log[i]
              /\ Latest(Append(log, e))[Len(log) + 1] = e
         /\ Len(log) = MaxElist =>
              /\ Len(Latest(Append(log, e))) = MaxElist
              /\ \A i \in 1 .. MaxElist - 1 : Latest(Append(log, e))[i] = log[i + 1]
              /\ Latest(Append(log, e))[MaxElist] = e
BY DEF Latest, ErrorListAssumption

(* An error as the library appends it together is a triple.                *)
LEMMA Triple ==
  ASSUME NEW S, NEW a \in S, NEW b \in S, NEW c \in S
  PROVE  Append(<<a, b>>, c) = <<a, b, c>>
<1>1. <<a, b>> \in Seq(S) /\ <<a, b, c>> \in Seq(S)
  OBVIOUS
<1>2. Append(<<a, b>>, c) \in Seq(S) /\ Len(Append(<<a, b>>, c)) = Len(<<a, b, c>>)
  BY <1>1, AppendProperties
<1>3. ASSUME NEW i \in 1 .. Len(Append(<<a, b>>, c))
      PROVE  Append(<<a, b>>, c)[i] = <<a, b, c>>[i]
  <2>1. i \in {1, 2, 3}
    BY <1>1, <1>2
  <2> QED BY <1>1, <2>1, AppendProperties
<1> QED BY <1>1, <1>2, <1>3, SeqEqual, Zenon

(* The errors of a transfer are errors of the list.                        *)
LEMMA OriginIs ==
  ASSUME TypeOK, NEW k \in Kinds
  PROVE  /\ Append(Origin, k) \in Error
         /\ Append(Origin, k)[1] = transfers
<1> DEFINE S == Nat \cup Kinds
<1>1. transfers \in Nat /\ transfer.raised + 1 \in Nat
  BY DEF TypeOK
<1>2. Append(Origin, k) = <<transfers, transfer.raised + 1, k>>
  <2>1. transfers \in S /\ transfer.raised + 1 \in S /\ k \in S
    BY <1>1
  <2> HIDE DEF S
  <2> QED BY <2>1, Triple DEF Origin
<1> QED BY <1>1, <1>2 DEF Error

-----------------------------------------------------------------------------
(* With one thread in the list, its place is all there is to keep.         *)
LEMMA OnePlace ==
  ASSUME TypeOK, NEW t \in Threads, place' \in [Threads -> {"out"} \cup Pushing \cup Popping],
         \A u \in Threads \ {t} : place'[u] = "out",
         head' \in Slots, tail' \in Slots, Place(t)',
         place'[t] = "out" => (Len(log) = Length /\ Lies(0, Len(log)))'
  PROVE  Alone' /\ InRing'
<1>1. Alone'
  BY DEF Alone
<1>2. ASSUME NEW u \in Threads \ {t} PROVE Place(u)'
  <2>1. place'[u] = "out"
    OBVIOUS
  <2> QED BY <2>1 DEF Place
<1>3. \A u \in Threads : Place(u)'
  BY <1>2
<1>4. (Inside = {} => Len(log) = Length /\ Lies(0, Len(log)))'
  <2>1. Inside' = {} => place'[t] = "out"
    BY DEF Inside
  <2> QED BY <2>1
<1>5. InRing'
  BY <1>3, <1>4 DEF InRing
<1> QED BY <1>1, <1>5

(* Whoever is in the list is there alone.                                  *)
LEMMA NoOther ==
  ASSUME ErrorListAssumption, TypeOK, RingInv, ~met, NEW t \in Threads, place[t] # "out"
  PROVE  /\ \A u \in Threads \ {t} : place[u] = "out"
         /\ Place(t) /\ head \in Slots /\ tail \in Slots /\ Length \in 0 .. MaxElist
BY DEF RingInv, Alone, InRing, TypeOK, Length, Slots, ErrorListAssumption

(* And whoever enters while nobody is there finds the log in the ring.     *)
LEMMA Nobody ==
  ASSUME ErrorListAssumption, TypeOK, RingInv, NEW t \in Threads, NEW where, EnterList(t, where), ~met'
  PROVE  /\ ~met /\ \A u \in Threads : place[u] = "out"
         /\ Len(log) = Length /\ Lies(0, Len(log))
         /\ head \in Slots /\ tail \in Slots /\ Length \in 0 .. MaxElist
<1>1. ~met /\ Inside = {}
  BY DEF EnterList, TypeOK
<1>2. InRing /\ \A u \in Threads : place[u] = "out"
  BY <1>1 DEF RingInv, Inside
<1>3. Length \in 0 .. MaxElist
  BY <1>2 DEF InRing, Length, Slots, ErrorListAssumption
<1> QED BY <1>1, <1>2, <1>3 DEF InRing

(***************************************************************************)
(* One lemma for every step in the list: it keeps its place in it.         *)
(***************************************************************************)
(* A push decides what the log will be.                                    *)
LEMMA PushRing ==
  ASSUME ErrorListAssumption, TypeOK, RingInv, NEW t \in Threads, NEW e \in Error, Push(t, e)
  PROVE  RingInv'
<1> SUFFICES ASSUME ~met' PROVE Alone' /\ InRing'
  BY DEF RingInv
<1>1. /\ place' = [place EXCEPT ![t] = "store"] /\ ec'[t] = e
      /\ log' = Latest(Append(log, e)) /\ UNCHANGED <<head, tail, ring>> /\ Length' = Length
  BY DEF Push, EnterList, TypeOK, Length
<1>2. /\ \A u \in Threads : place[u] = "out"
      /\ Len(log) = Length /\ Lies(0, Len(log))
      /\ head \in Slots /\ tail \in Slots /\ Length \in 0 .. MaxElist
  BY Nobody DEF Push
<1>3. place'[t] = "store" /\ place' \in [Threads -> {"out"} \cup Pushing \cup Popping]
  BY <1>1 DEF TypeOK, Pushing
<1>4. Place(t)'
  <2>1. CASE Length < MaxElist
    <3>1. Len(log') = Length + 1 /\ log'[Length + 1] = e
      BY <1>1, <1>2, <2>1, LatestIs DEF TypeOK
    <3>2. Lies(0, Length)'
      BY <1>1, <1>2, <2>1, LatestIs DEF TypeOK, Lies, Slot
    <3> QED BY <1>1, <1>3, <2>1, <3>1, <3>2 DEF Place
  <2>2. CASE Length = MaxElist
    <3>1. Len(log') = MaxElist /\ log'[MaxElist] = e
      BY <1>1, <1>2, <2>2, LatestIs DEF TypeOK
    <3>2. Lies(1, MaxElist - 1)'
      BY <1>1, <1>2, <2>2, LatestIs DEF TypeOK, Lies, Slot, Slots, ErrorListAssumption
    <3> QED BY <1>1, <1>3, <2>2, <3>1, <3>2 DEF Place
  <2> QED BY <1>2, <2>1, <2>2 DEF ErrorListAssumption
<1> QED BY <1>1, <1>2, <1>3, <1>4, OnePlace

(* ecx_pusherror stores the error where the head is.                       *)
LEMMA StoreRing ==
  ASSUME ErrorListAssumption, TypeOK, RingInv, NEW t \in Threads, Store(t)
  PROVE  RingInv'
<1> SUFFICES ASSUME ~met' PROVE Alone' /\ InRing'
  BY DEF RingInv
<1>1. /\ place' = [place EXCEPT ![t] = "head"] /\ place[t] = "store" /\ ~met
      /\ UNCHANGED <<head, tail, log>> /\ Length' = Length
  BY DEF Store, Length
<1>2. /\ \A u \in Threads \ {t} : place[u] = "out" /\ place'[u] = "out"
      /\ Place(t) /\ head \in Slots /\ tail \in Slots /\ Length \in 0 .. MaxElist
  BY <1>1, NoOther DEF TypeOK
<1>3. place'[t] = "head" /\ place' \in [Threads -> {"out"} \cup Pushing \cup Popping]
  BY <1>1 DEF TypeOK, Pushing
<1>4. \A s \in Slots : ring'[s] = IF s = head THEN ec[t] ELSE ring[s]
  BY <1>2 DEF Store, TypeOK
<1>5. Place(t)'
  <2>1. CASE Length < MaxElist
    <3>1. Len(log) = Length + 1 /\ Lies(0, Length) /\ log[Length + 1] = ec[t]
      BY <1>1, <1>2, <2>1 DEF Place
    <3>2. Lies(0, Length + 1)'
      BY <1>1, <1>2, <1>4, <2>1, <3>1 DEF Lies, Slot, Slots, Length, ErrorListAssumption
    <3> QED BY <1>1, <1>3, <2>1, <3>1, <3>2 DEF Place
  <2>2. CASE Length = MaxElist
    <3>1. Len(log) = MaxElist /\ Lies(1, MaxElist - 1) /\ log[MaxElist] = ec[t]
      BY <1>1, <1>2, <2>2 DEF Place
    <3>2. Lies(1, MaxElist)'
      BY <1>1, <1>2, <1>4, <2>2, <3>1 DEF Lies, Slot, Slots, Length, ErrorListAssumption
    <3> QED BY <1>1, <1>3, <2>2, <3>1, <3>2 DEF Place
  <2> QED BY <1>2, <2>1, <2>2 DEF ErrorListAssumption
<1> QED BY <1>1, <1>2, <1>3, <1>5, OnePlace

(* The head moves; the ring is full when it meets the tail.                *)
LEMMA HeadRing ==
  ASSUME ErrorListAssumption, TypeOK, RingInv, NEW t \in Threads, MoveHead(t)
  PROVE  RingInv'
<1> SUFFICES ASSUME ~met' PROVE Alone' /\ InRing'
  BY DEF RingInv
<1>1. /\ place' = [place EXCEPT ![t] = "full"] /\ place[t] = "head" /\ ~met
      /\ UNCHANGED <<tail, ring, log>> /\ head' = IF head = MaxElist THEN 0 ELSE head + 1
  BY NoOther DEF MoveHead, Wrapped, Slots, ErrorListAssumption
<1>2. /\ \A u \in Threads \ {t} : place[u] = "out" /\ place'[u] = "out"
      /\ Place(t) /\ head \in Slots /\ tail \in Slots /\ Length \in 0 .. MaxElist
  BY <1>1, NoOther DEF TypeOK
<1>3. place'[t] = "full" /\ place' \in [Threads -> {"out"} \cup Pushing \cup Popping]
  BY <1>1 DEF TypeOK, Pushing
<1>4. head' \in Slots
  BY <1>1, <1>2 DEF Slots, ErrorListAssumption
<1>5. Place(t)'
  <2>1. CASE Length < MaxElist
    <3>1. head' # tail' /\ Length' = Length + 1
      BY <1>1, <1>2, <2>1 DEF Length, Slots, ErrorListAssumption
    <3>2. Len(log) = Length + 1 /\ Lies(0, Len(log))
      BY <1>1, <1>2, <2>1 DEF Place
    <3>3. Lies(0, Len(log))'
      BY <1>1, <3>2 DEF Lies
    <3> QED BY <1>1, <1>3, <3>1, <3>2, <3>3 DEF Place
  <2>2. CASE Length = MaxElist
    <3>1. head' = tail'
      BY <1>1, <1>2, <2>2 DEF Length, Slots, ErrorListAssumption
    <3>2. Len(log) = MaxElist /\ Lies(1, Len(log))
      BY <1>1, <1>2, <2>2 DEF Place
    <3>3. Lies(1, Len(log))'
      BY <1>1, <3>2 DEF Lies
    <3> QED BY <1>1, <1>3, <3>1, <3>2, <3>3 DEF Place
  <2> QED BY <1>2, <2>1, <2>2 DEF ErrorListAssumption
<1> QED BY <1>1, <1>2, <1>3, <1>4, <1>5, OnePlace

(* Of a full ring the oldest error goes.                                   *)
LEMMA DropRing ==
  ASSUME ErrorListAssumption, TypeOK, RingInv, NEW t \in Threads, DropOldest(t)
  PROVE  RingInv'
<1> SUFFICES ASSUME ~met' PROVE Alone' /\ InRing'
  BY DEF RingInv
<1>1. /\ place' = [place EXCEPT ![t] = "out"] /\ place[t] = "full" /\ ~met
      /\ UNCHANGED <<head, ring, log>>
      /\ tail' = IF head # tail THEN tail ELSE IF tail = MaxElist THEN 0 ELSE tail + 1
  BY NoOther DEF DropOldest, Wrapped, Slots, ErrorListAssumption
<1>2. /\ \A u \in Threads \ {t} : place[u] = "out" /\ place'[u] = "out"
      /\ Place(t) /\ head \in Slots /\ tail \in Slots
  BY <1>1, NoOther DEF TypeOK
<1>3. place'[t] = "out" /\ place' \in [Threads -> {"out"} \cup Pushing \cup Popping]
  BY <1>1 DEF TypeOK
<1>4. tail' \in Slots /\ Place(t)'
  BY <1>1, <1>2, <1>3 DEF Slots, Place, ErrorListAssumption
<1>5. (Len(log) = Length /\ Lies(0, Len(log)))'
  <2>1. CASE head = tail
    <3>1. Len(log) = MaxElist /\ Lies(1, MaxElist)
      BY <1>1, <1>2, <2>1 DEF Place
    <3>2. Length' = MaxElist
      BY <1>1, <1>2, <2>1 DEF Length, Slots, ErrorListAssumption
    <3>3. Lies(0, MaxElist)'
      BY <1>1, <1>2, <2>1, <3>1 DEF Lies, Slot, Slots, ErrorListAssumption
    <3> QED BY <1>1, <3>1, <3>2, <3>3
  <2>2. CASE head # tail
    BY <1>1, <1>2, <2>2 DEF Place, Lies, Length
  <2> QED BY <2>1, <2>2
<1> QED BY <1>1, <1>2, <1>3, <1>4, <1>5, OnePlace

(* ecx_poperror finds the list empty or not.                               *)
LEMMA PopRing ==
  ASSUME ErrorListAssumption, TypeOK, RingInv, NEW t \in Threads, Pop(t)
  PROVE  RingInv'
<1> SUFFICES ASSUME ~met' PROVE Alone' /\ InRing'
  BY DEF RingInv
<1> DEFINE where == IF head # tail THEN "take" ELSE "take none"
<1>1. /\ place' = [place EXCEPT ![t] = where] /\ UNCHANGED <<head, tail, ring>> /\ Length' = Length
      /\ due'[t] = IF log = <<>> THEN NoError ELSE Head(log)
      /\ log' = IF log = <<>> THEN log ELSE Tail(log)
  BY DEF Pop, EnterList, TypeOK, Length
<1>2. /\ \A u \in Threads : place[u] = "out"
      /\ Len(log) = Length /\ Lies(0, Len(log))
      /\ head \in Slots /\ tail \in Slots /\ Length \in 0 .. MaxElist
  BY Nobody DEF Pop
<1>3. place'[t] = where /\ place' \in [Threads -> {"out"} \cup Pushing \cup Popping]
  BY <1>1 DEF TypeOK, Popping
<1>4. Place(t)'
  <2>1. CASE head = tail
    <3>1. Length = 0 /\ log = <<>>
      BY <1>2, <2>1 DEF Length, Slots, TypeOK, ErrorListAssumption
    <3> QED BY <1>1, <1>3, <2>1, <3>1 DEF Place
  <2>2. CASE head # tail
    <3>1. Length > 0 /\ log # <<>>
      BY <1>2, <2>2 DEF Length, Slots, TypeOK, ErrorListAssumption
    <3>2. Len(log') = Length - 1 /\ \A i \in 1 .. Len(log') : log'[i] = log[i + 1]
      <4>1. log' = Tail(log) /\ log \in Seq(Error) /\ Len(log) = Length
        BY <1>1, <1>2, <3>1 DEF TypeOK
      <4> QED BY <3>1, <4>1, HeadTailProperties
    <3>3. Lies(1, Len(log))'
      <4>1. ASSUME NEW i \in 1 .. Len(log') PROVE log'[i] = ring[Slot(tail + 1 + i - 1)]
        <5>1. i + 1 \in 1 .. Len(log) /\ log'[i] = log[i + 1]
          BY <1>2, <3>1, <3>2
        <5>2. log[i + 1] = ring[Slot(tail + 0 + (i + 1) - 1)]
          BY <1>2, <5>1 DEF Lies
        <5>3. tail + 0 + (i + 1) - 1 = tail + 1 + i - 1
          BY <1>2, <5>1 DEF Slots, ErrorListAssumption
        <5> QED BY <5>1, <5>2, <5>3
      <4> QED BY <1>1, <4>1 DEF Lies, Slot
    <3>4. due'[t] = ring[tail]
      <4>1. due'[t] = log[1]
        <5>1. log \in Seq(Error) /\ due'[t] = Head(log)
          BY <1>1, <3>1 DEF TypeOK
        <5> QED BY <5>1
      <4>2. 1 \in 1 .. Len(log)
        BY <1>2, <3>1
      <4>3. log[1] = ring[Slot(tail)]
        BY <1>2, <4>2 DEF Lies, Slots
      <4> QED BY <1>2, <4>1, <4>3 DEF Slot, Slots, ErrorListAssumption
    <3> QED BY <1>1, <1>3, <2>2, <3>1, <3>2, <3>3, <3>4 DEF Place
  <2> QED BY <2>1, <2>2
<1> QED BY <1>1, <1>2, <1>3, <1>4, OnePlace DEF Popping

(* It takes the error at the tail, or none.                                *)
LEMMA TakeRing ==
  ASSUME ErrorListAssumption, TypeOK, RingInv, NEW t \in Threads, Take(t) \/ TakeNone(t)
  PROVE  RingInv'
<1> SUFFICES ASSUME ~met' PROVE Alone' /\ InRing'
  BY DEF RingInv
<1>1. /\ place[t] # "out" /\ ~met /\ UNCHANGED <<head, tail, ring, log, due>> /\ Length' = Length
  <2>1. CASE Take(t)
    BY <2>1 DEF Take, Length
  <2>2. CASE TakeNone(t)
    BY <2>2 DEF TakeNone, Length
  <2> QED BY <2>1, <2>2
<1>2. /\ \A u \in Threads \ {t} : place[u] = "out" /\ place'[u] = "out"
      /\ Place(t) /\ head \in Slots /\ tail \in Slots /\ Length \in 0 .. MaxElist
  BY <1>1, NoOther DEF TypeOK, Take, TakeNone
<1>3. CASE Take(t)
  <2>1. place'[t] = "tail" /\ place' \in [Threads -> {"out"} \cup Pushing \cup Popping]
        /\ place[t] = "take" /\ ec'[t] = ring[tail]
    BY <1>2, <1>3 DEF Take, TypeOK, Popping
  <2>2. Place(t)'
    BY <1>1, <1>2, <2>1 DEF Place, Lies
  <2> QED BY <1>1, <1>2, <2>1, <2>2, OnePlace
<1>4. CASE TakeNone(t)
  <2>1. place'[t] = "out" /\ place' \in [Threads -> {"out"} \cup Pushing \cup Popping]
        /\ place[t] = "take none"
    BY <1>4 DEF TakeNone, TypeOK
  <2>2. Length = 0 /\ Len(log) = 0
    <3>1. head = tail /\ Len(log) = 0
      BY <1>2, <2>1 DEF Place
    <3> QED BY <1>2, <3>1 DEF Length, Slots, ErrorListAssumption
  <2>3. Place(t)' /\ (Len(log) = Length /\ Lies(0, Len(log)))'
    <3>1. Len(log') = 0 /\ Length' = 0
      BY <1>1, <2>2
    <3>2. Place(t)'
      BY <2>1 DEF Place
    <3> QED BY <3>1, <3>2 DEF Lies
  <2> QED BY <1>1, <1>2, <2>1, <2>3, OnePlace
<1> QED BY <1>3, <1>4

(* The tail moves.                                                         *)
LEMMA TailRing ==
  ASSUME ErrorListAssumption, TypeOK, RingInv, NEW t \in Threads, MoveTail(t)
  PROVE  RingInv'
<1> SUFFICES ASSUME ~met' PROVE Alone' /\ InRing'
  BY DEF RingInv
<1>1. /\ place' = [place EXCEPT ![t] = "out"] /\ place[t] = "tail" /\ ~met
      /\ UNCHANGED <<head, ring, log>> /\ tail' = IF tail = MaxElist THEN 0 ELSE tail + 1
  BY NoOther DEF MoveTail, Wrapped, Slots, ErrorListAssumption
<1>2. /\ \A u \in Threads \ {t} : place[u] = "out" /\ place'[u] = "out"
      /\ Place(t) /\ head \in Slots /\ tail \in Slots
  BY <1>1, NoOther DEF TypeOK
<1>3. place'[t] = "out" /\ place' \in [Threads -> {"out"} \cup Pushing \cup Popping]
  BY <1>1 DEF TypeOK
<1>4. tail' \in Slots /\ Place(t)'
  BY <1>1, <1>2, <1>3 DEF Slots, Place, ErrorListAssumption
<1>5. Length > 0 /\ Len(log) = Length - 1 /\ Lies(1, Len(log))
  BY <1>1, <1>2 DEF Place
<1>6. Length' = Length - 1
  BY <1>1, <1>2, <1>5 DEF Length, Slots, ErrorListAssumption
<1>7. Lies(0, Len(log))'
  BY <1>1, <1>2, <1>5 DEF Lies, Slot, Slots, Length, ErrorListAssumption
<1> QED BY <1>1, <1>2, <1>3, <1>4, <1>5, <1>6, <1>7, OnePlace

(* soem_open clears the list.                                              *)
LEMMA ResetRing ==
  ASSUME ErrorListAssumption, TypeOK, RingInv, Reset
  PROVE  RingInv'
<1> SUFFICES ASSUME ~met' PROVE Alone' /\ InRing'
  BY DEF RingInv
<1>1. \A u \in Threads : place[u] = "out"
  BY DEF Reset, Inside, TypeOK
<1>2. head' = 0 /\ tail' = 0 /\ log' = <<>> /\ place' = place
  BY DEF Reset
<1>3. Alone' /\ \A u \in Threads : Place(u)'
  BY <1>1, <1>2 DEF Alone, Place
<1> QED BY <1>2, <1>3 DEF InRing, Lies, Length, Slots, ErrorListAssumption

(* Every step inside the list keeps the ring.                              *)
LEMMA ListRing ==
  ASSUME ErrorListAssumption, TypeOK, RingInv, NEW t \in Threads, PushStep(t) \/ PopStep(t)
  PROVE  RingInv'
BY StoreRing, HeadRing, DropRing, TakeRing, TailRing DEF PushStep, PopStep

(* Steps that leave the list alone.                                        *)
LEMMA SameRing ==
  ASSUME RingInv, UNCHANGED listVars
  PROVE  RingInv'
BY DEF listVars, RingInv, Alone, InRing, Place, Lies, Length, Inside

(* What the SDO worker pushes in a transfer.                               *)
LEMMA Raise ==
  ASSUME TypeOK, Receive \/ Fails
  PROVE  UNCHANGED listVars
         \/ \E e \in Error : e[1] = transfers /\ Push(sdo, e)
BY OriginIs DEF Receive, Fails, MbxError, MbxEmergencyError, SDOerror, PacketError, Kinds

-----------------------------------------------------------------------------
(* At the start.                                                           *)
LEMMA Initially == ErrorListAssumption /\ WrapperAssumption /\ WrapperInit => TypeOK /\ RingInv /\ MessageInv
<1> SUFFICES ASSUME ErrorListAssumption, WrapperAssumption, WrapperInit
             PROVE  TypeOK /\ RingInv /\ MessageInv
  OBVIOUS
<1> USE DEF WrapperInit, ListInit
<1>1. TypeOK
  <2>1. DOMAIN pc = {sdo, pdo} /\ DOMAIN message = {"last", "text"}
        /\ DOMAIN transfer = {"op", "ok", "raised", "waiting"}
        /\ transfer.raised \in Nat /\ transfer.waiting \in Nat
    BY DEF NoTransfer, NoMessage
  <2>2. log \in Seq(Error) /\ Len(log) = 0 /\ MaxElist \in Nat
    BY DEF ErrorListAssumption
  <2>3. place \in [Threads -> {"out"} \cup Pushing \cup Popping] /\ met \in BOOLEAN
    OBVIOUS
  <2>4. head \in Int /\ tail \in Int /\ transfers \in Nat
    OBVIOUS
  <2>5. DOMAIN ring = Slots /\ DOMAIN ec = Threads /\ DOMAIN due = Threads
    OBVIOUS
  <2> QED BY <2>1, <2>2, <2>3, <2>4, <2>5 DEF TypeOK
<1>2. RingInv
  BY DEF RingInv, Alone, InRing, Place, Lies, Length, Slots, ErrorListAssumption
<1>3. MessageInv
  BY DEF MessageInv, NoTransfer
<1> QED BY <1>1, <1>2, <1>3

(* Types are kept by a push,                                               *)
LEMMA PushTypes ==
  ASSUME ErrorListAssumption, TypeOK, NEW t \in Threads, NEW e \in Error, Push(t, e),
         UNCHANGED <<transfers, message>>, DOMAIN pc' = {sdo, pdo},
         DOMAIN transfer' = {"op", "ok", "raised", "waiting"},
         transfer.raised' \in Nat, transfer.waiting' \in Nat
  PROVE  TypeOK'
<1>1. Latest(Append(log, e)) \in Seq(Error) /\ Len(Latest(Append(log, e))) <= MaxElist
  <2>1. Len(log) < MaxElist \/ Len(log) = MaxElist
    BY DEF TypeOK, ErrorListAssumption
  <2> QED BY <2>1, LatestIs DEF TypeOK, ErrorListAssumption
<1> QED BY <1>1 DEF TypeOK, Push, EnterList, Pushing, Inside

(* by a pop,                                                               *)
LEMMA PopTypes ==
  ASSUME ErrorListAssumption, TypeOK, NEW t \in Threads, Pop(t), UNCHANGED workVars,
         DOMAIN pc' = {sdo, pdo}
  PROVE  TypeOK'
<1>1. log' \in Seq(Error) /\ Len(log') <= MaxElist
  <2>1. CASE log = <<>>
    BY <2>1 DEF Pop, TypeOK
  <2>2. CASE log # <<>>
    <3>1. log' = Tail(log) /\ log \in Seq(Error) /\ Len(log) <= MaxElist
      BY <2>2 DEF Pop, TypeOK
    <3>2. Tail(log) \in Seq(Error) /\ Len(Tail(log)) = Len(log) - 1
      BY <2>2, <3>1, HeadTailProperties
    <3> QED BY <3>1, <3>2 DEF ErrorListAssumption
  <2> QED BY <2>1, <2>2
<1> QED BY <1>1 DEF TypeOK, Pop, EnterList, Popping, Inside, workVars

(* by the steps inside the list,                                           *)
LEMMA ListTypes ==
  ASSUME ErrorListAssumption, TypeOK, NEW t \in Threads, PushStep(t) \/ PopStep(t),
         UNCHANGED <<pc, workVars>>
  PROVE  TypeOK'
<1>0. \A n \in Int : Wrapped(n + 1) \in Int
  <2>1. MaxElist \in Nat
    BY DEF ErrorListAssumption
  <2> QED BY <2>1 DEF Wrapped
<1> USE DEF TypeOK, workVars, Pushing, Popping
<1>1. CASE Store(t)
  BY <1>1 DEF Store
<1>2. CASE MoveHead(t)
  BY <1>0, <1>2 DEF MoveHead
<1>3. CASE DropOldest(t)
  BY <1>0, <1>3 DEF DropOldest
<1>4. CASE Take(t)
  BY <1>4 DEF Take
<1>5. CASE TakeNone(t)
  BY <1>5 DEF TakeNone
<1>6. CASE MoveTail(t)
  BY <1>0, <1>6 DEF MoveTail
<1> QED BY <1>1, <1>2, <1>3, <1>4, <1>5, <1>6 DEF PushStep, PopStep

(* and so by every step of the program.                                    *)
LEMMA StepTypes == ErrorListAssumption /\ WrapperAssumption /\ TypeOK /\ [WrapperNext]_wrapperVars => TypeOK'
<1> SUFFICES ASSUME ErrorListAssumption, WrapperAssumption, TypeOK, [WrapperNext]_wrapperVars
             PROVE  TypeOK'
  OBVIOUS
<1>1. sdo \in Threads /\ pdo \in Threads
  BY DEF WrapperAssumption
<1> USE DEF workVars, listVars
<1>2. ASSUME NEW op \in {"read", "write"}, SdoTransfer(op) PROVE TypeOK'
  BY <1>2 DEF SdoTransfer, Go, NoTransfer, TypeOK
<1>3. CASE Receive
  <2>1. PICK e \in Error : Push(sdo, e)
    BY <1>3, OriginIs DEF Receive, MbxError, MbxEmergencyError, Kinds
  <2> QED BY <1>1, <1>3, <2>1, PushTypes DEF Receive, TypeOK
<1>4. CASE Succeeds
  BY <1>4 DEF Succeeds, AfterTransfer, Go, TypeOK
<1>5. CASE Fails
  <2>1. /\ UNCHANGED <<transfers, message>> /\ DOMAIN pc' = {sdo, pdo}
        /\ DOMAIN transfer' = {"op", "ok", "raised", "waiting"}
        /\ transfer.raised' \in Nat /\ transfer.waiting' \in Nat
    <3>1. \/ transfer' = [transfer EXCEPT !.ok = FALSE]
          \/ transfer' = [transfer EXCEPT !.ok = FALSE, !.raised = @ + 1]
      BY <1>5 DEF Fails
    <3>2. /\ DOMAIN transfer' = {"op", "ok", "raised", "waiting"}
          /\ transfer.raised' \in Nat /\ transfer.waiting' \in Nat
      <4>1. CASE transfer' = [transfer EXCEPT !.ok = FALSE]
        BY <4>1 DEF TypeOK
      <4>2. CASE transfer' = [transfer EXCEPT !.ok = FALSE, !.raised = @ + 1]
        BY <4>2 DEF TypeOK
      <4> QED BY <3>1, <4>1, <4>2
    <3>3. UNCHANGED <<transfers, message>> /\ DOMAIN pc' = {sdo, pdo}
      BY <1>5 DEF Fails, AfterTransfer, Go, TypeOK
    <3> QED BY <3>2, <3>3
  <2>2. CASE UNCHANGED listVars
    BY <2>1, <2>2 DEF TypeOK
  <2>3. ASSUME NEW e \in Error, Push(sdo, e) PROVE TypeOK'
    BY <1>1, <2>1, <2>3, PushTypes
  <2> QED BY <1>5, <2>2, <2>3, Raise
<1>6. ASSUME NEW from, NEW to, GetSoemErrorString(from, to) PROVE TypeOK'
  BY <1>1, <1>6, PopTypes DEF GetSoemErrorString, Go, TypeOK
<1>7. ASSUME NEW from, NEW to, NotOpen(from, to) PROVE TypeOK'
  BY <1>7 DEF NotOpen, Go, TypeOK
<1>8. CASE AfterRead \/ Shown \/ Told
  BY <1>8 DEF AfterRead, Shown, Told, NoMessage, Go, TypeOK
<1>9. CASE GetLastErrorInfo
  BY <1>9 DEF GetLastErrorInfo, Go, TypeOK
<1>10. CASE PopInfo
  BY <1>1, <1>10, PopTypes DEF PopInfo, Go, TypeOK
<1>11. ASSUME NEW t \in Threads, PushStep(t) \/ PopStep(t), UNCHANGED <<pc, workVars>>
       PROVE  TypeOK'
  BY <1>11, ListTypes
<1>12. CASE ExchangeFails
  BY <1>12 DEF ExchangeFails, Go, TypeOK
<1>13. CASE ExchangeReturns
  BY <1>1, <1>13, PopTypes DEF ExchangeReturns, Go, TypeOK
<1>14. ASSUME NEW opened \in BOOLEAN, Open(opened) PROVE TypeOK'
  BY <1>14 DEF Open, Reset, TypeOK, Slots, Inside, ErrorListAssumption
<1>15. CASE Close \/ UNCHANGED wrapperVars
  BY <1>15 DEF Close, wrapperVars, TypeOK
<1> QED BY <1>1, <1>2, <1>3, <1>4, <1>5, <1>6, <1>7, <1>8, <1>9, <1>10, <1>11, <1>12, <1>13,
           <1>14, <1>15 DEF WrapperNext, Worker, Loop

(* The ring is kept by every step of the program.                          *)
LEMMA StepRing ==
  ErrorListAssumption /\ WrapperAssumption /\ TypeOK /\ RingInv /\ [WrapperNext]_wrapperVars => RingInv'
<1> SUFFICES ASSUME ErrorListAssumption, WrapperAssumption, TypeOK, RingInv, [WrapperNext]_wrapperVars
             PROVE  RingInv'
  OBVIOUS
<1>1. sdo \in Threads /\ pdo \in Threads
  BY DEF WrapperAssumption
<1>2. CASE UNCHANGED listVars
  BY <1>2, SameRing
<1>3. CASE Receive \/ Fails
  BY <1>1, <1>2, <1>3, Raise, PushRing
<1>4. ASSUME NEW t \in {sdo, pdo}, Pop(t) PROVE RingInv'
  BY <1>1, <1>4, PopRing
<1>5. ASSUME NEW t \in {sdo, pdo}, PushStep(t) \/ PopStep(t) PROVE RingInv'
  BY <1>1, <1>5, ListRing
<1>6. CASE Reset
  BY <1>6, ResetRing
<1>7. CASE Worker
  BY <1>2, <1>3, <1>4, <1>5, <1>7
     DEF Worker, SdoTransfer, Succeeds, GetSoemErrorString, NotOpen, AfterRead, GetLastErrorInfo,
         PopInfo, Shown, Told
<1>8. CASE Loop
  BY <1>2, <1>4, <1>5, <1>8 DEF Loop, ExchangeFails, ExchangeReturns
<1> QED BY <1>2, <1>6, <1>7, <1>8 DEF WrapperNext, Open, Close, wrapperVars

(* What is in the ring from tail to head is the log, when nobody is in it. *)
LEMMA ContentIsLog ==
  ASSUME ErrorListAssumption, TypeOK, RingInv
  PROVE  RingIsQueue
<1> SUFFICES ASSUME ~met PROVE /\ Inside = {} => head \in Slots /\ tail \in Slots /\ Content = log
                               /\ \A t \in Threads : place[t] = "tail" => ec[t] = due[t]
  BY DEF RingIsQueue
<1>1. \A t \in Threads : place[t] = "tail" => ec[t] = due[t]
  BY DEF RingInv, InRing, Place
<1>2. ASSUME Inside = {} PROVE head \in Slots /\ tail \in Slots /\ Content = log
  <2>1. head \in Slots /\ tail \in Slots /\ Len(log) = Length /\ Lies(0, Len(log))
    BY <1>2 DEF RingInv, InRing
  <2>2. MaxElist \in Nat /\ MaxElist + 1 \in Nat \ {0}
    BY DEF ErrorListAssumption
  <2>3. Count = Len(log)
    <3> DEFINE k == MaxElist + 1
               a == head - tail + MaxElist + 1
    <3>1. k \in Nat \ {0} /\ a \in 0 .. (2 * k - 1)
      BY <2>1, <2>2 DEF Slots
    <3>2. a % k = IF a >= k THEN a - k ELSE a
      <4> HIDE DEF a, k
      <4> QED BY <3>1, Modulo
    <3> QED BY <2>1, <2>2, <3>2 DEF Count, Length, Slots
  <2>4. ASSUME NEW i \in 1 .. Len(log) PROVE ring[(tail + i - 1) % (MaxElist + 1)] = log[i]
    <3> DEFINE k == MaxElist + 1
               a == tail + i - 1
    <3>1. k \in Nat \ {0} /\ a \in 0 .. (2 * k - 1)
      BY <2>1, <2>2 DEF Slots, Length
    <3>2. a % k = IF a >= k THEN a - k ELSE a
      <4> HIDE DEF a, k
      <4> QED BY <3>1, Modulo
    <3>3. a % k = Slot(tail + 0 + i - 1)
      BY <2>1, <2>2, <3>2 DEF Slot, Slots
    <3> QED BY <2>1, <3>3 DEF Lies
  <2>5. log = [i \in 1 .. Len(log) |-> log[i]]
    BY DEF TypeOK
  <2> QED BY <2>1, <2>3, <2>4, <2>5 DEF Content
<1> QED BY <1>1, <1>2

-----------------------------------------------------------------------------
(* A pop takes an own error, or the old one that was left.                 *)
LEMMA PopOwn ==
  ASSUME ErrorListAssumption, TypeOK, NEW t \in Threads, Pop(t), NEW k \in Nat, OwnAfter(k),
         transfers' = transfers
  PROVE  /\ OwnAfter(k)'
         /\ k <= 1 => OwnAfter(0)'
         /\ k = 0 => OwnOrNone(due'[t])
<1>1. CASE log = <<>>
  <2>1. log' = <<>> /\ due'[t] = NoError
    BY <1>1 DEF Pop, TypeOK
  <2>2. Len(log') = 0
    BY <2>1
  <2> QED BY <2>1, <2>2 DEF OwnAfter, OwnOrNone
<1>2. CASE log # <<>>
  <2>1. log' = Tail(log) /\ due'[t] = Head(log) /\ log \in Seq(Error)
    BY <1>2 DEF Pop, TypeOK
  <2>2. Len(log') = Len(log) - 1 /\ \A i \in 1 .. Len(log') : log'[i] = log[i + 1]
    BY <1>2, <2>1, HeadTailProperties
  <2>3. due'[t] = log[1] /\ 1 \in 1 .. Len(log)
    BY <1>2, <2>1
  <2> QED BY <2>1, <2>2, <2>3 DEF OwnAfter, OwnOrNone, Own
<1> QED BY <1>1, <1>2

(* A push of the transfer's own error leaves no more old ones.             *)
LEMMA PushOwn ==
  ASSUME ErrorListAssumption, TypeOK, NEW t \in Threads, NEW e \in Error, Push(t, e), Own(e),
         NEW k \in Nat, OwnAfter(k), transfers' = transfers
  PROVE  OwnAfter(k)'
<1>1. log' = Latest(Append(log, e))
  BY DEF Push
<1>2. CASE Len(log) < MaxElist
  <2>1. /\ Len(log') = Len(log) + 1 /\ log'[Len(log) + 1] = e
        /\ \A i \in 1 .. Len(log) : log'[i] = log[i]
    BY <1>1, <1>2, LatestIs DEF TypeOK
  <2> QED BY <2>1 DEF OwnAfter, Own, TypeOK
<1>3. CASE Len(log) = MaxElist
  <2>1. /\ Len(log') = MaxElist /\ log'[MaxElist] = e
        /\ \A i \in 1 .. MaxElist - 1 : log'[i] = log[i + 1]
    BY <1>1, <1>3, LatestIs DEF TypeOK
  <2> QED BY <1>3, <2>1 DEF OwnAfter, Own, ErrorListAssumption
<1> QED BY <1>2, <1>3 DEF TypeOK, ErrorListAssumption

(* The steps inside the list bring the worker the error that was due.      *)
LEMMA ListOwn ==
  ASSUME ErrorListAssumption, WrapperAssumption, TypeOK, RingInv, MessageInv,
         NEW t \in {sdo, pdo}, PushStep(t) \/ PopStep(t),
         UNCHANGED <<inited, pc, workVars>>
  PROVE  MessageInv'
<1> SUFFICES ASSUME ~met', transfer.op = "read", transfer.waiting <= 1 PROVE Reading'
  BY DEF MessageInv, workVars
<1>1. ~met /\ UNCHANGED <<log, due>> /\ place[t] # "out"
  <2>1. CASE PushStep(t)
    BY <2>1 DEF PushStep, Store, MoveHead, DropOldest
  <2>2. CASE PopStep(t)
    <3>1. CASE Take(t)
      BY <3>1 DEF Take
    <3>2. CASE TakeNone(t)
      BY <3>2 DEF TakeNone
    <3>3. CASE MoveTail(t)
      BY <3>3 DEF MoveTail
    <3> QED BY <2>2, <3>1, <3>2, <3>3 DEF PopStep
  <2> QED BY <2>1, <2>2
<1>2. Reading
  BY <1>1 DEF MessageInv
<1>3. \A k : OwnAfter(k) => OwnAfter(k)'
  BY <1>1 DEF OwnAfter, Own, workVars
<1>4. CASE t # sdo
  <2>1. place'[sdo] = place[sdo] /\ ec'[sdo] = ec[sdo]
    BY <1>4 DEF PushStep, PopStep, Store, MoveHead, DropOldest, Take, TakeNone, MoveTail,
                WrapperAssumption, TypeOK
  <2> QED BY <1>1, <1>2, <1>3, <2>1 DEF Reading, OwnOrNone, Own, workVars
<1>5. CASE t = sdo
  <2>1. Place(sdo) /\ sdo \in Threads
    BY <1>1, <1>5, NoOther DEF WrapperAssumption
  <2>2. ASSUME place[sdo] \notin Pushing
        PROVE  place'[sdo] \notin Pushing /\ (place'[sdo] = "out" => ec'[sdo] = due[sdo])
    BY <1>1, <1>5, <2>1, <2>2 DEF PushStep, PopStep, Store, MoveHead, DropOldest, Take, TakeNone,
                                  MoveTail, Pushing, Place, TypeOK
  <2> QED BY <1>1, <1>2, <1>3, <2>2 DEF Reading, OwnOrNone, Own, workVars
<1> QED BY <1>4, <1>5

(* Every step of the program keeps the errors of a read to it.             *)
LEMMA StepMessage ==
  ErrorListAssumption /\ WrapperAssumption /\ TypeOK /\ RingInv /\ MessageInv /\ [WrapperNext]_wrapperVars
    => MessageInv'
<1> SUFFICES ASSUME ErrorListAssumption, WrapperAssumption, TypeOK, RingInv, MessageInv, [WrapperNext]_wrapperVars
             PROVE  MessageInv'
  OBVIOUS
<1>1. sdo \in Threads /\ pdo \in Threads /\ sdo # pdo
  BY DEF WrapperAssumption
<1>2. ASSUME NEW op \in {"read", "write"}, SdoTransfer(op) PROVE MessageInv'
  <2>1. transfer'.waiting = Len(log) /\ transfer'.op = op /\ UNCHANGED log /\ pc'[sdo] = "transfer"
    BY <1>2 DEF SdoTransfer, Go, NoTransfer, listVars, TypeOK
  <2>2. OwnAfter(transfer.waiting)'
    BY <2>1 DEF OwnAfter, TypeOK
  <2> QED BY <2>1, <2>2 DEF MessageInv, Reading
<1>3. CASE Receive \/ Succeeds \/ Fails
  <2> SUFFICES ASSUME ~met', transfer'.op = "read", transfer'.waiting <= 1 PROVE Reading'
    BY DEF MessageInv
  <2>1. transfer'.op = transfer.op /\ transfer'.waiting = transfer.waiting
    <3>1. CASE Receive
      BY <3>1 DEF Receive, TypeOK
    <3>2. CASE Succeeds
      BY <3>2 DEF Succeeds, TypeOK
    <3>3. CASE Fails
      <4>1. \/ transfer' = [transfer EXCEPT !.ok = FALSE]
            \/ transfer' = [transfer EXCEPT !.ok = FALSE, !.raised = @ + 1]
        BY <3>3 DEF Fails
      <4>2. CASE transfer' = [transfer EXCEPT !.ok = FALSE]
        BY <4>2 DEF TypeOK
      <4>3. CASE transfer' = [transfer EXCEPT !.ok = FALSE, !.raised = @ + 1]
        BY <4>3 DEF TypeOK
      <4> QED BY <4>1, <4>2, <4>3
    <3> QED BY <1>3, <3>1, <3>2, <3>3
  <2>2. pc[sdo] = "transfer" /\ UNCHANGED <<transfers, message>>
    BY <1>3 DEF Receive, Succeeds, Fails, Ready
  <2>3. pc'[sdo] \in {"transfer", "elist"}
    <3>1. CASE Receive
      BY <2>2, <3>1 DEF Receive
    <3>2. CASE Succeeds \/ Fails
      BY <2>1, <3>2 DEF Succeeds, Fails, AfterTransfer, Go, TypeOK
    <3> QED BY <1>3, <3>1, <3>2
  <2>4. UNCHANGED listVars \/ \E e \in Error : e[1] = transfers /\ Push(sdo, e)
    BY <1>3, Raise DEF Succeeds
  <2>5. ~met
    BY <2>4 DEF listVars, Push, EnterList
  <2>6. OwnAfter(transfer.waiting)
    BY <2>1, <2>2, <2>5 DEF MessageInv, Reading
  <2>7. OwnAfter(transfer.waiting)'
    <3>1. CASE UNCHANGED listVars
      BY <2>1, <2>2, <2>6, <3>1 DEF listVars, OwnAfter, Own
    <3>2. ASSUME NEW e \in Error, e[1] = transfers, Push(sdo, e) PROVE OwnAfter(transfer.waiting)'
      <4>1. transfer.waiting \in Nat
        BY DEF TypeOK
      <4>2. \A k \in Nat : OwnAfter(k) => OwnAfter(k)'
        BY <1>1, <2>2, <3>2, PushOwn DEF Own
      <4>3. OwnAfter(transfer.waiting)' <=> \A i \in 1 .. Len(log') : i > transfer.waiting => Own(log[i])'
        BY <2>1 DEF OwnAfter
      <4> QED BY <2>6, <4>1, <4>2, <4>3 DEF OwnAfter
    <3> QED BY <2>4, <3>1, <3>2
  <2> QED BY <2>3, <2>7 DEF Reading
<1>4. CASE GetSoemErrorString("elist", "read")
  <2> SUFFICES ASSUME ~met', transfer.op = "read", transfer.waiting <= 1 PROVE Reading'
    BY <1>4 DEF MessageInv, GetSoemErrorString, workVars
  <2>1. ~met /\ pc[sdo] = "elist" /\ pc'[sdo] = "read" /\ Pop(sdo) /\ UNCHANGED transfers
    BY <1>4 DEF GetSoemErrorString, Ready, Go, Pop, EnterList, TypeOK, workVars
  <2>2. OwnAfter(transfer.waiting) /\ transfer.waiting \in Nat
    BY <2>1 DEF MessageInv, Reading, TypeOK
  <2>3. OwnAfter(0)'
    <3>1. PICK k \in Nat : k = transfer.waiting
      BY <2>2
    <3> QED BY <1>1, <2>1, <2>2, <3>1, PopOwn
  <2> QED BY <2>1, <2>3 DEF Reading
<1>5. ASSUME Pop(sdo), UNCHANGED <<inited, workVars>>,
             \/ pc[sdo] = "pop info" /\ pc'[sdo] = "shown"
             \/ pc[sdo] = "elist2" /\ inited /\ pc'[sdo] = "told"
      PROVE  MessageInv'
  <2> SUFFICES ASSUME ~met', transfer.op = "read", transfer.waiting <= 1 PROVE Reading'
    BY <1>5 DEF MessageInv, workVars
  <2>1. ~met
    BY <1>5 DEF Pop, EnterList, TypeOK
  <2>2. Reading /\ inited /\ OwnAfter(0) /\ UNCHANGED <<inited, transfers, message>>
    BY <1>5, <2>1 DEF MessageInv, Reading, workVars
  <2>3. OwnAfter(0)' /\ OwnOrNone(due'[sdo])
    BY <1>1, <1>5, <2>2, PopOwn
  <2>4. place'[sdo] \in Popping
    BY <1>1, <1>5 DEF Pop, EnterList, TypeOK, Popping
  <2>5. place'[sdo] \notin Pushing /\ place'[sdo] # "out"
    BY <2>4 DEF Pushing, Popping
  <2>6. CASE pc[sdo] = "pop info" /\ pc'[sdo] = "shown"
    BY <2>2, <2>3, <2>5, <2>6 DEF Reading, OwnOrNone, Own
  <2>7. CASE pc[sdo] = "elist2" /\ inited /\ pc'[sdo] = "told"
    BY <2>2, <2>3, <2>5, <2>7 DEF Reading, OwnOrNone, Own
  <2> QED BY <1>5, <2>6, <2>7
<1>6. ASSUME NEW t \in {sdo, pdo}, PushStep(t) \/ PopStep(t), UNCHANGED <<inited, pc, workVars>>
      PROVE  MessageInv'
  BY <1>6, ListOwn
<1>7. CASE \/ AfterRead \/ GetLastErrorInfo \/ Shown \/ Told \/ NotOpen("elist", "read")
           \/ NotOpen("info", "elist2") \/ NotOpen("elist2", "idle")
  <2> SUFFICES ASSUME ~met, transfer.op = "read", transfer.waiting <= 1, Reading,
                      UNCHANGED <<listVars, inited, transfer, transfers>>
               PROVE  Reading'
    BY <1>7 DEF MessageInv, AfterRead, GetLastErrorInfo, Shown, Told, NotOpen, workVars, listVars
  <2>1. \A k : OwnAfter(k) => OwnAfter(k)'
    BY DEF OwnAfter, Own, listVars
  <2>2. UNCHANGED <<place, ec, due, inited, transfer, transfers>>
    BY DEF listVars
  <2> USE <2>1, <2>2 DEF Reading, OwnOrNone, Own, Go, Ready, TypeOK
  <2>3. CASE AfterRead
    BY <2>3 DEF AfterRead, NoMessage
  <2>4. CASE GetLastErrorInfo
    BY <2>4 DEF GetLastErrorInfo, workVars
  <2>5. CASE Shown
    BY <2>5 DEF Shown, NoMessage
  <2>6. CASE Told
    BY <2>6 DEF Told, Err2String
  <2>7. CASE NotOpen("elist", "read")
    BY <2>7 DEF NotOpen, workVars
  <2>8. CASE NotOpen("info", "elist2")
    BY <2>8 DEF NotOpen, workVars
  <2>9. CASE NotOpen("elist2", "idle")
    BY <2>9 DEF NotOpen, workVars
  <2> QED BY <1>7, <2>3, <2>4, <2>5, <2>6, <2>7, <2>8, <2>9
<1>8. CASE Loop
  <2> SUFFICES ASSUME ~met', transfer.op = "read", transfer.waiting <= 1,
                      ExchangeFails \/ ExchangeReturns
               PROVE  Reading'
    BY <1>1, <1>6, <1>8 DEF Loop, MessageInv, ExchangeFails, ExchangeReturns, workVars
  <2>1. /\ ~met /\ UNCHANGED <<inited, transfer, transfers, message>> /\ pc'[sdo] = pc[sdo]
        /\ UNCHANGED listVars \/ Pop(pdo)
    BY <1>1 DEF ExchangeFails, ExchangeReturns, Pop, EnterList, listVars, Go, TypeOK, workVars
  <2>2. Reading /\ transfer.waiting \in Nat
    BY <2>1 DEF MessageInv, TypeOK
  <2>3. \A k \in Nat : OwnAfter(k) => OwnAfter(k)'
    <3>1. CASE UNCHANGED listVars
      BY <2>1, <3>1 DEF OwnAfter, Own, listVars
    <3>2. CASE Pop(pdo)
      BY <1>1, <2>1, <3>2, PopOwn
    <3> QED BY <2>1, <3>1, <3>2
  <2>4. place'[sdo] = place[sdo] /\ ec'[sdo] = ec[sdo] /\ due'[sdo] = due[sdo]
    BY <1>1, <2>1 DEF listVars, Pop, EnterList, TypeOK
  <2>5. OwnAfter(transfer.waiting) => OwnAfter(transfer.waiting)'
    BY <2>1, <2>2, <2>3 DEF OwnAfter
  <2>6. OwnAfter(0) => OwnAfter(0)'
    BY <2>3
  <2> QED BY <2>1, <2>2, <2>4, <2>5, <2>6 DEF Reading, OwnOrNone, Own
<1>9. CASE Close \/ \E opened \in BOOLEAN : Open(opened)
  <2> SUFFICES ASSUME ~met', transfer.op = "read", transfer.waiting <= 1 PROVE Reading'
    BY <1>9 DEF MessageInv, Close, Open, workVars
  <2>1. ~met /\ pc[sdo] = "idle" /\ UNCHANGED <<pc, transfers, message>>
    <3>1. CASE Close
      BY <3>1 DEF Close, Ready, listVars, workVars
    <3>2. ASSUME NEW opened \in BOOLEAN, Open(opened)
          PROVE  ~met /\ pc[sdo] = "idle" /\ UNCHANGED <<pc, transfers, message>>
      BY <3>2 DEF Open, Ready, Reset, workVars
    <3> QED BY <1>9, <3>1, <3>2
  <2>2. Reading
    BY <2>1 DEF MessageInv
  <2> QED BY <2>1, <2>2 DEF Reading, OwnOrNone, Own
<1>10. CASE UNCHANGED wrapperVars
  BY <1>10 DEF wrapperVars, listVars, workVars, MessageInv, Reading, OwnAfter, OwnOrNone, Own
<1>11. CASE GetSoemErrorString("elist2", "told") \/ PopInfo
  <2>1. CASE GetSoemErrorString("elist2", "told")
    BY <1>5, <2>1 DEF GetSoemErrorString, Ready, Go, TypeOK
  <2>2. CASE PopInfo
    BY <1>5, <2>2 DEF PopInfo, Ready, Go, TypeOK
  <2> QED BY <1>11, <2>1, <2>2
<1> QED BY <1>2, <1>3, <1>4, <1>6, <1>7, <1>8, <1>9, <1>10, <1>11 DEF WrapperNext, Worker

-----------------------------------------------------------------------------
(* The inductive invariant.                                                *)
LEMMA WrapperInvariant == WrapperSpec => [](TypeOK /\ RingInv /\ MessageInv)
<1>1. [WrapperNext]_wrapperVars /\ TypeOK /\ RingInv /\ MessageInv => (TypeOK /\ RingInv /\ MessageInv)'
  BY ErrorListAssumption, WrapperAssumption, StepTypes, StepRing, StepMessage
<1>2. WrapperInit => TypeOK /\ RingInv /\ MessageInv
  BY ErrorListAssumption, WrapperAssumption, Initially
<1> QED BY <1>1, <1>2, PTL DEF WrapperSpec

(* For every size of the ring and any number of threads: as long as no two *)
(* threads have been in the list at once, it is a queue of the last        *)
(* EC_MAXELIST errors (ecx_pusherror, ecx_poperror).                       *)
THEOREM ErrorListIsQueue == WrapperSpec => []RingIsQueue
<1>1. TypeOK /\ RingInv => RingIsQueue
  BY ErrorListAssumption, ContentIsLog
<1> QED BY <1>1, WrapperInvariant, PTL

(* Under the same condition, and with no more than one error waiting when  *)
(* it began, the message of a failed read is about that read.              *)
THEOREM MessageIsOfThisRead == WrapperSpec => []LastErrIsOwn
<1>1. MessageInv => LastErrIsOwn
  BY DEF MessageInv, Reading, OwnOrNone, LastErrIsOwn
<1> QED BY <1>1, WrapperInvariant, PTL
=============================================================================
