------------------------------- MODULE Wrapper -------------------------------
(***************************************************************************)
(* The program's bridge to the EtherCAT master (soem_wrap.c) as its three  *)
(* threads use it: the SDO worker, which turns errors into the message of  *)
(* a failed read, the PDO loop, which turns them into the result of a      *)
(* failed cycle, and the UI, which opens and closes the adapter.           *)
(*                                                                         *)
(* An error is <<transfer, number, type>>.                                 *)
(***************************************************************************)
EXTENDS ErrorList

CONSTANTS
  sdo, pdo,      \* the threads that use the error list
  MaxTransfers, MaxRaised, MaxCycles, MaxOpens   \* bounds

ASSUME WrapperAssumption == sdo \in Threads /\ pdo \in Threads /\ sdo # pdo

VARIABLES
  inited,      \* g_inited
  pc,          \* where the SDO worker and the PDO loop are
  transfer,    \* of the SDO worker: [op, ok, raised, waiting]
  transfers,   \* transfers so far
  message,     \* of the last failed read: the error behind LastErr, and the text
  cycles,      \* failed cycles of the PDO loop so far
  opens        \* times the adapter was opened

workVars == <<transfer, transfers, message>>
wrapperVars == <<listVars, inited, pc, workVars, cycles, opens>>

NoText == [error |-> NoError, bits |-> 0]
NoMessage == [last |-> NoError, text |-> NoText]
NoTransfer == [op |-> "none", ok |-> TRUE, raised |-> 0, waiting |-> 0]

WrapperInit ==
  /\ ListInit /\ inited = TRUE /\ pc = [t \in {sdo, pdo} |-> "idle"]
  /\ transfer = NoTransfer /\ transfers = 0 /\ message = NoMessage
  /\ cycles = 0 /\ opens = 1

Go(t, where) == pc' = [pc EXCEPT ![t] = where]
Ready(t, where) == pc[t] = where /\ place[t] = "out"

-----------------------------------------------------------------------------
(* The SDO worker.  ExecuteReadMap and ExecuteWriteMap call soem_sdo_read  *)
(* and soem_sdo_write.  Emergencies and mailbox errors that come in during *)
(* the transfer are pushed, also when it succeeds.                         *)
SdoTransfer(op) ==
  /\ Ready(sdo, "idle") /\ transfers < MaxTransfers
  /\ transfers' = transfers + 1 /\ Go(sdo, "transfer")
  /\ transfer' = [NoTransfer EXCEPT !.op = op, !.waiting = Len(log)]
  /\ UNCHANGED <<listVars, inited, message, cycles, opens>>

Origin == <<transfers, transfer.raised + 1>>
Raised == transfer.raised < MaxRaised

Receive ==
  /\ Ready(sdo, "transfer") /\ Raised
  /\ MbxError(sdo, Origin) \/ MbxEmergencyError(sdo, Origin)
  /\ transfer' = [transfer EXCEPT !.raised = @ + 1]
  /\ UNCHANGED <<inited, pc, transfers, message, cycles, opens>>

(* After the transfer every read pops one error, also one that succeeded;  *)
(* a failed write is stored with its result code and pops nothing.         *)
AfterTransfer == Go(sdo, IF transfer.op = "read" THEN "elist" ELSE "idle")

Succeeds ==
  /\ Ready(sdo, "transfer") /\ AfterTransfer
  /\ transfer' = [transfer EXCEPT !.ok = TRUE]
  /\ UNCHANGED <<listVars, inited, transfers, message, cycles, opens>>

(* An abort, an answer that was not expected or does not fit, or no answer *)
(* in time: the last raises no error.                                      *)
Fails ==
  /\ Ready(sdo, "transfer") /\ AfterTransfer
  /\ \/ /\ Raised /\ (SDOerror(sdo, Origin) \/ PacketError(sdo, Origin))
        /\ transfer' = [transfer EXCEPT !.ok = FALSE, !.raised = @ + 1]
     \/ UNCHANGED listVars /\ transfer' = [transfer EXCEPT !.ok = FALSE]
  /\ UNCHANGED <<inited, transfers, message, cycles, opens>>

PeekErrorString(from, to) ==   \* a mutant: nothing is popped
  /\ Ready(sdo, from) /\ inited /\ Go(sdo, to)
  /\ UNCHANGED <<listVars, inited, workVars, cycles, opens>>

(* soem_elist2string: -1 when not open, otherwise the oldest error as text.*)
GetSoemErrorString(from, to) ==
  /\ Ready(sdo, from) /\ inited /\ Pop(sdo) /\ Go(sdo, to)
  /\ UNCHANGED <<inited, workVars, cycles, opens>>

(* soem_get_last_error_info: pops only when there is one, which another    *)
(* thread may take in between.                                             *)
GetLastErrorInfo ==
  /\ Ready(sdo, "info") /\ inited /\ Go(sdo, IF ErrorWaits THEN "pop info" ELSE "elist2")
  /\ UNCHANGED <<listVars, inited, workVars, cycles, opens>>

PopInfo ==
  /\ Ready(sdo, "pop info") /\ Pop(sdo) /\ Go(sdo, "shown")
  /\ UNCHANGED <<inited, workVars, cycles, opens>>

NotOpen(from, to) ==
  /\ Ready(sdo, from) /\ ~inited /\ Go(sdo, to)
  /\ UNCHANGED <<listVars, inited, workVars, cycles, opens>>

Shown ==
  /\ Ready(sdo, "shown") /\ Go(sdo, "elist2")
  /\ message' = [NoMessage EXCEPT !.last = ec[sdo]]
  /\ UNCHANGED <<listVars, inited, transfer, transfers, cycles, opens>>

Told ==
  /\ Ready(sdo, "told") /\ Go(sdo, "idle")
  /\ message' = [message EXCEPT !.text = IF ec[sdo] = NoError THEN NoText ELSE Err2String(ec[sdo])]
  /\ UNCHANGED <<listVars, inited, transfer, transfers, cycles, opens>>

(* After the first string the read is done or its message is put together. *)
AfterRead ==
  /\ Ready(sdo, "read") /\ Go(sdo, IF transfer.ok THEN "idle" ELSE "info")
  /\ message' = NoMessage
  /\ UNCHANGED <<listVars, inited, transfer, transfers, cycles, opens>>

Worker ==
  \/ \E op \in {"read", "write"} : SdoTransfer(op)
  \/ Receive \/ Succeeds \/ Fails
  \/ GetSoemErrorString("elist", "read") \/ NotOpen("elist", "read")
  \/ AfterRead \/ GetLastErrorInfo \/ PopInfo \/ NotOpen("info", "elist2") \/ Shown
  \/ GetSoemErrorString("elist2", "told") \/ NotOpen("elist2", "idle") \/ Told
  \/ (PushStep(sdo) \/ PopStep(sdo)) /\ UNCHANGED <<inited, pc, workVars, cycles, opens>>

-----------------------------------------------------------------------------
(* The PDO loop: soem_send_processdata or soem_receive_processdata fails   *)
(* (other cycles do nothing here, and neither does one that finds no       *)
(* error) and returns the code of the oldest error, whoever raised it, or  *)
(* its own result if another thread took it; whether the adapter is open   *)
(* is not asked.                                                           *)
ExchangeFails ==
  /\ Ready(pdo, "idle") /\ cycles < MaxCycles /\ cycles' = cycles + 1
  /\ ErrorWaits /\ Go(pdo, "pop")
  /\ UNCHANGED <<listVars, inited, workVars, opens>>

ExchangeReturns ==
  /\ Ready(pdo, "pop") /\ Pop(pdo) /\ Go(pdo, "idle")
  /\ UNCHANGED <<inited, workVars, cycles, opens>>

Loop ==
  \/ ExchangeFails \/ ExchangeReturns
  \/ PopStep(pdo) /\ UNCHANGED <<inited, pc, workVars, cycles, opens>>

-----------------------------------------------------------------------------
(* soem_open, by HandleNIC once the SDO worker is disposed of: the context *)
(* is zeroed, nothing is closed, and g_inited keeps its value when the     *)
(* adapter cannot be opened.                                               *)
Open(ok) ==
  /\ Ready(sdo, "idle") /\ opens < MaxOpens /\ opens' = opens + 1
  /\ Reset /\ inited' = (inited \/ ok)
  /\ UNCHANGED <<pc, workVars, cycles>>

(* soem_close. *)
Close ==
  /\ Ready(sdo, "idle") /\ inited /\ opens < MaxOpens /\ inited' = FALSE
  /\ UNCHANGED <<listVars, pc, workVars, cycles, opens>>

WrapperNext == Worker \/ Loop \/ (\E ok \in BOOLEAN : Open(ok)) \/ Close

WrapperSpec == WrapperInit /\ [][WrapperNext]_wrapperVars

-----------------------------------------------------------------------------
(* What lies in the ring from tail to head.                                *)
Count == (head - tail + MaxElist + 1) % (MaxElist + 1)
Content == [i \in 1 .. Count |-> ring[(tail + i - 1) % (MaxElist + 1)]]

(* As long as no two threads have been in the list at once, the ring is a  *)
(* queue of the last EC_MAXELIST errors: whenever nobody is in it, it holds *)
(* those that were pushed and not popped, in order, and every pop got the  *)
(* oldest one (ecx_pusherror, ecx_poperror).  When two pop at once the     *)
(* tail passes the head and the whole ring of old errors comes back.       *)
RingIsQueue ==
  ~met =>
    /\ Inside = {} => head \in Slots /\ tail \in Slots /\ Content = log
    /\ \A t \in Threads : place[t] = "tail" => ec[t] = due[t]

(* A failed read shows as LastErr, and in the text after it, only errors   *)
(* that came up in its own transfer, provided that no more than one error  *)
(* was waiting when it began and no two threads have met in the list       *)
(* (ExecuteReadMap, BuildSoemErrorMessage: the string popped after every   *)
(* read takes the one that waits).  With two waiting, the older one is     *)
(* shown as the reason of this read; with none, the read's first error is  *)
(* thrown away.                                                            *)
Own(e) == e[1] = transfers

LastErrIsOwn ==
  ~met /\ pc[sdo] = "idle" /\ transfer.op = "read" /\ transfer.waiting <= 1 =>
    /\ message.last # NoError => Own(message.last)
    /\ message.text # NoText => Own(message.text.error)
=============================================================================
