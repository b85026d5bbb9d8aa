-------------------------- MODULE SdoWorkerProofs --------------------------
EXTENDS SdoWorkerProperties, TLAPS, SequenceTheorems

(* The absence of a key in _pending is a WorkItem of the model. *)
LEMMA NoItemType == NoItem \in Item
BY DEF NoItem, Item

(* The constructor leaves every variable in its type. *)
LEMMA InitTypeOK == Init => TypeOK
<1> SUFFICES ASSUME Init PROVE TypeOK
    OBVIOUS
<1>1. LifeType
    BY DEF Init, LifeType
<1>2. JobType
  <2>1. pending \in [Keys -> Item] /\ drain \in [Keys -> Item]
      BY NoItemType DEF Init
  <2>2. queue \in Seq(Job)
      BY EmptySeq DEF Init
  <2>3. wpc = "idle" /\ ok \in BOOLEAN
      BY DEF Init
  <2> QED
      BY <2>1, <2>2, <2>3 DEF JobType
<1>3. WriteJobType
    BY DEF Init, WriteJobType
<1>4. CallType
    BY DEF Init, CallType
<1>5. StoreType
    BY DEF Init, StoreType, Point, Status
<1> QED
    BY <1>1, <1>2, <1>3, <1>4, <1>5 DEF TypeOK

(* Who disturbs which part of the state. *)
LEMMA LifeFrame ==
  ASSUME [Next]_vars
  PROVE  \/ Exit \/ CrashExit \/ Start \/ Dispose \/ Lifecycle
         \/ UNCHANGED <<running, cancelled, completed, stop, thread>>
BY DEF Next, vars, lifeVars, workVars, Call, Client, Register, Mark, Add, AddThrows, Awake,
       Worker, Take, Claim, ExecuteReadMap, ExecuteWriteMap, Answer, Crash, Fail

(* The life cycle of the worker (Start, Stop, the thread) keeps its type. *)
LEMMA NextLife == ASSUME TypeOK, [Next]_vars PROVE LifeType'
BY LifeFrame DEF TypeOK, LifeType, Exit, CrashExit, Start, Dispose, Lifecycle, Cancel,
       CompleteAdding, Join, StopReturns, lifeVars, workVars

(* A new job is a job, and a write job carries a value. *)
LEMMA NewJobType ==
  ASSUME TypeOK, NEW c \in Clients, pc[c] # "idle"
  PROVE  /\ NewJob(c) \in Job
         /\ NewJob(c).op = "Write" => NewJob(c).val \in Values
BY DEF TypeOK, CallType, NewJob, Job, Request, Methods, ReadMethods

(* Merging a read into _pending (EnqueueReadAsync) leaves WorkItems. *)
LEMMA MergeType ==
  ASSUME TypeOK, NEW c \in Clients, pc[c] # "idle", Merge(c)
  PROVE  pending' \in [Keys -> Item]
<1>1. req[c].key \in Keys /\ req[c].len \in Nat
    BY DEF TypeOK, CallType, Request
<1>2. pending \in [Keys -> Item]
    BY DEF TypeOK, JobType
<1>3. Self(c, req[c]) \in SUBSET Clients
    BY DEF Self
<1> QED
    BY <1>1, <1>2, <1>3 DEF Merge, Item, MaxLen

(* Each update of the SDOStore leaves points of the right shape. *)
LEMMA StoreUpdates ==
  ASSUME TypeOK, NEW k \in Keys, NEW b \in BOOLEAN,
         UpdateError(k, b) \/ UpdatePending(k) \/ \E v \in Values : UpdateOk(k, v, b)
  PROVE  point' \in [Keys -> Point]
<1>1. point \in [Keys -> Point]
    BY DEF TypeOK, StoreType
<1>2. CASE UpdateError(k, b)
  <2>1. CASE b = TRUE
      BY <1>1, <1>2, <2>1 DEF UpdateError, Point, Status
  <2>2. CASE b = FALSE
      BY <1>1, <1>2, <2>2 DEF UpdateError, Point, Status
  <2> QED
      BY <2>1, <2>2
<1>3. CASE UpdatePending(k)
    BY <1>1, <1>3 DEF UpdatePending, Point, Status
<1>4. ASSUME NEW v \in Values, UpdateOk(k, v, b) PROVE point' \in [Keys -> Point]
  <2>1. CASE b = TRUE
      BY <1>1, <1>4, <2>1 DEF UpdateOk, Point, Status
  <2>2. CASE b = FALSE
      BY <1>1, <1>4, <2>2 DEF UpdateOk, Point, Status
  <2> QED
      BY <2>1, <2>2
<1> QED
    BY <1>2, <1>3, <1>4

(* TrySetResult leaves each waiter with a result. *)
LEMMA ResolveType ==
  ASSUME TypeOK, NEW W, NEW r \in {"true", "false"}, Resolve(W, r)
  PROVE  answer' \in [Clients -> {"none", "true", "false"}]
BY DEF TypeOK, CallType, Resolve

(* A call that goes on keeps its arguments until it is over. *)
LEMMA GotoType ==
  ASSUME TypeOK, NEW c \in Clients, pc[c] # "idle",
         NEW next \in {"idle", "register", "mark", "add", "wait"}, Goto(c, next),
         next \in {"register", "mark"} => req[c].method \in ReadMethods
  PROVE  /\ pc' \in [Clients -> {"idle", "register", "mark", "add", "wait"}]
         /\ DOMAIN req' = Clients
         /\ \A d \in Clients : pc'[d] # "idle" => req'[d] \in Request
         /\ \A d \in Clients : pc'[d] # "idle" /\ req'[d].method \notin ReadMethods
                                 => req'[d].val \in Values
         /\ \A d \in Clients : pc'[d] \in {"register", "mark"} => req'[d].method \in ReadMethods
BY DEF TypeOK, CallType, Goto

(* The actions that touch the queue, _pending or the job in hand. *)
LEMMA JobFrame ==
  ASSUME [Next]_vars
  PROVE  \/ \E c \in Clients : Register(c) \/ Add(c)
         \/ Take \/ Claim \/ ExecuteReadMap \/ ExecuteWriteMap \/ Answer \/ Crash \/ CrashExit
         \/ \E k \in Keys : Fail(k)
         \/ Join
         \/ UNCHANGED <<queue, pending, drain, wpc, hand, ok>>
BY DEF Next, vars, lifeVars, workVars, Call, Client, Mark, AddThrows, Awake,
       Worker, Exit, Start, Dispose, Lifecycle, Cancel, CompleteAdding, StopReturns

(* Queue, _pending and the job in hand keep their types. *)
LEMMA NextJob == ASSUME TypeOK, [Next]_vars PROVE JobType' /\ WriteJobType'
<1> USE DEF TypeOK, JobType, WriteJobType
<1>1. ASSUME NEW c \in Clients, Register(c) PROVE JobType' /\ WriteJobType'
    BY <1>1, MergeType DEF Register, workVars
<1>2. ASSUME NEW c \in Clients, Add(c) PROVE JobType' /\ WriteJobType'
  <2>1. NewJob(c) \in Job /\ (NewJob(c).op = "Write" => NewJob(c).val \in Values)
      BY <1>2, NewJobType DEF Add
  <2>2. queue' = Append(queue, NewJob(c)) /\ queue \in Seq(Job)
      BY <1>2 DEF Add
  <2>3. queue' \in Seq(Job) /\ WriteJobType'
      BY <2>1, <2>2
  <2> QED
      BY <1>2, <2>3 DEF Add, workVars
<1>3. CASE Take
  <2>1. queue \in Seq(Job) /\ queue # <<>>
      BY <1>3 DEF Take
  <2>2. Head(queue) = queue[1] /\ 1 \in DOMAIN queue /\ Head(queue) \in Job /\ Tail(queue) \in Seq(Job)
      BY <2>1
  <2>3. WriteJobType'
      BY <1>3, <2>1 DEF Take
  <2>4. Head(queue).op \in {"Read", "Write"}
      BY <2>2 DEF Job
  <2>5. wpc' = "writing" => hand'.val \in Values
      BY <1>3, <2>2, <2>4 DEF Take
  <2> QED
      BY <1>3, <2>2, <2>3, <2>5 DEF Take
<1>4. CASE Claim
  <2>1. hand \in Job /\ hand.key \in Keys
      BY <1>4 DEF Claim, Job
  <2>2. CASE pending[hand.key].on
    <3>1. pending[hand.key].len \in Nat /\ pending[hand.key].waiters \in SUBSET Clients
        BY <2>1 DEF Item
    <3>2. hand' \in Job
        BY <1>4, <2>1, <2>2, <3>1 DEF Claim, Job
    <3>3. pending' \in [Keys -> Item]
        BY <1>4, <2>1, <2>2, NoItemType DEF Claim
    <3> QED
        BY <1>4, <2>2, <3>2, <3>3 DEF Claim
  <2>3. CASE ~pending[hand.key].on
      BY <1>4, <2>3 DEF Claim
  <2> QED
      BY <2>2, <2>3
<1>5. CASE ExecuteReadMap
    BY <1>5 DEF ExecuteReadMap
<1>6. CASE ExecuteWriteMap
    BY <1>6 DEF ExecuteWriteMap
<1>7. CASE Answer
    BY <1>7 DEF Answer
<1>8. CASE Crash
    BY <1>8, NoItemType DEF Crash
<1>9. CASE CrashExit
    BY <1>9 DEF CrashExit
<1>10. ASSUME NEW k \in Keys, Fail(k) PROVE JobType' /\ WriteJobType'
    BY <1>10, NoItemType DEF Fail, workVars
<1>11. CASE Join
    BY <1>11, NoItemType DEF Join, workVars
<1>12. CASE UNCHANGED <<queue, pending, drain, wpc, hand, ok>>
    BY <1>12
<1> QED
    BY <1>1, <1>2, <1>3, <1>4, <1>5, <1>6, <1>7, <1>8, <1>9, <1>10, <1>11, <1>12, JobFrame

(* The actions that touch the calls of the clients. *)
LEMMA CallFrame ==
  ASSUME [Next]_vars
  PROVE  \/ \E c \in Clients, m \in Methods, k \in Keys, l \in Lens, v \in Values : Call(c, m, k, l, v)
         \/ \E c \in Clients : Client(c)
         \/ Answer
         \/ \E k \in Keys : Fail(k)
         \/ UNCHANGED <<pc, req, answer>>
BY DEF Next, vars, callVars, Worker, Take, Exit, Claim, ExecuteReadMap, ExecuteWriteMap, Crash,
       CrashExit, Start, Dispose, Lifecycle, Cancel, CompleteAdding, Join, StopReturns

(* Every step keeps the type of the calls and of their arguments. *)
LEMMA NextCall == ASSUME TypeOK, [Next]_vars PROVE CallType'
<1>1. ASSUME NEW c \in Clients, NEW m \in Methods, NEW k \in Keys, NEW l \in Lens, NEW v \in Values,
             Call(c, m, k, l, v)
      PROVE  CallType'
  <2>1. l \in Nat
      BY DataAssumption
  <2>2. /\ req'[c] \in Request
        /\ req'[c].method \notin ReadMethods => req'[c].val \in Values
        /\ pc'[c] = "register" => req'[c].method \in ReadMethods
      BY <1>1, <2>1 DEF Call, TypeOK, CallType, Request, Methods, ReadMethods
  <2>3. \A d \in Clients : d # c => pc'[d] = pc[d] /\ req'[d] = req[d]
      BY <1>1 DEF Call, TypeOK, CallType
  <2> QED
      BY <1>1, <2>2, <2>3 DEF Call, TypeOK, CallType
<1>2. ASSUME NEW c \in Clients, Client(c) PROVE CallType'
  <2>1. CASE Register(c)
    <3>1. req[c].method \in ReadMethods
        BY <2>1 DEF Register, TypeOK, CallType
    <3> QED
        BY <2>1, <3>1, GotoType DEF Register, TypeOK, CallType, AsyncMethods
  <2>2. CASE Mark(c)
      BY <2>2, GotoType DEF Mark, TypeOK, CallType
  <2>3. CASE Add(c)
      BY <2>3, GotoType DEF Add, TypeOK, CallType
  <2>4. CASE AddThrows(c)
      BY <2>4, GotoType DEF AddThrows, TypeOK, CallType
  <2>5. CASE Awake(c)
      BY <2>5, GotoType DEF Awake, TypeOK, CallType
  <2> QED
      BY <1>2, <2>1, <2>2, <2>3, <2>4, <2>5 DEF Client
<1>3. CASE Answer
    BY <1>3, ResolveType DEF Answer, TypeOK, CallType
<1>4. ASSUME NEW k \in Keys, Fail(k) PROVE CallType'
    BY <1>4, ResolveType DEF Fail, TypeOK, CallType
<1>5. CASE UNCHANGED <<pc, req, answer>>
    BY <1>5 DEF TypeOK, CallType
<1> QED
    BY <1>1, <1>2, <1>3, <1>4, <1>5, CallFrame

(* The actions that touch the store or the slave. *)
LEMMA StoreFrame ==
  ASSUME [Next]_vars
  PROVE  \/ \E c \in Clients : Mark(c)
         \/ ExecuteReadMap \/ ExecuteWriteMap
         \/ \E k \in Keys : Fail(k)
         \/ UNCHANGED <<point, device>>
BY DEF Next, vars, Call, Client, Register, Add, AddThrows, Awake, Worker, Take, Exit, Claim, Answer,
       Crash, CrashExit, Start, Dispose, Lifecycle, Cancel, CompleteAdding, Join, StopReturns

(* Every step keeps the type of the store and of the slave. *)
LEMMA NextStore == ASSUME TypeOK, [Next]_vars PROVE StoreType'
<1> USE DEF TypeOK, StoreType
<1>1. ASSUME NEW c \in Clients, Mark(c) PROVE StoreType'
  <2>1. req[c].key \in Keys
      BY <1>1 DEF Mark, CallType, Request
  <2> QED
      BY <1>1, <2>1, StoreUpdates DEF Mark, NoSlave
<1>2. CASE ExecuteReadMap
  <2>1. hand.key \in Keys
      BY <1>2 DEF ExecuteReadMap, JobType, Job
  <2> QED
      BY <1>2, <2>1, StoreUpdates DEF ExecuteReadMap, NoSlave
<1>3. CASE ExecuteWriteMap
  <2>1. hand.key \in Keys /\ hand.val \in Values
      BY <1>3 DEF ExecuteWriteMap, JobType, Job
  <2>2. point' \in [Keys -> Point]
      BY <1>3, <2>1, StoreUpdates DEF ExecuteWriteMap, NoSlave
  <2>3. device' \in [Keys -> Values]
      BY <1>3, <2>1 DEF ExecuteWriteMap
  <2> QED
      BY <2>2, <2>3
<1>4. ASSUME NEW k \in Keys, Fail(k) PROVE StoreType'
    BY <1>4 DEF Fail, NoSlave, Point, Status
<1>5. CASE UNCHANGED <<point, device>>
    BY <1>5
<1> QED
    BY <1>1, <1>2, <1>3, <1>4, <1>5, StoreFrame

(* Type correctness: every variable keeps its type, and a call or a         *)
(* transfer that is under way has its arguments.                            *)
THEOREM TypeCorrect == Spec => []TypeOK
<1>1. TypeOK /\ [Next]_vars => TypeOK'
    BY NextLife, NextJob, NextCall, NextStore DEF TypeOK
<1> QED
    BY <1>1, InitTypeOK, PTL DEF Spec

-----------------------------------------------------------------------------
(***************************************************************************)
(* OneJobPerPendingRead.  It is inductive together with the types and with *)
(* the fact that nothing runs before Start.                                *)
(***************************************************************************)
BeforeStart == stop = "new" => thread = "unborn" /\ wpc = "idle"

IInv == TypeOK /\ BeforeStart /\ OneJobPerPendingRead

(* The constructor establishes the inductive invariant. *)
LEMMA InitIInv == Init => IInv
BY InitTypeOK DEF Init, IInv, BeforeStart, OneJobPerPendingRead, OneJob, ReadJobAt, Brings,
   Queued, Held, Brought, NoItem

(* Before Start there is no thread that could hold a job. *)
LEMMA NextBeforeStart == ASSUME BeforeStart, [Next]_vars PROVE BeforeStart'
BY DEF BeforeStart, Next, vars, lifeVars, workVars, Call, Client, Register, Mark, Add, AddThrows,
       Awake, Worker, Take, Exit, Claim, ExecuteReadMap, ExecuteWriteMap, Answer, Crash, Thrown,
       CrashExit, Fail, Start, Dispose, Lifecycle, Cancel, CompleteAdding, Join, StopReturns

(* A step that leaves the queue alone, opens no item and brings no job     *)
(* keeps the invariant, if it loses no job either or adding is completed.  *)
LEMMA NoNewJob ==
  ASSUME OneJobPerPendingRead,
         UNCHANGED queue, completed => completed',
         Serving' => Serving,
         \A k \in Keys : pending'[k].on <=> pending[k].on,
         \A c \in Clients, k \in Keys : Brings(c, k)' => Brings(c, k),
         \A k \in Keys : Held(k)' => Held(k),
         \/ completed'
         \/ \A k \in Keys : (Brought(k) => Brought(k)') /\ (Held(k) => Held(k)')
  PROVE  OneJobPerPendingRead'
<1> SUFFICES ASSUME NEW k \in Keys
             PROVE  /\ Serving' => OneJob(k)'
                    /\ ~completed' /\ pending'[k].on => (Queued(k) \/ Held(k) \/ Brought(k))'
    BY DEF OneJobPerPendingRead
<1>1. Queued(k)' <=> Queued(k)
    BY DEF Queued, ReadJobAt
<1>2. Brought(k)' => Brought(k)
    BY DEF Brought
<1>3. Serving' => OneJob(k)'
    BY <1>1, <1>2 DEF OneJobPerPendingRead, OneJob, ReadJobAt
<1> QED
    BY <1>1, <1>2, <1>3 DEF OneJobPerPendingRead

(* Once the worker does not serve and nothing is pending, nothing is left. *)
LEMMA NothingPending ==
  ASSUME ~Serving', \A k \in Keys : ~pending'[k].on
  PROVE  OneJobPerPendingRead'
BY DEF OneJobPerPendingRead

(* The lock in the Enqueue methods: only a caller that opens the item       *)
(* brings a job.                                                            *)
LEMMA RegisterKeepsOneJob ==
  ASSUME TypeOK, OneJobPerPendingRead, NEW c \in Clients, Register(c)
  PROVE  OneJobPerPendingRead'
<1> DEFINE r == req[c].key
<1>1. r \in Keys /\ pc[c] = "register" /\ req' = IF pc'[c] = "idle" THEN [req EXCEPT ![c] = Null] ELSE req
    BY DEF Register, Goto, TypeOK, CallType, Request
<1>2. /\ \A k \in Keys : k # r => pending'[k] = pending[k]
      /\ pending'[r].on
    BY <1>1 DEF Register, Merge, TypeOK, JobType
<1>3. \A d \in Clients, k \in Keys : d # c => (Brings(d, k)' <=> Brings(d, k))
    BY DEF Register, Goto, Brings, TypeOK, CallType
<1>4. \A k \in Keys : ~Brings(c, k)
    BY <1>1 DEF Brings
<1>5. UNCHANGED <<queue, wpc, hand, thread, completed>>
    BY DEF Register, lifeVars, workVars
<1>6. \A k \in Keys : (Queued(k)' <=> Queued(k)) /\ (Held(k)' <=> Held(k))
    BY <1>5 DEF Queued, Held, ReadJobAt
<1>7. CASE pending[r].on
  <2>1. \A k \in Keys : ~Brings(c, k)'
      BY <1>1, <1>7 DEF Register, Goto, Brings, TypeOK, CallType
  <2>2. \A k \in Keys : pending'[k].on <=> pending[k].on
      BY <1>2, <1>7
  <2>3. \A d \in Clients, k \in Keys : Brings(d, k)' <=> Brings(d, k)
      BY <1>3, <1>4, <2>1
  <2> QED
      BY <1>5, <1>6, <2>2, <2>3 DEF OneJobPerPendingRead, OneJob, ReadJobAt, Brought, Serving
<1>8. CASE ~pending[r].on
  <2>1. \A k \in Keys : Brings(c, k)' => k = r
      BY <1>1, <1>8 DEF Register, Goto, Brings, TypeOK, CallType
  <2>2. SUFFICES ASSUME NEW k \in Keys
                 PROVE  /\ Serving' => OneJob(k)'
                        /\ ~completed' /\ pending'[k].on => (Queued(k) \/ Held(k) \/ Brought(k))'
      BY DEF OneJobPerPendingRead
  <2>3. CASE k # r
    <3>1. \A d \in Clients : Brings(d, k)' <=> Brings(d, k)
        BY <1>3, <1>4, <2>1, <2>3
    <3> QED
        BY <1>2, <1>5, <1>6, <2>3, <3>1 DEF OneJobPerPendingRead, OneJob, ReadJobAt, Brought, Serving
  <2>4. CASE k = r
    <3>1. Serving => ~Queued(k) /\ ~Held(k) /\ ~Brought(k)
        BY <1>8, <2>4 DEF OneJobPerPendingRead, OneJob
    <3>2. Serving' => \A d, e \in Clients : Brings(d, k)' /\ Brings(e, k)' => d = e
        BY <1>3, <1>5, <3>1 DEF Serving, Brought
    <3>3. Serving' => \A i, j \in DOMAIN queue' : ReadJobAt(i, k)' /\ ReadJobAt(j, k)' => i = j
        BY <1>5, <3>1 DEF Serving, Queued, ReadJobAt
    <3>4. Brings(c, k)'
      <4>1. pc'[c] = "mark" /\ req' = req
          BY <1>1, <1>8 DEF Register, Goto, TypeOK, CallType
      <4>2. req[c].method \in ReadMethods
          BY <1>1 DEF TypeOK, CallType
      <4> QED
          BY <2>4, <4>1, <4>2 DEF Brings
    <3> QED
        BY <1>2, <1>5, <1>6, <2>4, <3>1, <3>2, <3>3, <3>4 DEF OneJob, Brought, Serving
  <2> QED
      BY <2>3, <2>4
<1> QED
    BY <1>7, <1>8

(* A call that begins has no part in any item yet. *)
LEMMA CallKeepsOneJob ==
  ASSUME TypeOK, OneJobPerPendingRead, NEW c \in Clients, NEW m \in Methods,
         NEW k \in Keys, NEW l \in Lens, NEW v \in Values, Call(c, m, k, l, v)
  PROVE  OneJobPerPendingRead'
<1>1. \A d \in Clients, j \in Keys : d # c => (Brings(d, j)' <=> Brings(d, j))
    BY DEF Call, Brings, TypeOK, CallType
<1>2. \A j \in Keys : ~Brings(c, j) /\ ~Brings(c, j)'
    BY DEF Call, Free, Brings, TypeOK, CallType
<1>3. \A j \in Keys : (Brought(j)' <=> Brought(j)) /\ (Held(j)' <=> Held(j))
    BY <1>1, <1>2 DEF Brought, Held, Call, workVars
<1>4. Serving' <=> Serving
    BY DEF Call, workVars, Serving
<1> QED
    BY <1>1, <1>2, <1>3, <1>4, NoNewJob DEF Call, lifeVars

(* Mark, AddThrows and Awake add nothing to the queue. *)
LEMMA ReturnKeepsOneJob ==
  ASSUME TypeOK, OneJobPerPendingRead, NEW c \in Clients, Mark(c) \/ AddThrows(c) \/ Awake(c)
  PROVE  OneJobPerPendingRead'
<1>1. UNCHANGED <<queue, pending, completed, thread, wpc, hand>>
    BY DEF Mark, AddThrows, Awake, lifeVars, workVars
<1>2. \A d \in Clients, k \in Keys : d # c => (Brings(d, k)' <=> Brings(d, k))
    BY DEF Mark, AddThrows, Awake, Goto, Brings, TypeOK, CallType
<1>3. \A k \in Keys : Brings(c, k)' => Brings(c, k)
    BY DEF Mark, AddThrows, Awake, Goto, Brings, TypeOK, CallType
<1>4. completed \/ \A k \in Keys : Brings(c, k) => Brings(c, k)'
    BY DEF Mark, AddThrows, Awake, Goto, Brings, TypeOK, CallType
<1>5. completed' \/ \A k \in Keys : Brought(k) => Brought(k)'
    BY <1>1, <1>2, <1>4 DEF Brought
<1>6. \A k \in Keys : Held(k)' <=> Held(k)
    BY <1>1 DEF Held
<1> QED
    BY <1>1, <1>2, <1>3, <1>5, <1>6, NoNewJob DEF Serving

(* _queue.Add: the job of the item goes from its caller to the queue. *)
LEMMA AddKeepsOneJob ==
  ASSUME TypeOK, OneJobPerPendingRead, NEW c \in Clients, Add(c)
  PROVE  OneJobPerPendingRead'
<1>0. queue \in Seq(Job)
    BY DEF TypeOK, JobType
<1> PICK n \in Nat : n = Len(queue) + 1
    BY <1>0
<1>1. queue \in Seq(Job) /\ queue' = Append(queue, NewJob(c))
    BY <1>0 DEF Add
<1>2. UNCHANGED <<pending, completed, thread, wpc, hand>>
    BY DEF Add, lifeVars, workVars
<1>3. /\ DOMAIN queue = 1 .. Len(queue) /\ DOMAIN queue' = 1 .. n /\ Len(queue) \in Nat
      /\ \A i \in DOMAIN queue : queue'[i] = queue[i]
      /\ queue'[n] = NewJob(c)
    BY <1>1
<1>4. \A d \in Clients, k \in Keys : d # c => (Brings(d, k)' <=> Brings(d, k))
    BY DEF Add, Goto, Brings, TypeOK, CallType
<1>5. \A k \in Keys : ~Brings(c, k)'
    BY DEF Add, Goto, Brings, TypeOK, CallType
<1>6. \A k \in Keys : ReadJobAt(n, k)' <=> Brings(c, k)
    BY <1>3 DEF Add, ReadJobAt, NewJob, Brings
<1>7. \A k \in Keys, i \in DOMAIN queue : ReadJobAt(i, k)' <=> ReadJobAt(i, k)
    BY <1>3 DEF ReadJobAt
<1>8. \A k \in Keys : Queued(k)' <=> Queued(k) \/ Brings(c, k)
    BY <1>3, <1>6, <1>7 DEF Queued
<1>9. \A k \in Keys : Held(k)' <=> Held(k)
    BY <1>2 DEF Held
<1> SUFFICES ASSUME NEW k \in Keys
             PROVE  /\ Serving' => OneJob(k)'
                    /\ ~completed' /\ pending'[k].on => (Queued(k) \/ Held(k) \/ Brought(k))'
    BY DEF OneJobPerPendingRead
<1>10. CASE Brings(c, k)
  <2>1. Brought(k)
      BY <1>10 DEF Brought
  <2>2. Serving => ~Brought(k)' /\ ~Queued(k) /\ ~Held(k) /\ pending[k].on
      BY <1>4, <1>5, <1>10, <2>1 DEF OneJobPerPendingRead, OneJob, Brought
  <2>3. Serving => \A i, j \in DOMAIN queue' : ReadJobAt(i, k)' /\ ReadJobAt(j, k)' => i = j
      BY <1>3, <1>7, <2>2 DEF Queued
  <2>4. \A d, e \in Clients : Brings(d, k)' /\ Brings(e, k)' => Brought(k)'
      BY DEF Brought
  <2> QED
      BY <1>2, <1>8, <1>9, <1>10, <2>2, <2>3, <2>4 DEF OneJob, Serving
<1>11. CASE ~Brings(c, k)
  <2>1. \A d \in Clients : Brings(d, k)' <=> Brings(d, k)
      BY <1>4, <1>5, <1>11
  <2>2. Brought(k)' <=> Brought(k)
      BY <2>1 DEF Brought
  <2>3. \A i \in DOMAIN queue' : ReadJobAt(i, k)' => i \in DOMAIN queue /\ ReadJobAt(i, k)
      BY <1>3, <1>6, <1>7, <1>11
  <2> QED
      BY <1>2, <1>8, <1>9, <1>11, <2>1, <2>2, <2>3 DEF OneJobPerPendingRead, OneJob, Serving
<1> QED
    BY <1>10, <1>11

(* GetConsumingEnumerable: the job goes from the queue to the hand. *)
LEMMA TakeKeepsOneJob ==
  ASSUME TypeOK, OneJobPerPendingRead, Take
  PROVE  OneJobPerPendingRead'
<1>1. queue \in Seq(Job) /\ queue # <<>> /\ queue' = Tail(queue) /\ hand' = queue[1]
    BY DEF Take, TypeOK, JobType
<1>2. UNCHANGED <<pending, completed, thread, pc, req>> /\ wpc = "idle"
    BY DEF Take, lifeVars, callVars
<1>3. /\ DOMAIN queue = 1 .. Len(queue) /\ Len(queue) \in Nat /\ 1 \in DOMAIN queue
      /\ DOMAIN queue' = 1 .. (Len(queue) - 1)
      /\ \A i \in DOMAIN queue' : i + 1 \in DOMAIN queue /\ queue'[i] = queue[i + 1]
    BY <1>1
<1>4. wpc' = IF queue[1].op = "Read" THEN "took" ELSE "writing"
    BY <1>1 DEF Take
<1>5. Serving /\ Serving'
    BY <1>2, <1>4 DEF Take, Serving
<1>6. \A c \in Clients, k \in Keys : Brings(c, k)' <=> Brings(c, k)
    BY <1>2 DEF Brings
<1>7. \A k \in Keys : Brought(k)' <=> Brought(k)
    BY <1>6 DEF Brought
<1> SUFFICES ASSUME NEW k \in Keys
             PROVE  /\ OneJob(k)'
                    /\ ~completed' /\ pending'[k].on => (Queued(k) \/ Held(k) \/ Brought(k))'
    BY DEF OneJobPerPendingRead
<1>8. OneJob(k) /\ (~completed /\ pending[k].on => Queued(k) \/ Held(k) \/ Brought(k))
    BY <1>5 DEF OneJobPerPendingRead
<1>9. Held(k)' <=> ReadJobAt(1, k)
    BY <1>1, <1>4 DEF Held, ReadJobAt
<1>10. \A i \in DOMAIN queue' : ReadJobAt(i, k)' <=> ReadJobAt(i + 1, k)
    BY <1>3 DEF ReadJobAt
<1>11. ~Held(k)
    BY <1>2 DEF Held
<1>12. \A i, j \in DOMAIN queue' : ReadJobAt(i, k)' /\ ReadJobAt(j, k)' => i = j
  <2> SUFFICES ASSUME NEW i \in DOMAIN queue', NEW j \in DOMAIN queue', ReadJobAt(i, k)', ReadJobAt(j, k)'
               PROVE  i = j
      OBVIOUS
  <2>1. i + 1 = j + 1
      BY <1>3, <1>8, <1>10 DEF OneJob
  <2> QED
      BY <1>3, <2>1
<1>13. Queued(k)' => Queued(k)
    BY <1>3, <1>10 DEF Queued
<1>14. Held(k)' => Queued(k) /\ ~Queued(k)'
  <2> SUFFICES ASSUME Held(k)' PROVE Queued(k) /\ ~Queued(k)'
      OBVIOUS
  <2>1. ReadJobAt(1, k)
      BY <1>9
  <2>2. \A i \in DOMAIN queue' : ~ReadJobAt(i, k)'
      BY <1>3, <1>8, <1>10, <2>1 DEF OneJob
  <2> QED
      BY <1>3, <2>1, <2>2 DEF Queued
<1>15. Queued(k) => Queued(k)' \/ Held(k)'
  <2> SUFFICES ASSUME NEW i \in DOMAIN queue, ReadJobAt(i, k), i # 1 PROVE Queued(k)'
      BY <1>9 DEF Queued
  <2>1. i - 1 \in DOMAIN queue' /\ (i - 1) + 1 = i
      BY <1>3
  <2> QED
      BY <1>10, <2>1 DEF Queued
<1> QED
    BY <1>2, <1>6, <1>7, <1>8, <1>11, <1>12, <1>13, <1>14, <1>15 DEF OneJob

(* HandleReadJob: the item and its job end together. *)
LEMMA ClaimKeepsOneJob ==
  ASSUME TypeOK, OneJobPerPendingRead, Claim
  PROVE  OneJobPerPendingRead'
<1> DEFINE h == hand.key
<1>1. h \in Keys /\ wpc = "took" /\ wpc' \in {"idle", "reading"}
    BY DEF Claim, TypeOK, JobType, Job
<1>2. UNCHANGED <<queue, completed, thread, pc, req>>
    BY DEF Claim, lifeVars, callVars
<1>3. ~pending'[h].on /\ \A k \in Keys : k # h => pending'[k] = pending[k]
    BY <1>1 DEF Claim, TypeOK, JobType, NoItem
<1>4. \A k \in Keys : ~Held(k)' /\ (Held(k) <=> k = h)
    BY <1>1 DEF Held
<1>5. Serving' <=> Serving
    BY <1>1, <1>2 DEF Serving
<1>6. \A c \in Clients, k \in Keys : Brings(c, k)' <=> Brings(c, k)
    BY <1>2 DEF Brings
<1>7. \A k \in Keys : (Brought(k)' <=> Brought(k)) /\ (Queued(k)' <=> Queued(k))
    BY <1>2, <1>6 DEF Brought, Queued, ReadJobAt
<1> QED
    BY <1>2, <1>3, <1>4, <1>5, <1>6, <1>7 DEF OneJobPerPendingRead, OneJob, ReadJobAt

(* The worker's other steps that leave pending alone, and the Stopper's. *)
LEMMA OtherKeepsOneJob ==
  ASSUME OneJobPerPendingRead, BeforeStart,
         \/ Exit \/ ExecuteReadMap \/ ExecuteWriteMap \/ Answer \/ CrashExit
         \/ \E k \in Keys : Fail(k)
         \/ Start \/ Dispose \/ Cancel \/ CompleteAdding \/ StopReturns \/ UNCHANGED vars
  PROVE  OneJobPerPendingRead'
<1> USE DEF Exit, ExecuteReadMap, ExecuteWriteMap, Answer, CrashExit, Fail, Start, Dispose, Cancel,
            CompleteAdding, StopReturns, vars, lifeVars, workVars, callVars
<1>0. UNCHANGED <<queue, pending, pc, req>>
    OBVIOUS
<1>1. completed => completed'
  <2>1. completed' = completed \/ completed' = TRUE
      OBVIOUS
  <2> QED
      BY <2>1, Zenon
<1>2. UNCHANGED <<wpc, hand>> \/ (wpc # "took" /\ wpc' # "took")
    OBVIOUS
<1>3. Serving' => Serving
    BY DEF Serving, BeforeStart
<1>4. \A k \in Keys : Held(k)' <=> Held(k)
    BY <1>2 DEF Held
<1>5. \A c \in Clients, k \in Keys : Brings(c, k)' <=> Brings(c, k)
    BY <1>0 DEF Brings
<1>6. \A k \in Keys : Brought(k)' <=> Brought(k)
    BY <1>5 DEF Brought
<1> QED
    BY <1>0, <1>1, <1>3, <1>4, <1>5, <1>6, NoNewJob

(* Every step keeps one job in the queue for every read that is pending.   *)
LEMMA NextOneJob ==
  ASSUME TypeOK, BeforeStart, OneJobPerPendingRead, [Next]_vars
  PROVE  OneJobPerPendingRead'
<1>1. ASSUME NEW c \in Clients, NEW m \in Methods, NEW k \in Keys, NEW l \in Lens, NEW v \in Values,
             Call(c, m, k, l, v)
      PROVE  OneJobPerPendingRead'
    BY <1>1, CallKeepsOneJob
<1>2. ASSUME NEW c \in Clients, Client(c) PROVE OneJobPerPendingRead'
    BY <1>2, RegisterKeepsOneJob, ReturnKeepsOneJob, AddKeepsOneJob DEF Client
<1>3. CASE Take
    BY <1>3, TakeKeepsOneJob
<1>4. CASE Claim
    BY <1>4, ClaimKeepsOneJob
<1>5. CASE Crash \/ Join
  <2>1. \A k \in Keys : ~pending'[k].on
      BY <1>5 DEF Crash, Join, NoItem
  <2>2. ~Serving'
      BY <1>5 DEF Crash, Join, Serving, workVars
  <2> QED
      BY <2>1, <2>2, NothingPending
<1>6. CASE \/ Exit \/ ExecuteReadMap \/ ExecuteWriteMap \/ Answer \/ CrashExit
           \/ \E k \in Keys : Fail(k)
           \/ Start \/ Dispose \/ Cancel \/ CompleteAdding \/ StopReturns \/ UNCHANGED vars
    BY <1>6, OtherKeepsOneJob
<1> QED
    BY <1>1, <1>2, <1>3, <1>4, <1>5, <1>6 DEF Next, Worker, Lifecycle

(***************************************************************************)
(* For any number of threads, objects and payloads and any queue bound,    *)
(* coalescing in EnqueueRead and HandleReadJob loses no read and repeats   *)
(* none: a pending item has exactly one job that will bring it.            *)
(***************************************************************************)
THEOREM OneJobCorrect == Spec => []OneJobPerPendingRead
<1>1. IInv /\ [Next]_vars => IInv'
    BY NextLife, NextJob, NextCall, NextStore, NextBeforeStart, NextOneJob DEF IInv, TypeOK
<1>2. IInv => OneJobPerPendingRead
    BY DEF IInv
<1> QED
    BY <1>1, <1>2, InitIInv, PTL DEF Spec

-----------------------------------------------------------------------------
(* StoreIsDevice: only the worker's two transfers change the slave or put  *)
(* a value in the store; everyone else keeps LastRaw or clears it.         *)
LEMMA NextStoreIsDevice ==
  ASSUME TypeOK, StoreIsDevice, [Next]_vars
  PROVE  StoreIsDevice'
<1>1. point \in [Keys -> Point] /\ device \in [Keys -> Values]
    BY DEF TypeOK, StoreType
<1>2. ASSUME NEW c \in Clients, Mark(c) PROVE StoreIsDevice'
    BY <1>1, <1>2 DEF StoreIsDevice, Mark, UpdatePending, NoSlave, Point
<1>3. CASE ExecuteReadMap
  <2>1. hand.key \in Keys /\ device' = device
      BY <1>3 DEF ExecuteReadMap, TypeOK, JobType, Job
  <2>2. CASE UpdateOk(hand.key, device[hand.key], TRUE)
      BY <1>1, <2>1, <2>2 DEF StoreIsDevice, UpdateOk, Point
  <2>3. CASE UpdateError(hand.key, TRUE)
      BY <1>1, <2>1, <2>3 DEF StoreIsDevice, UpdateError, Point
  <2>4. CASE NoSlave(hand.key)
      BY <2>1, <2>4 DEF StoreIsDevice, NoSlave
  <2> QED
      BY <1>3, <2>2, <2>3, <2>4 DEF ExecuteReadMap
<1>4. CASE ExecuteWriteMap
  <2>1. hand.key \in Keys
      BY <1>4 DEF ExecuteWriteMap, TypeOK, JobType, Job
  <2>2. CASE device' = [device EXCEPT ![hand.key] = hand.val] /\ UpdateOk(hand.key, hand.val, FALSE)
      BY <1>1, <2>1, <2>2 DEF StoreIsDevice, UpdateOk, Point
  <2>3. CASE /\ device' \in {device, [device EXCEPT ![hand.key] = hand.val]}
             /\ UpdateError(hand.key, FALSE)
      BY <1>1, <2>1, <2>3 DEF StoreIsDevice, UpdateError, Point
  <2>4. CASE UNCHANGED device /\ NoSlave(hand.key)
      BY <2>4 DEF StoreIsDevice, NoSlave
  <2> QED
      BY <1>4, <2>2, <2>3, <2>4 DEF ExecuteWriteMap
<1>5. ASSUME NEW k \in Keys, Fail(k) PROVE StoreIsDevice'
    BY <1>1, <1>5 DEF StoreIsDevice, Fail, NoSlave
<1>6. CASE UNCHANGED <<point, device>>
    BY <1>6 DEF StoreIsDevice
<1> QED
    BY <1>2, <1>3, <1>4, <1>5, <1>6, StoreFrame

(***************************************************************************)
(* The value the Datamap shows for an object is the one the slave holds,   *)
(* for any interleaving of readers, writers and failures: UpdateError      *)
(* clears LastRaw because a write that failed may have been taken.         *)
(***************************************************************************)
THEOREM StoreCorrect == Spec => []StoreIsDevice
<1>1. Init => TypeOK /\ StoreIsDevice
    BY InitTypeOK DEF Init, StoreIsDevice
<1>2. TypeOK /\ StoreIsDevice /\ [Next]_vars => (TypeOK /\ StoreIsDevice)'
    BY NextLife, NextJob, NextCall, NextStore, NextStoreIsDevice DEF TypeOK
<1> QED
    BY <1>1, <1>2, PTL DEF Spec

-----------------------------------------------------------------------------
(***************************************************************************)
(* ServiceSpec.  The refinement needs to know where a waiter can be: the   *)
(* item it has registered for, the item FailAllPending has taken over, the *)
(* write job in the queue or the job in the worker's hand, and never in    *)
(* two of them, while its call lasts and has no result.  A waiter whose    *)
(* call has thrown stays where it was, but then nobody calls any more.     *)
(***************************************************************************)
ReaderOf(c, k) ==
  /\ pc[c] \in {"mark", "add", "wait"} /\ answer[c] = "none"
  /\ req[c].method = "EnqueueReadAsync" /\ req[c].key = k
WriterOf(c) ==
  pc[c] = "wait" /\ answer[c] = "none" /\ req[c].method = "EnqueueWriteAsync"
Gone(c) == pc[c] = "idle" /\ completed

InFlight == wpc \in {"reading", "writing", "answer"}

LifeInv ==
  /\ wpc # "idle" => thread = "alive"
  /\ stop = "drain" => thread = "dead"
  /\ running => stop = "up"
  /\ completed => stop \notin {"new", "up", "cancel", "complete"}
DrainInv ==
  \A k \in Keys :
    /\ pending[k].on \/ pending[k] = NoItem
    /\ drain[k].on \/ drain[k] = NoItem
    /\ drain[k].on => wpc = "failing" \/ stop = "drain"
HandInv ==
  /\ wpc \in {"took", "reading"} => hand.op = "Read"
  /\ wpc = "writing" => hand.op = "Write"
ReaderInv ==
  \A k \in Keys, c \in Clients :
    /\ c \in pending[k].waiters => ReaderOf(c, k) \/ Gone(c)
    /\ c \in drain[k].waiters => ReaderOf(c, k) \/ Gone(c)
    /\ c \in pending[k].waiters /\ c \in drain[k].waiters => Gone(c)
ServedInv ==
  InFlight =>
    \A c \in Clients : c \in hand.waiters =>
      IF hand.op = "Read"
      THEN Gone(c) \/ (ReaderOf(c, hand.key) /\ c \notin pending[hand.key].waiters)
      ELSE WriterOf(c) /\ \A i \in DOMAIN queue : c \notin queue[i].waiters
QueueInv ==
  \A c \in Clients, i \in DOMAIN queue : c \in queue[i].waiters =>
    /\ queue[i].op = "Write" /\ WriterOf(c)
    /\ \A j \in DOMAIN queue : c \in queue[j].waiters => j = i

AnswerInv ==
  \A c \in Clients : answer[c] # "none" =>
    \/ pc[c] = "wait"
    \/ pc[c] \in {"mark", "add"} /\ req[c].method = "EnqueueReadAsync"

WInv == /\ LifeInv /\ DrainInv /\ HandInv /\ AnswerInv
        /\ ReaderInv /\ ServedInv /\ QueueInv

(* The constructor leaves nobody waiting. *)
LEMMA InitWInv == Init => WInv
<1> SUFFICES ASSUME Init PROVE WInv
    OBVIOUS
<1>1. LifeInv /\ HandInv /\ AnswerInv /\ ServedInv
    BY DEF Init, LifeInv, HandInv, AnswerInv, ServedInv, InFlight
<1>2. DrainInv /\ ReaderInv
    BY DEF Init, DrainInv, ReaderInv, NoItem
<1>3. DOMAIN queue = {}
    BY DEF Init
<1>4. QueueInv
    BY <1>3 DEF QueueInv
<1> QED
    BY <1>1, <1>2, <1>4 DEF WInv

(* Start, Stop and the worker thread keep in step. *)
LEMMA NextLifeInv ==
  ASSUME TypeOK, BeforeStart, LifeInv, [Next]_vars
  PROVE  LifeInv'
<1> USE DEF LifeInv
<1>1. CASE Worker
  <2>1. CASE Take \/ Exit
      BY <2>1 DEF Take, Exit, lifeVars
  <2>2. CASE Claim \/ Answer
      BY <2>2 DEF Claim, Answer, lifeVars
  <2>3. CASE ExecuteReadMap \/ ExecuteWriteMap
    <3>1. wpc # "idle" /\ UNCHANGED <<running, completed, stop, thread>>
        BY <2>3 DEF ExecuteReadMap, ExecuteWriteMap, lifeVars
    <3> QED
        BY <3>1
  <2>4. CASE Crash \/ CrashExit
      BY <2>4 DEF Crash, Thrown, CrashExit, lifeVars
  <2> QED
      BY <1>1, <2>1, <2>2, <2>3, <2>4 DEF Worker
<1>2. CASE Start \/ Dispose \/ Lifecycle
    BY <1>2 DEF Start, Dispose, Lifecycle, Cancel, CompleteAdding, Join, StopReturns, workVars,
                BeforeStart, TypeOK, LifeType
<1>3. ASSUME UNCHANGED <<lifeVars, workVars>> PROVE LifeInv'
    BY <1>3 DEF lifeVars, workVars
<1>4. ASSUME NEW c \in Clients, Client(c) PROVE UNCHANGED <<lifeVars, workVars>>
    BY <1>4 DEF Client, Register, Mark, Add, AddThrows, Awake
<1>5. ASSUME NEW k \in Keys, Fail(k) PROVE UNCHANGED <<lifeVars, workVars>>
    BY <1>5 DEF Fail
<1> QED
    BY <1>1, <1>2, <1>3, <1>4, <1>5 DEF Next, Call, vars, lifeVars, workVars

(* FailAllPending ends with nothing in its list, and starts from an item   *)
(* that is either registered or empty.                                     *)
LEMMA NextDrainInv ==
  ASSUME TypeOK, LifeInv, DrainInv, [Next]_vars
  PROVE  DrainInv'
<1> USE DEF DrainInv
<1>0. pending \in [Keys -> Item] /\ drain \in [Keys -> Item]
    BY DEF TypeOK, JobType
<1>1. ASSUME NEW c \in Clients, Register(c) PROVE DrainInv'
  <2>1. req[c].key \in Keys
      BY <1>1 DEF Register, TypeOK, CallType, Request
  <2>2. \A k \in Keys : pending'[k] = pending[k] \/ pending'[k].on
      BY <1>0, <1>1, <2>1 DEF Register, Merge
  <2> QED
      BY <1>1, <2>2 DEF Register, lifeVars, workVars
<1>2. CASE Claim
  <2>1. hand.key \in Keys
      BY <1>2 DEF Claim, TypeOK, JobType, Job
  <2>2. \A k \in Keys : pending'[k] = pending[k] \/ pending'[k] = NoItem
      BY <1>0, <1>2, <2>1 DEF Claim
  <2> QED
      BY <1>2, <2>2 DEF Claim, lifeVars
<1>3. CASE Crash \/ Join
    BY <1>3 DEF Crash, Join, lifeVars
<1>4. ASSUME NEW k \in Keys, Fail(k) PROVE DrainInv'
  <2>1. \A j \in Keys : drain'[j] = drain[j] \/ drain'[j] = NoItem
      BY <1>0, <1>4 DEF Fail
  <2>2. ~NoItem.on
      BY DEF NoItem
  <2> QED
      BY <1>4, <2>1, <2>2 DEF Fail, lifeVars, workVars
<1>5. CASE CrashExit \/ StopReturns
    BY <1>5 DEF CrashExit, StopReturns, Drained
<1>6. ASSUME UNCHANGED <<pending, drain>>,
             wpc = "failing" => wpc' = "failing", stop = "drain" => stop' = "drain"
      PROVE  DrainInv'
    BY <1>6
<1>7. CASE \/ Take \/ Exit \/ ExecuteReadMap \/ ExecuteWriteMap \/ Answer
           \/ Start \/ Dispose \/ Cancel \/ CompleteAdding \/ UNCHANGED vars
    BY <1>6, <1>7 DEF Take, Exit, ExecuteReadMap, ExecuteWriteMap, Answer, Start, Dispose, Cancel,
                      CompleteAdding, lifeVars, workVars, vars
<1>8. ASSUME NEW c \in Clients, Mark(c) \/ Add(c) \/ AddThrows(c) \/ Awake(c)
      PROVE  DrainInv'
    BY <1>6, <1>8 DEF Mark, Add, AddThrows, Awake, lifeVars, workVars
<1>9. ASSUME NEW c \in Clients, NEW m \in Methods, NEW k \in Keys, NEW l \in Lens, NEW v \in Values,
             Call(c, m, k, l, v)
      PROVE  DrainInv'
    BY <1>6, <1>9 DEF Call, lifeVars, workVars
<1> QED
    BY <1>1, <1>2, <1>3, <1>4, <1>5, <1>7, <1>8, <1>9 DEF Next, Client, Worker, Lifecycle

(* A read job is read and a write job is written. *)
LEMMA NextHandInv ==
  ASSUME TypeOK, HandInv, [Next]_vars
  PROVE  HandInv'
<1> USE DEF HandInv
<1>1. CASE Take
  <2>1. Head(queue) \in Job
      BY <1>1 DEF Take, TypeOK, JobType
  <2> QED
      BY <1>1, <2>1 DEF Take, Job
<1>2. CASE Claim
    BY <1>2 DEF Claim, TypeOK, JobType, Job
<1>3. CASE \/ ExecuteReadMap \/ ExecuteWriteMap \/ Answer \/ Crash \/ CrashExit \/ Join
           \/ \E c \in Clients : Register(c) \/ Add(c)
           \/ \E k \in Keys : Fail(k)
           \/ UNCHANGED <<queue, pending, drain, wpc, hand, ok>>
    BY <1>3 DEF ExecuteReadMap, ExecuteWriteMap, Answer, Crash, CrashExit, Join, Register, Add,
                Fail, workVars
<1> QED
    BY <1>1, <1>2, <1>3, JobFrame

(* A result is only given to a call that is under way. *)
LEMMA NextAnswerInv ==
  ASSUME TypeOK, AnswerInv, LifeInv, ReaderInv, ServedInv, [Next]_vars
  PROVE  AnswerInv'
<1> USE DEF AnswerInv
<1>0. pc \in [Clients -> {"idle", "register", "mark", "add", "wait"}] /\ DOMAIN req = Clients
      /\ answer \in [Clients -> {"none", "true", "false"}]
    BY DEF TypeOK, CallType
<1>1. ASSUME NEW c \in Clients, NEW m \in Methods, NEW k \in Keys, NEW l \in Lens, NEW v \in Values,
             Call(c, m, k, l, v)
      PROVE  AnswerInv'
    BY <1>0, <1>1 DEF Call, Free
<1>2. ASSUME NEW c \in Clients, Register(c) PROVE AnswerInv'
  <2>1. answer[c] = "none" /\ answer' = answer
      BY <1>0, <1>2 DEF Register
  <2>2. \A d \in Clients : d # c => pc'[d] = pc[d] /\ req'[d] = req[d]
      BY <1>0, <1>2 DEF Register, Goto
  <2> QED
      BY <2>1, <2>2
<1>3. ASSUME NEW c \in Clients, Mark(c) \/ Add(c) PROVE AnswerInv'
  <2>1. answer' = answer /\ \A d \in Clients : d # c => pc'[d] = pc[d] /\ req'[d] = req[d]
      BY <1>0, <1>3 DEF Mark, Add, Goto
  <2>2. answer[c] # "none" => req[c].method = "EnqueueReadAsync"
      BY <1>0, <1>3 DEF Mark, Add
  <2>3. CASE Mark(c)
      BY <1>0, <2>1, <2>2, <2>3 DEF Mark, Goto
  <2>4. CASE Add(c)
      BY <1>0, <2>1, <2>2, <2>4 DEF Add, Goto, AsyncMethods
  <2> QED
      BY <1>3, <2>3, <2>4
<1>4. ASSUME NEW c \in Clients, AddThrows(c) \/ Awake(c) PROVE AnswerInv'
    BY <1>0, <1>4 DEF AddThrows, Awake, Goto
<1>5. CASE Answer
  <2>1. /\ UNCHANGED <<pc, req>> /\ InFlight
        /\ \A c \in Clients : answer'[c] = answer[c] \/ (c \in hand.waiters /\ pc[c] # "idle")
      BY <1>5 DEF Answer, Resolve, InFlight
  <2> QED
      BY <2>1 DEF ServedInv, ReaderOf, WriterOf, Gone
<1>6. ASSUME NEW k \in Keys, Fail(k) PROVE AnswerInv'
  <2>1. /\ UNCHANGED <<pc, req>>
        /\ \A c \in Clients : answer'[c] = answer[c] \/ (c \in drain[k].waiters /\ pc[c] # "idle")
      BY <1>6 DEF Fail, Resolve
  <2> QED
      BY <2>1 DEF ReaderInv, ReaderOf, Gone
<1>7. CASE UNCHANGED <<pc, req, answer>>
    BY <1>7
<1> QED
    BY <1>1, <1>2, <1>3, <1>4, <1>5, <1>6, <1>7, CallFrame DEF Client

(* A call that has thrown is over for good: adding is completed, so nobody *)
(* calls any more.                                                         *)
LEMMA GoneStays ==
  ASSUME TypeOK, LifeInv, [Next]_vars, NEW c \in Clients, Gone(c)
  PROVE  Gone(c)'
<1>1. completed' /\ ~running
  <2>1. completed' = completed \/ completed' = TRUE
      BY DEF Next, vars, Call, Client, Register, Mark, Add, AddThrows, Awake, Worker, Take, Exit,
             Claim, ExecuteReadMap, ExecuteWriteMap, Answer, Crash, CrashExit, Fail, Start, Dispose,
             Lifecycle, Cancel, CompleteAdding, Join, StopReturns, lifeVars
  <2> QED
      BY <2>1 DEF Gone, LifeInv, TypeOK, LifeType
<1>2. ASSUME NEW d \in Clients, Client(d) PROVE pc'[c] = "idle"
    BY <1>2 DEF Client, Register, Mark, Add, AddThrows, Awake, Goto, Gone, TypeOK, CallType
<1>3. pc'[c] = "idle"
    BY <1>1, <1>2, CallFrame DEF Gone, Call, Answer, Fail
<1> QED
    BY <1>1, <1>3 DEF Gone

(* A reader is waiting until the transfer of its item or FailAllPending    *)
(* gives it a result, or its call throws.                                  *)
LEMMA ReaderStays ==
  ASSUME TypeOK, [Next]_vars, NEW c \in Clients, NEW k \in Keys, ReaderOf(c, k)
  PROVE  \/ ReaderOf(c, k)' \/ Gone(c)'
         \/ Answer /\ c \in hand.waiters
         \/ \E j \in Keys : Fail(j) /\ c \in drain[j].waiters
<1>0. pc \in [Clients -> {"idle", "register", "mark", "add", "wait"}] /\ DOMAIN req = Clients
      /\ answer \in [Clients -> {"none", "true", "false"}]
    BY DEF TypeOK, CallType
<1>1. ASSUME UNCHANGED <<pc[c], req[c], answer[c]>> PROVE ReaderOf(c, k)'
    BY <1>1 DEF ReaderOf
<1>2. ASSUME NEW d \in Clients, NEW m \in Methods, NEW j \in Keys, NEW l \in Lens, NEW v \in Values,
             Call(d, m, j, l, v)
      PROVE  ReaderOf(c, k)'
  <2>1. d # c
      BY <1>2 DEF Call, Free, ReaderOf
  <2> QED
      BY <1>0, <1>1, <1>2, <2>1 DEF Call
<1>3. ASSUME NEW d \in Clients, Client(d) PROVE ReaderOf(c, k)' \/ Gone(c)'
  <2>1. CASE d # c
      BY <1>0, <1>1, <1>3, <2>1 DEF Client, Register, Mark, Add, AddThrows, Awake, Goto
  <2>2. CASE d = c
      BY <1>0, <1>3, <2>2 DEF Client, Register, Mark, Add, AddThrows, Awake, Goto, ReaderOf, Gone,
                              AsyncMethods, lifeVars
  <2> QED
      BY <2>1, <2>2
<1>4. CASE Answer
    BY <1>0, <1>1, <1>4 DEF Answer, Resolve
<1>5. ASSUME NEW j \in Keys, Fail(j) PROVE ReaderOf(c, k)' \/ c \in drain[j].waiters
    BY <1>0, <1>1, <1>5 DEF Fail, Resolve
<1> QED
    BY <1>1, <1>2, <1>3, <1>4, <1>5, CallFrame

(* The same of a writer, whose job is in the queue or in the worker's hand. *)
LEMMA WriterStays ==
  ASSUME TypeOK, [Next]_vars, NEW c \in Clients, WriterOf(c)
  PROVE  \/ WriterOf(c)'
         \/ Answer /\ c \in hand.waiters
         \/ \E j \in Keys : Fail(j) /\ c \in drain[j].waiters
<1>0. pc \in [Clients -> {"idle", "register", "mark", "add", "wait"}] /\ DOMAIN req = Clients
      /\ answer \in [Clients -> {"none", "true", "false"}]
    BY DEF TypeOK, CallType
<1>1. ASSUME UNCHANGED <<pc[c], req[c], answer[c]>> PROVE WriterOf(c)'
    BY <1>1 DEF WriterOf
<1>2. ASSUME NEW d \in Clients, NEW m \in Methods, NEW j \in Keys, NEW l \in Lens, NEW v \in Values,
             Call(d, m, j, l, v)
      PROVE  WriterOf(c)'
  <2>1. d # c
      BY <1>2 DEF Call, Free, WriterOf
  <2> QED
      BY <1>0, <1>1, <1>2, <2>1 DEF Call
<1>3. ASSUME NEW d \in Clients, Client(d) PROVE WriterOf(c)'
  <2>1. d # c
      BY <1>3 DEF Client, Register, Mark, Add, AddThrows, Awake, WriterOf
  <2> QED
      BY <1>0, <1>1, <1>3, <2>1 DEF Client, Register, Mark, Add, AddThrows, Awake, Goto
<1>4. CASE Answer
    BY <1>0, <1>1, <1>4 DEF Answer, Resolve
<1>5. ASSUME NEW j \in Keys, Fail(j) PROVE WriterOf(c)' \/ c \in drain[j].waiters
    BY <1>0, <1>1, <1>5 DEF Fail, Resolve
<1> QED
    BY <1>1, <1>2, <1>3, <1>4, <1>5, CallFrame

(* A waiter comes into an item by registering for it, and into             *)
(* FailAllPending's list with its item.                                    *)
LEMMA ItemFrame ==
  ASSUME TypeOK, [Next]_vars, NEW c \in Clients, NEW k \in Keys
  PROVE  /\ c \in pending'[k].waiters =>
              \/ c \in pending[k].waiters
              \/ Register(c) /\ k = req[c].key /\ req[c].method \in AsyncMethods
         /\ c \in drain'[k].waiters =>
              \/ c \in drain[k].waiters
              \/ c \in pending[k].waiters /\ pending'[k].waiters = {}
<1>0. pending \in [Keys -> Item] /\ drain \in [Keys -> Item] /\ NoItem.waiters = {}
    BY DEF TypeOK, JobType, NoItem
<1>1. ASSUME NEW d \in Clients, Register(d)
      PROVE  /\ drain' = drain
             /\ \/ pending'[k].waiters = pending[k].waiters
                \/ /\ k = req[d].key
                   /\ pending'[k].waiters = pending[k].waiters \cup Self(d, req[d])
  <2>1. req[d].key \in Keys
      BY <1>1 DEF Register, TypeOK, CallType, Request
  <2> QED
      BY <1>0, <1>1, <2>1 DEF Register, Merge
<1>2. ASSUME NEW d \in Clients, Register(d), c \in pending'[k].waiters, c \notin pending[k].waiters
      PROVE  d = c /\ k = req[c].key /\ req[c].method \in AsyncMethods
    BY <1>1, <1>2 DEF Self
<1>3. CASE Claim
    BY <1>0, <1>3 DEF Claim, TypeOK, JobType, Job
<1>4. CASE Crash \/ Join
    BY <1>0, <1>4 DEF Crash, Join
<1>5. ASSUME NEW j \in Keys, Fail(j)
      PROVE  pending' = pending /\ (drain'[k] = drain[k] \/ drain'[k] = NoItem)
    BY <1>0, <1>5 DEF Fail
<1>6. ASSUME \/ \E d \in Clients : Add(d)
             \/ Take \/ ExecuteReadMap \/ ExecuteWriteMap \/ Answer \/ CrashExit
             \/ UNCHANGED <<queue, pending, drain, wpc, hand, ok>>
      PROVE  UNCHANGED <<pending, drain>>
    BY <1>6 DEF Add, Take, ExecuteReadMap, ExecuteWriteMap, Answer, CrashExit
<1> QED
    BY <1>0, <1>1, <1>2, <1>3, <1>4, <1>5, <1>6, JobFrame

(* A waiter that the worker answers waits nowhere else. *)
LEMMA AnsweredOnce ==
  ASSUME TypeOK, WInv, Answer, NEW c \in Clients, c \in hand.waiters, pc[c] # "idle"
  PROVE  /\ \A k \in Keys : c \notin pending[k].waiters /\ c \notin drain[k].waiters
         /\ \A i \in DOMAIN queue : c \notin queue[i].waiters
<1>1. InFlight /\ wpc = "answer" /\ hand \in Job /\ ~Gone(c) /\ thread = "alive"
    BY DEF Answer, InFlight, Gone, TypeOK, JobType, WInv, LifeInv
<1>2. ASSUME NEW k \in Keys PROVE c \notin drain[k].waiters
  <2>1. drain[k] = NoItem
      BY <1>1 DEF WInv, DrainInv, LifeInv
  <2> QED
      BY <2>1 DEF NoItem
<1>3. CASE hand.op = "Read"
  <2>1. ReaderOf(c, hand.key) /\ c \notin pending[hand.key].waiters
      BY <1>1, <1>3 DEF WInv, ServedInv
  <2>2. ASSUME NEW k \in Keys PROVE c \notin pending[k].waiters
      BY <1>1, <2>1 DEF WInv, ReaderInv, ReaderOf
  <2>3. \A i \in DOMAIN queue : c \notin queue[i].waiters
      BY <2>1 DEF WInv, QueueInv, ReaderOf, WriterOf
  <2> QED
      BY <1>2, <2>2, <2>3
<1>4. CASE hand.op = "Write"
  <2>1. WriterOf(c) /\ \A i \in DOMAIN queue : c \notin queue[i].waiters
      BY <1>1, <1>4 DEF WInv, ServedInv
  <2>2. ASSUME NEW k \in Keys PROVE c \notin pending[k].waiters
      BY <1>1, <2>1 DEF WInv, ReaderInv, ReaderOf, WriterOf
  <2> QED
      BY <1>2, <2>1, <2>2
<1> QED
    BY <1>1, <1>3, <1>4 DEF Job

(* A waiter that FailAllPending answers waits nowhere else. *)
LEMMA FailedOnce ==
  ASSUME TypeOK, WInv, NEW j \in Keys, Fail(j), NEW c \in Clients, c \in drain[j].waiters,
         pc[c] # "idle"
  PROVE  /\ \A k \in Keys : c \notin pending[k].waiters /\ c \notin drain'[k].waiters
         /\ \A i \in DOMAIN queue : c \notin queue[i].waiters
         /\ ~InFlight
<1>1. ReaderOf(c, j) /\ ~Gone(c)
    BY DEF WInv, ReaderInv, Gone
<1>2. \A k \in Keys : c \notin pending[k].waiters
    BY <1>1 DEF WInv, ReaderInv, ReaderOf
<1>3. ASSUME NEW k \in Keys PROVE c \notin drain'[k].waiters
  <2>1. CASE k = j
      BY <2>1 DEF Fail, TypeOK, JobType, NoItem
  <2>2. CASE k # j
    <3>1. c \notin drain[k].waiters
        BY <1>1, <2>2 DEF WInv, ReaderInv, ReaderOf
    <3> QED
        BY <2>2, <3>1 DEF Fail, TypeOK, JobType
  <2> QED
      BY <2>1, <2>2
<1>4. \A i \in DOMAIN queue : c \notin queue[i].waiters
    BY <1>1 DEF WInv, QueueInv, ReaderOf, WriterOf
<1>5. ~InFlight
    BY DEF Fail, InFlight, WInv, LifeInv
<1> QED
    BY <1>2, <1>3, <1>4, <1>5

(* Every reader in an item waits for that object. *)
LEMMA NextReaderInv ==
  ASSUME TypeOK, WInv, [Next]_vars
  PROVE  ReaderInv'
<1> SUFFICES ASSUME NEW k \in Keys, NEW c \in Clients
             PROVE  /\ c \in pending'[k].waiters => ReaderOf(c, k)' \/ Gone(c)'
                    /\ c \in drain'[k].waiters => ReaderOf(c, k)' \/ Gone(c)'
                    /\ c \in pending'[k].waiters /\ c \in drain'[k].waiters => Gone(c)'
    BY DEF ReaderInv
<1>1. ASSUME c \in pending[k].waiters \/ c \in drain[k].waiters
      PROVE  \/ ReaderOf(c, k)' \/ Gone(c)'
             \/ c \notin pending'[k].waiters /\ c \notin drain'[k].waiters
  <2>1. CASE Gone(c)
      BY <2>1, GoneStays DEF WInv
  <2>2. CASE ReaderOf(c, k)
    <3>1. pc[c] # "idle"
        BY <2>2 DEF ReaderOf
    <3>2. ASSUME Answer, c \in hand.waiters PROVE FALSE
        BY <1>1, <3>1, <3>2, AnsweredOnce
    <3>3. ASSUME NEW j \in Keys, Fail(j), c \in drain[j].waiters
          PROVE  c \notin pending'[k].waiters /\ c \notin drain'[k].waiters
        BY <3>1, <3>3, FailedOnce DEF Fail
    <3> QED
        BY <2>2, <3>2, <3>3, ReaderStays
  <2> QED
      BY <1>1, <2>1, <2>2 DEF WInv, ReaderInv
<1>2. ASSUME Register(c), k = req[c].key, req[c].method \in AsyncMethods
      PROVE  ReaderOf(c, k)' /\ c \notin drain'[k].waiters
  <2>1. /\ pc'[c] \in {"mark", "wait"} /\ UNCHANGED <<req, answer, drain>>
        /\ req[c].method = "EnqueueReadAsync" /\ pc[c] = "register"
      BY <1>2 DEF Register, Goto, TypeOK, CallType, ReadMethods, AsyncMethods
  <2>2. answer[c] = "none" /\ ~ReaderOf(c, k) /\ ~Gone(c)
      BY <2>1 DEF WInv, AnswerInv, ReaderOf, Gone
  <2> QED
      BY <1>2, <2>1, <2>2 DEF ReaderOf, WInv, ReaderInv
<1>3. ASSUME c \in pending'[k].waiters, c \in drain'[k].waiters PROVE Gone(c)'
  <2>1. c \in drain[k].waiters
      BY <1>3, ItemFrame
  <2>2. c \in pending[k].waiters
      BY <1>2, <1>3, ItemFrame
  <2> QED
      BY <2>1, <2>2, GoneStays DEF WInv, ReaderInv
<1> QED
    BY <1>1, <1>2, <1>3, ItemFrame

(* Those whom the transfer under way will answer wait for it alone. *)
LEMMA NextServedInv ==
  ASSUME TypeOK, IInv, WInv, [Next]_vars
  PROVE  ServedInv'
<1> SUFFICES ASSUME InFlight', NEW c \in Clients, c \in hand'.waiters
             PROVE  IF hand'.op = "Read"
                    THEN Gone(c)' \/ (ReaderOf(c, hand.key)' /\ c \notin pending'[hand'.key].waiters)
                    ELSE WriterOf(c)' /\ \A i \in DOMAIN queue' : c \notin queue'[i].waiters
    BY DEF ServedInv
<1>0. pending \in [Keys -> Item] /\ queue \in Seq(Job)
    BY DEF TypeOK, JobType
<1>1. CASE Take
  <2>1. /\ queue # <<>> /\ queue' = Tail(queue) /\ hand' = queue[1] /\ hand'.op = "Write"
        /\ UNCHANGED <<pc, req, answer>>
    <3>1. queue # <<>> /\ queue' = Tail(queue) /\ hand' = queue[1] /\ UNCHANGED <<pc, req, answer>>
        BY <1>0, <1>1 DEF Take, callVars
    <3>2. queue[1] \in Job
        BY <1>0, <3>1
    <3>3. queue[1].op # "Read"
        BY <1>0, <1>1, <3>1 DEF Take, InFlight
    <3> QED
        BY <3>1, <3>2, <3>3 DEF Job
  <2>2. /\ 1 \in DOMAIN queue
        /\ \A i \in DOMAIN queue' : i + 1 \in DOMAIN queue /\ i + 1 # 1 /\ queue'[i] = queue[i + 1]
      BY <1>0, <2>1
  <2>3. WriterOf(c) /\ \A j \in DOMAIN queue : c \in queue[j].waiters => j = 1
      BY <2>1, <2>2 DEF WInv, QueueInv
  <2> QED
      BY <2>1, <2>2, <2>3 DEF WriterOf
<1>2. CASE Claim
  <2>1. /\ hand \in Job /\ hand.key \in Keys /\ hand.op = "Read"
        /\ pending[hand.key].on
        /\ hand' = [hand EXCEPT !.len = pending[hand.key].len, !.waiters = pending[hand.key].waiters]
        /\ pending' = [pending EXCEPT ![hand.key] = NoItem]
        /\ UNCHANGED <<pc, req, answer, completed>>
      BY <1>2 DEF Claim, InFlight, callVars, lifeVars, TypeOK, JobType, Job, WInv, HandInv
  <2>2. hand'.op = "Read" /\ hand'.key = hand.key /\ c \in pending[hand.key].waiters
      BY <2>1 DEF Job
  <2>3. pending'[hand.key].waiters = {}
      BY <1>0, <2>1 DEF NoItem
  <2> QED
      BY <2>1, <2>2, <2>3 DEF WInv, ReaderInv, ReaderOf, Gone
<1>3. ASSUME UNCHANGED hand, InFlight, ~Answer
      PROVE  IF hand'.op = "Read"
             THEN Gone(c)' \/ (ReaderOf(c, hand.key)' /\ c \notin pending'[hand'.key].waiters)
             ELSE WriterOf(c)' /\ \A i \in DOMAIN queue' : c \notin queue'[i].waiters
  <2>0. hand \in Job /\ hand.key \in Keys
      BY <1>3 DEF TypeOK, JobType, InFlight, Job
  <2>1. ASSUME NEW j \in Keys, Fail(j) PROVE FALSE
      BY <1>3, <2>1 DEF Fail, InFlight, WInv, LifeInv
  <2>2. CASE hand.op = "Read" /\ Gone(c)
      BY <1>3, <2>2, GoneStays DEF WInv
  <2>3. CASE hand.op = "Read" /\ ~Gone(c)
    <3>1. ReaderOf(c, hand.key) /\ c \notin pending[hand.key].waiters
        BY <1>3, <2>3 DEF WInv, ServedInv
    <3>2. ReaderOf(c, hand.key)' \/ Gone(c)'
        BY <1>3, <2>0, <2>1, <3>1, ReaderStays
    <3>3. ~Register(c)
        BY <3>1 DEF Register, ReaderOf
    <3>4. c \notin pending'[hand.key].waiters
        BY <2>0, <3>1, <3>3, ItemFrame
    <3> QED
        BY <1>3, <2>3, <3>2, <3>4
  <2>4. CASE hand.op = "Write"
    <3>1. WriterOf(c) /\ \A i \in DOMAIN queue : c \notin queue[i].waiters
        BY <1>3, <2>4 DEF WInv, ServedInv
    <3>2. WriterOf(c)'
        BY <1>3, <2>1, <3>1, WriterStays
    <3>3. ASSUME NEW d \in Clients, Add(d), NEW i \in DOMAIN queue' PROVE c \notin queue'[i].waiters
      <4>1. d # c
          BY <3>1, <3>3 DEF Add, WriterOf
      <4>2. c \notin NewJob(d).waiters
          BY <4>1 DEF NewJob
      <4>3. queue'[i] = NewJob(d) \/ (i \in DOMAIN queue /\ queue'[i] = queue[i])
          BY <1>0, <3>3 DEF Add
      <4> QED
          BY <3>1, <4>2, <4>3
    <3>4. (\E d \in Clients : Add(d)) \/ Take \/ UNCHANGED queue
        BY JobFrame DEF Register, Claim, ExecuteReadMap, ExecuteWriteMap, Answer, Crash, CrashExit,
                        Fail, Join
    <3>5. ~Take
        BY <1>3 DEF Take, InFlight
    <3> QED
        BY <1>3, <2>4, <3>1, <3>2, <3>3, <3>4, <3>5
  <2> QED
      BY <1>3, <2>0, <2>2, <2>3, <2>4 DEF Job
<1>4. Take \/ Claim \/ (UNCHANGED hand /\ InFlight /\ ~Answer)
  <2>1. ~Answer
      BY DEF Answer, InFlight
  <2>2. Take \/ Claim \/ (UNCHANGED hand /\ InFlight)
      BY <2>1, JobFrame DEF Register, Add, ExecuteReadMap, ExecuteWriteMap, Crash, CrashExit,
                        Fail, Join, InFlight, workVars
  <2> QED
      BY <2>1, <2>2
<1> QED
    BY <1>1, <1>2, <1>3, <1>4

(* A queued job that a caller waits for is its write, and the only one. *)
LEMMA NextQueueInv ==
  ASSUME TypeOK, WInv, [Next]_vars
  PROVE  QueueInv'
<1> SUFFICES ASSUME NEW c \in Clients, NEW i \in DOMAIN queue', c \in queue'[i].waiters
             PROVE  /\ queue'[i].op = "Write" /\ WriterOf(c)'
                    /\ \A j \in DOMAIN queue' : c \in queue'[j].waiters => j = i
    BY DEF QueueInv
<1>0. queue \in Seq(Job)
    BY DEF TypeOK, JobType
<1>1. ASSUME NEW n \in DOMAIN queue, c \in queue[n].waiters PROVE WriterOf(c)'
  <2>1. WriterOf(c)
      BY <1>1 DEF WInv, QueueInv
  <2>2. pc[c] # "idle"
      BY <2>1 DEF WriterOf
  <2>3. ASSUME Answer, c \in hand.waiters PROVE FALSE
      BY <1>1, <2>2, <2>3, AnsweredOnce
  <2>4. ASSUME NEW j \in Keys, Fail(j), c \in drain[j].waiters PROVE FALSE
      BY <1>1, <2>2, <2>4, FailedOnce
  <2> QED
      BY <2>1, <2>3, <2>4, WriterStays
<1>2. ASSUME NEW d \in Clients, Add(d)
      PROVE  /\ queue'[i].op = "Write" /\ WriterOf(c)'
             /\ \A j \in DOMAIN queue' : c \in queue'[j].waiters => j = i
  <2> PICK n \in Nat : n = Len(queue) + 1
      BY <1>0
  <2>1. /\ DOMAIN queue = 1 .. Len(queue) /\ DOMAIN queue' = 1 .. n /\ Len(queue) \in Nat
        /\ \A j \in DOMAIN queue : queue'[j] = queue[j]
        /\ queue'[n] = NewJob(d)
      BY <1>0, <1>2 DEF Add
  <2>2. CASE c \in NewJob(d).waiters
    <3>1. c = d /\ req[c].method = "EnqueueWriteAsync" /\ pc[c] = "add"
        BY <1>2, <2>2 DEF NewJob, Add
    <3>2. answer[c] = "none"
        BY <3>1 DEF WInv, AnswerInv
    <3>3. WriterOf(c)'
        BY <1>2, <3>1, <3>2 DEF Add, Goto, WriterOf, AsyncMethods, TypeOK, CallType
    <3>4. \A j \in DOMAIN queue : c \notin queue[j].waiters
        BY <3>1 DEF WInv, QueueInv, WriterOf
    <3>5. \A j \in DOMAIN queue' : c \in queue'[j].waiters => j = n
        BY <2>1, <3>4
    <3>6. NewJob(d).op = "Write"
        BY <3>1 DEF NewJob, ReadMethods
    <3> QED
        BY <2>1, <3>3, <3>5, <3>6
  <2>3. CASE c \notin NewJob(d).waiters
    <3>1. \A j \in DOMAIN queue' : c \in queue'[j].waiters => j \in DOMAIN queue /\ queue'[j] = queue[j]
        BY <2>1, <2>3
    <3>2. i \in DOMAIN queue /\ queue'[i] = queue[i] /\ c \in queue[i].waiters
        BY <3>1
    <3>3. queue[i].op = "Write" /\ \A j \in DOMAIN queue : c \in queue[j].waiters => j = i
        BY <3>2 DEF WInv, QueueInv
    <3> QED
        BY <1>1, <3>1, <3>2, <3>3
  <2> QED
      BY <2>2, <2>3
<1>3. ASSUME Take
      PROVE  /\ queue'[i].op = "Write" /\ WriterOf(c)'
             /\ \A j \in DOMAIN queue' : c \in queue'[j].waiters => j = i
  <2>1. /\ \A j \in DOMAIN queue' : j + 1 \in DOMAIN queue /\ queue'[j] = queue[j + 1]
        /\ DOMAIN queue' \subseteq Nat
      BY <1>0, <1>3 DEF Take
  <2>2. queue[i + 1].op = "Write" /\ \A j \in DOMAIN queue : c \in queue[j].waiters => j = i + 1
      BY <2>1 DEF WInv, QueueInv
  <2>3. \A j \in DOMAIN queue' : c \in queue'[j].waiters => j + 1 = i + 1
      BY <2>1, <2>2
  <2> QED
      BY <1>1, <2>1, <2>2, <2>3
<1>4. ASSUME UNCHANGED queue
      PROVE  /\ queue'[i].op = "Write" /\ WriterOf(c)'
             /\ \A j \in DOMAIN queue' : c \in queue'[j].waiters => j = i
    BY <1>1, <1>4 DEF WInv, QueueInv
<1>5. (\E d \in Clients : Add(d)) \/ Take \/ UNCHANGED queue
    BY JobFrame DEF Register, Claim, ExecuteReadMap, ExecuteWriteMap, Answer, Crash, CrashExit,
                    Fail, Join
<1> QED
    BY <1>2, <1>3, <1>4, <1>5

(* What the refinement needs is inductive with OneJobPerPendingRead. *)
LEMMA NextWInv ==
  ASSUME IInv, WInv, [Next]_vars
  PROVE  WInv'
<1>1. TypeOK /\ BeforeStart
    BY DEF IInv
<1>2. LifeInv' /\ DrainInv' /\ HandInv'
    BY <1>1, NextLifeInv, NextDrainInv, NextHandInv DEF WInv
<1>3. AnswerInv' /\ ReaderInv'
    BY <1>1, NextAnswerInv, NextReaderInv DEF WInv
<1>4. ServedInv' /\ QueueInv'
    BY <1>1, NextServedInv, NextQueueInv
<1> QED
    BY <1>2, <1>3, <1>4 DEF WInv

(***************************************************************************)
(* The refinement, step by step: every step of the worker is a step of     *)
(* SdoService or leaves what the service shows as it is.                   *)
(***************************************************************************)

(* The service starts as the constructor leaves the worker. *)
LEMMA InitService == Init => Service!Init
<1> SUFFICES ASSUME Init PROVE Service!Init
    OBVIOUS
<1>1. Phase = "new" /\ Busy = "none" /\ Writing = Null /\ Served = {}
    BY DEF Init, Phase, Busy, Writing, Served
<1>2. Open = [k \in Keys |-> {}]
    BY DEF Init, Open, Calling, NoItem
<1>3. Line = <<>>
  <2>1. Coming = <<>>
      BY DEF Init, Coming
  <2> QED
      BY <2>1 DEF Line
<1> QED
    BY <1>1, <1>2, <1>3 DEF Init, Service!Init

(* What the service shows, apart from the readers that wait, the results   *)
(* and the slave, depends on the queue and on the worker's state alone.    *)
LEMMA SameWork ==
  ASSUME UNCHANGED <<queue, thread, wpc, hand>>
  PROVE  UNCHANGED <<Phase, Line, Busy, Writing>>
BY DEF Phase, Line, Coming, Busy, Writing, AsTurn

(* The waiters the service shows are those whose call is still going on. *)
Awaits(c) ==
  \/ \E k \in Keys : c \in pending[k].waiters \/ c \in drain[k].waiters
  \/ InFlight /\ c \in hand.waiters

LEMMA SameWaiters ==
  ASSUME TypeOK, UNCHANGED <<pending, drain, wpc, hand>>,
         \A c \in Clients : ((pc'[c] = "idle") <=> (pc[c] = "idle")) \/ ~Awaits(c)
  PROVE  UNCHANGED <<Open, Served>>
<1>1. ASSUME NEW k \in Keys
      PROVE  Calling(pending[k].waiters \cup drain[k].waiters)'
               = Calling(pending[k].waiters \cup drain[k].waiters)
    BY DEF Calling, Awaits, TypeOK, JobType, Item
<1>2. UNCHANGED Open
    BY <1>1 DEF Open
<1>3. ASSUME InFlight PROVE Calling(hand.waiters)' = Calling(hand.waiters)
    BY <1>3 DEF Calling, Awaits, InFlight, TypeOK, JobType, Job
<1>4. UNCHANGED Served
    BY <1>3 DEF Served, InFlight
<1> QED
    BY <1>2, <1>4

(* Only readers and writers that wait for their results are waiters. *)
LEMMA WhoAwaits ==
  ASSUME TypeOK, WInv, NEW c \in Clients, Awaits(c)
  PROVE  \/ Gone(c)
         \/ /\ pc[c] \in {"mark", "add", "wait"} /\ answer[c] = "none"
            /\ req[c].method \in AsyncMethods
            /\ pc[c] = "wait" \/ req[c].method = "EnqueueReadAsync"
BY DEF Awaits, WInv, ReaderInv, ServedInv, ReaderOf, WriterOf, AsyncMethods, TypeOK, JobType, Job

(* The Enqueue methods up to the lock. *)
LEMMA CallService ==
  ASSUME TypeOK, WInv, NEW c \in Clients, NEW m \in Methods, NEW k \in Keys, NEW l \in Lens,
         NEW v \in Values, Call(c, m, k, l, v)
  PROVE  UNCHANGED Service!vars
<1>1. pc[c] = "idle" /\ ~completed
    BY DEF Call, Free, WInv, LifeInv
<1>2. ~Awaits(c)
    BY <1>1, WhoAwaits DEF Gone
<1>3. \A d \in Clients : d # c => pc'[d] = pc[d]
    BY DEF Call, TypeOK, CallType
<1>4. UNCHANGED <<queue, thread, wpc, hand, pending, drain, answer, device>>
    BY DEF Call, workVars
<1> QED
    BY <1>2, <1>3, <1>4, SameWork, SameWaiters DEF Service!vars

(* The turns of a longer or shorter queue. *)
TurnsOf(q) == [i \in DOMAIN q |-> AsTurn(q[i])]

LEMMA TurnsAppend ==
  ASSUME NEW q \in Seq(Job), NEW job \in Job
  PROVE  /\ TurnsOf(Append(q, job)) = Append(TurnsOf(q), AsTurn(job))
         /\ <<job>> \o q \in Seq(Job)
         /\ \A h \in Job : <<h>> \o Append(q, job) = Append(<<h>> \o q, job)
<1>1. TurnsOf(Append(q, job)) = Append(TurnsOf(q), AsTurn(job))
    BY DEF TurnsOf
<1>2. <<job>> \o q \in Seq(Job)
    OBVIOUS
<1>3. ASSUME NEW h \in Job PROVE <<h>> \o Append(q, job) = Append(<<h>> \o q, job)
    OBVIOUS
<1> QED
    BY <1>1, <1>2, <1>3

LEMMA TurnsTail ==
  ASSUME NEW q \in Seq(Job), q # <<>>
  PROVE  /\ TurnsOf(q) # <<>> /\ Head(TurnsOf(q)) = AsTurn(q[1])
         /\ Tail(TurnsOf(q)) = TurnsOf(Tail(q))
         /\ <<q[1]>> \o Tail(q) = q
<1>1. TurnsOf(q) # <<>> /\ Head(TurnsOf(q)) = AsTurn(q[1])
    BY DEF TurnsOf
<1>2. Tail(TurnsOf(q)) = TurnsOf(Tail(q))
    BY DEF TurnsOf
<1>3. <<q[1]>> \o Tail(q) = q
    OBVIOUS
<1> QED
    BY <1>1, <1>2, <1>3

(* Merging a read into its item: the service accepts the reader, if it     *)
(* waits; a read without a waiter is not the service's business yet.       *)
LEMMA RegisterService ==
  ASSUME TypeOK, WInv, NEW c \in Clients, Register(c)
  PROVE  UNCHANGED Service!vars \/ Service!AcceptRead(c, req[c].key)
<1>. req[c].key \in Keys
    BY DEF Register, TypeOK, CallType, Request
<1> PICK k \in Keys : k = req[c].key
    OBVIOUS
<1>0. /\ pc[c] = "register" /\ req[c].method \in ReadMethods
      /\ pc \in [Clients -> {"idle", "register", "mark", "add", "wait"}]
      /\ pending \in [Keys -> Item]
    BY DEF Register, TypeOK, CallType, JobType, Request
<1>1. UNCHANGED <<queue, thread, wpc, hand, drain, answer, device>>
    BY DEF Register, workVars
<1>2. UNCHANGED <<Phase, Line, Busy, Writing>>
    BY <1>1, SameWork
<1>3. ~Awaits(c)
    BY <1>0, WhoAwaits DEF Gone
<1>4. \A d \in Clients : d # c => pc'[d] = pc[d]
    BY <1>0 DEF Register, Goto
<1>5. UNCHANGED Served
  <2>1. ASSUME InFlight PROVE Calling(hand.waiters)' = Calling(hand.waiters)
      BY <1>1, <1>3, <1>4, <2>1 DEF Calling, Awaits, InFlight, TypeOK, JobType, Job
  <2> QED
      BY <1>1, <2>1 DEF Served, InFlight
<1>6. /\ pending'[k].waiters = pending[k].waiters \cup Self(c, req[c])
      /\ \A j \in Keys : j # k => pending'[j] = pending[j]
    BY <1>0 DEF Register, Merge
<1>7. CASE req[c].method \in AsyncMethods
  <2>1. pc'[c] # "idle" /\ Self(c, req[c]) = {c}
      BY <1>0, <1>7 DEF Register, Goto, Self
  <2>2. Open'[k] = Open[k] \cup {c}
    <3>1. Open'[k] = {d \in pending[k].waiters \cup {c} \cup drain[k].waiters : pc'[d] # "idle"}
        BY <1>1, <1>6, <2>1 DEF Open, Calling
    <3>2. \A d \in Clients : d \in pending[k].waiters \cup drain[k].waiters => pc'[d] = pc[d]
        BY <1>3, <1>4 DEF Awaits
    <3>3. pending[k].waiters \cup drain[k].waiters \in SUBSET Clients
        BY DEF TypeOK, JobType, Item
    <3>4. Open[k] = {d \in pending[k].waiters \cup drain[k].waiters : pc[d] # "idle"}
        BY DEF Open, Calling
    <3> QED
        BY <2>1, <3>1, <3>2, <3>3, <3>4
  <2>3. ASSUME NEW j \in Keys, j # k PROVE Open'[j] = Open[j]
    <3>1. Calling(pending[j].waiters \cup drain[j].waiters)'
            = Calling(pending[j].waiters \cup drain[j].waiters)
        BY <1>1, <1>3, <1>4, <1>6, <2>3 DEF Calling, Awaits, TypeOK, JobType, Item
    <3> QED
        BY <3>1 DEF Open
  <2>4. Open' = [Open EXCEPT ![k] = @ \cup {c}]
      BY <2>2, <2>3 DEF Open
  <2> QED
      BY <1>1, <1>2, <1>5, <2>4 DEF Service!AcceptRead
<1>8. CASE req[c].method \notin AsyncMethods
  <2>1. \A j \in Keys : pending'[j].waiters = pending[j].waiters
      BY <1>6, <1>8 DEF Self
  <2>2. ASSUME NEW j \in Keys
        PROVE  Calling(pending[j].waiters \cup drain[j].waiters)'
                 = Calling(pending[j].waiters \cup drain[j].waiters)
      BY <1>1, <1>3, <1>4, <2>1 DEF Calling, Awaits, TypeOK, JobType, Item
  <2>3. UNCHANGED Open
      BY <2>2 DEF Open
  <2> QED
      BY <1>1, <1>2, <1>5, <2>3 DEF Service!vars
<1> QED
    BY <1>7, <1>8

(* SafeUpdatePending touches the store only. *)
LEMMA MarkService ==
  ASSUME TypeOK, NEW c \in Clients, Mark(c)
  PROVE  UNCHANGED Service!vars
<1>1. \A d \in Clients : (pc'[d] = "idle") <=> (pc[d] = "idle")
    BY DEF Mark, Goto, TypeOK, CallType
<1>2. UNCHANGED <<queue, thread, wpc, hand, pending, drain, answer, device>>
    BY DEF Mark, workVars
<1> QED
    BY <1>1, <1>2, SameWork, SameWaiters DEF Service!vars

(* _queue.Add: the job takes its turn. *)
LEMMA AddService ==
  ASSUME TypeOK, WInv, NEW c \in Clients, Add(c)
  PROVE  \E turn \in Service!Turns : Service!Accept(turn)
<1>0. queue \in Seq(Job) /\ NewJob(c) \in Job /\ (NewJob(c).op = "Write" => NewJob(c).val \in Values)
    BY NewJobType DEF Add, TypeOK, JobType
<1>1. UNCHANGED <<thread, wpc, hand, pending, drain, answer, device>> /\ queue' = Append(queue, NewJob(c))
    BY DEF Add, workVars
<1>2. \A d \in Clients : ((pc'[d] = "idle") <=> (pc[d] = "idle")) \/ ~Awaits(d)
  <2>1. ASSUME NEW d \in Clients, d # c PROVE pc'[d] = pc[d]
      BY <2>1 DEF Add, Goto, TypeOK, CallType
  <2>2. CASE req[c].method \in AsyncMethods
      BY <2>2 DEF Add, Goto, TypeOK, CallType
  <2>3. ASSUME req[c].method \notin AsyncMethods PROVE ~Awaits(c)
    <3>1. ~Gone(c)
        BY DEF Add, Gone
    <3> QED
        BY <2>3, <3>1, WhoAwaits
  <2> QED
      BY <2>1, <2>2, <2>3
<1>3. UNCHANGED <<Open, Served, Phase, Busy, Writing>>
    BY <1>1, <1>2, SameWaiters DEF Phase, Busy, Writing, AsTurn
<1> PICK job \in Job : job = NewJob(c)
    BY <1>0
<1>4. AsTurn(job) \in Service!Turns
    BY <1>0 DEF AsTurn, Service!Turns, Service!Turn, Job
<1>5. Line' = Append(Line, AsTurn(job))
  <2>1. Line = TurnsOf(Coming) /\ Line' = TurnsOf(Coming')
      BY DEF Line, TurnsOf, AsTurn
  <2>2. wpc = "took" => hand \in Job
      BY DEF TypeOK, JobType
  <2>3. Coming \in Seq(Job) /\ Coming' = Append(Coming, job)
      BY <1>0, <1>1, <2>2, TurnsAppend DEF Coming
  <2> QED
      BY <2>1, <2>3, TurnsAppend
<1> QED
    BY <1>1, <1>3, <1>4, <1>5 DEF Service!Accept

(* Add throws or the result is there: the client leaves the service. *)
LEMMA LeaveService ==
  ASSUME TypeOK, WInv, NEW c \in Clients, AddThrows(c) \/ Awake(c)
  PROVE  Service!Leave(c)
<1>1. UNCHANGED <<queue, pending, drain, thread, wpc, hand, device>>
    BY DEF AddThrows, Awake, workVars
<1>2. UNCHANGED <<Phase, Line, Busy, Writing>>
    BY <1>1, SameWork
<1>3. pc'[c] = "idle" /\ \A d \in Clients : d # c => pc'[d] = pc[d]
    BY DEF AddThrows, Awake, Goto, TypeOK, CallType
<1>4. ASSUME NEW W \in SUBSET Clients PROVE Calling(W)' = Calling(W) \ {c}
    BY <1>3, <1>4 DEF Calling
<1>5. \A k \in Keys : pending[k].waiters \cup drain[k].waiters \in SUBSET Clients
    BY DEF TypeOK, JobType, Item
<1>6. InFlight => hand.waiters \in SUBSET Clients
    BY DEF InFlight, TypeOK, JobType, Job
<1>7. Open' = [k \in Keys |-> Open[k] \ {c}]
    BY <1>1, <1>4, <1>5 DEF Open, Calling
<1>8. Served' = Served \ {c}
    BY <1>1, <1>4, <1>6 DEF Served, InFlight, Calling
<1>9. answer' = [answer EXCEPT ![c] = "none"]
    BY DEF AddThrows, Awake
<1> QED
    BY <1>1, <1>2, <1>7, <1>8, <1>9 DEF Service!Leave

(* GetConsumingEnumerable: a write begins, a read still has to be claimed. *)
LEMMA TakeService ==
  ASSUME TypeOK, WInv, Take
  PROVE  UNCHANGED Service!vars \/ Service!BeginWrite
<1>1. /\ queue \in Seq(Job) /\ queue # <<>> /\ queue' = Tail(queue) /\ hand' = queue[1]
      /\ wpc = "idle" /\ thread = "alive"
      /\ UNCHANGED <<pending, drain, thread, pc, req, answer, device>>
    BY DEF Take, callVars, TypeOK, JobType
<1>2. queue[1] \in Job /\ queue[1] = Head(queue) /\ 1 \in DOMAIN queue
    BY <1>1
<1>3. Line = TurnsOf(queue) /\ Line # <<>> /\ Head(Line) = AsTurn(queue[1])
    BY <1>1, TurnsTail DEF Line, Coming, TurnsOf
<1>4. Open' = Open
    BY <1>1 DEF Open, Calling
<1>5. CASE queue[1].op = "Read"
  <2>1. wpc' = "took"
      BY <1>2, <1>5 DEF Take
  <2>2. Coming' = queue
      BY <1>1, <2>1, TurnsTail DEF Coming
  <2>3. Line' = Line
      BY <1>1, <2>2 DEF Line, Coming, AsTurn
  <2> QED
      BY <1>1, <1>4, <2>1, <2>3 DEF Phase, Busy, Writing, Served, Service!vars
<1>6. CASE queue[1].op = "Write"
  <2>1. wpc' = "writing"
      BY <1>2, <1>6 DEF Take
  <2>2. Line' = TurnsOf(Tail(queue))
      BY <1>1, <2>1 DEF Line, Coming, TurnsOf, AsTurn
  <2>3. Line' = Tail(Line)
      BY <1>1, <1>3, <2>2, TurnsTail
  <2>4. \A c \in Clients : c \in queue[1].waiters => pc[c] # "idle"
      BY <1>2 DEF WInv, QueueInv, WriterOf
  <2>5. Served' = queue[1].waiters
      BY <1>1, <1>2, <2>1, <2>4 DEF Served, Calling, Job
  <2>6. Writing' = AsTurn(queue[1])
      BY <1>1, <2>1 DEF Writing, AsTurn
  <2>7. AsTurn(queue[1]).op = "Write" /\ AsTurn(queue[1]).waiters = queue[1].waiters
      BY <1>6 DEF AsTurn
  <2>8. Phase = "up" /\ Phase' = "up" /\ Busy = "none" /\ Busy' = "write"
      BY <1>1, <2>1 DEF Phase, Busy
  <2> QED
      BY <1>1, <1>3, <1>4, <2>3, <2>5, <2>6, <2>7, <2>8 DEF Service!BeginWrite, Service!ItsTurn
<1> QED
    BY <1>2, <1>5, <1>6 DEF Job

(* HandleReadJob, first half: the item is there, as nothing else could     *)
(* have taken it, and its readers are served.                              *)
LEMMA ClaimService ==
  ASSUME IInv, WInv, Claim
  PROVE  Service!BeginRead
<1>0. TypeOK
    BY DEF IInv
<1> PICK k \in Keys : k = hand.key
    BY <1>0 DEF Claim, TypeOK, JobType, Job
<1>1. /\ hand \in Job /\ hand.op = "Read" /\ wpc = "took" /\ thread = "alive"
      /\ queue \in Seq(Job) /\ pending \in [Keys -> Item]
    BY <1>0 DEF Claim, TypeOK, JobType, WInv, HandInv, LifeInv
<1>2. pending[k].on
    BY <1>1 DEF IInv, OneJobPerPendingRead, OneJob, Serving, Held
<1>3. /\ wpc' = "reading" /\ hand'.waiters = pending[k].waiters
      /\ pending' = [pending EXCEPT ![k] = NoItem]
      /\ UNCHANGED <<queue, drain, thread, pc, req, answer, device>>
    BY <1>1, <1>2 DEF Claim, callVars, Job
<1>4. Phase = "up" /\ Phase' = "up" /\ Busy = "none" /\ Busy' = "read" /\ Writing' = Writing
    BY <1>1, <1>3 DEF Phase, Busy, Writing
<1>5. drain[k].waiters = {} /\ drain[k] = NoItem
    BY <1>1 DEF WInv, DrainInv, LifeInv, NoItem
<1>6. Line # <<>> /\ Head(Line) = AsTurn(hand) /\ Line' = Tail(Line)
  <2>1. Coming = <<hand>> \o queue /\ Coming' = queue
      BY <1>1, <1>3 DEF Coming
  <2>2. Coming \in Seq(Job) /\ Coming # <<>> /\ Coming[1] = hand /\ Tail(Coming) = queue
      BY <1>1, <2>1
  <2>3. Line = TurnsOf(Coming) /\ Line' = TurnsOf(Coming')
      BY DEF Line, TurnsOf, AsTurn
  <2> QED
      BY <2>1, <2>2, <2>3, TurnsTail
<1>7. Head(Line).op = "Read" /\ Head(Line).key = k
    BY <1>1, <1>6 DEF AsTurn
<1>8. Served' = Open[k]
    BY <1>3, <1>5 DEF Served, Open, Calling
<1>9. Open' = [Open EXCEPT ![k] = {}]
  <2>1. pending'[k].waiters = {} /\ \A j \in Keys : j # k => pending'[j] = pending[j]
      BY <1>1, <1>3 DEF NoItem
  <2>2. Open'[k] = {}
      BY <1>3, <1>5, <2>1 DEF Open, Calling
  <2>3. \A j \in Keys : j # k => Open'[j] = Open[j]
      BY <1>3, <2>1 DEF Open, Calling
  <2> QED
      BY <2>2, <2>3 DEF Open
<1> QED
    BY <1>3, <1>4, <1>6, <1>7, <1>8, <1>9 DEF Service!BeginRead, Service!ItsTurn

(* ExecuteReadMap and ExecuteWriteMap, a failed write included. *)
LEMMA TransferService ==
  ASSUME TypeOK, WInv, ExecuteReadMap \/ ExecuteWriteMap
  PROVE  Service!Transfer
<1>1. /\ UNCHANGED <<queue, pending, drain, thread, hand, pc, req, answer>>
      /\ wpc' = "answer" /\ wpc \in {"reading", "writing"}
    BY DEF ExecuteReadMap, ExecuteWriteMap, callVars
<1>2. UNCHANGED <<Phase, Open, Line, Served>> /\ Busy' = "done" /\ Writing' = Null
    BY <1>1 DEF Phase, Open, Line, Coming, Served, Calling, AsTurn, Busy, Writing
<1>3. CASE ExecuteReadMap
  <2>1. Busy = "read" /\ device' = device
      BY <1>3 DEF ExecuteReadMap, Busy
  <2> QED
      BY <1>1, <1>2, <2>1 DEF Service!Transfer
<1>4. CASE ExecuteWriteMap
  <2>1. Busy = "write" /\ device' \in {device, [device EXCEPT ![hand.key] = hand.val]}
      BY <1>4 DEF ExecuteWriteMap, Busy
  <2>2. Writing.key = hand.key /\ Writing.val = hand.val
      BY <1>4 DEF ExecuteWriteMap, Writing, AsTurn, WInv, HandInv
  <2> QED
      BY <1>1, <1>2, <2>1, <2>2 DEF Service!Transfer
<1> QED
    BY <1>3, <1>4

(* The loop over the waiters: each gets its result, unless its call threw. *)
LEMMA AnswerService ==
  ASSUME TypeOK, Answer
  PROVE  Service!Finish("true") \/ Service!Finish("false")
<1>1. /\ UNCHANGED <<queue, pending, drain, thread, pc, req, device>>
      /\ wpc = "answer" /\ wpc' = "idle"
    BY DEF Answer
<1>2. /\ UNCHANGED <<Phase, Open, Line, Writing>>
      /\ Busy = "done" /\ Busy' = "none" /\ Served = Calling(hand.waiters) /\ Served' = {}
    BY <1>1 DEF Phase, Open, Line, Coming, Served, Calling, AsTurn, Busy, Writing
<1>3. \A c \in Clients : c \in Served <=> c \in hand.waiters /\ pc[c] # "idle"
    BY <1>1, <1>2 DEF Calling
<1>4. PICK outcome \in {"true", "false"} : Resolve(hand.waiters, outcome)
    BY DEF Answer
<1>5. answer' = [c \in Clients |-> IF c \in Served /\ answer[c] = "none" THEN outcome ELSE answer[c]]
    BY <1>3, <1>4 DEF Resolve
<1> QED
    BY <1>1, <1>2, <1>5 DEF Service!Finish

(* The worker leaves its loop: by the cancellation, or by an exception,     *)
(* when FailAllPending takes over the readers that wait.                    *)
LEMMA GoDownService ==
  ASSUME TypeOK, WInv, Exit \/ Crash
  PROVE  Service!GoDown
<1>1. CASE Exit
  <2>1. /\ UNCHANGED <<queue, pending, drain, wpc, hand, pc, answer, device>>
        /\ wpc = "idle" /\ thread = "alive" /\ thread' = "dead"
      BY <1>1 DEF Exit, callVars
  <2>2. UNCHANGED <<Open, Line>> /\ Served' = {} /\ Busy = "none" /\ Busy' = "none" /\ Writing' = Null
      BY <2>1 DEF Open, Line, Coming, Served, Calling, AsTurn, Busy, Writing
  <2>3. Phase = "up" /\ Phase' = "down"
      BY <2>1 DEF Phase
  <2> QED
      BY <2>1, <2>2, <2>3 DEF Service!GoDown
<1>2. CASE Crash
  <2>1. /\ UNCHANGED <<queue, thread, pc, answer, device>>
        /\ wpc \in {"writing", "answer"} /\ wpc' = "failing" /\ thread = "alive"
        /\ drain' = pending /\ pending' = [k \in Keys |-> NoItem]
      BY <1>2 DEF Crash, Thrown, callVars, WInv, LifeInv
  <2>2. /\ UNCHANGED Line /\ Served' = {} /\ Busy \in {"write", "done"}
        /\ Busy' = "none" /\ Writing' = Null
      BY <2>1 DEF Line, Coming, Served, AsTurn, Busy, Writing
  <2>3. Phase = "up" /\ Phase' = "down"
      BY <2>1 DEF Phase
  <2>4. \A k \in Keys : drain[k].waiters = {} /\ pending'[k].waiters = {}
      BY <2>1 DEF WInv, DrainInv, LifeInv, NoItem
  <2>5. UNCHANGED Open
      BY <2>1, <2>4 DEF Open, Calling
  <2> QED
      BY <2>1, <2>2, <2>3, <2>5 DEF Service!GoDown
<1> QED
    BY <1>1, <1>2

(* FailAllPending: the readers of one item are told "false". *)
LEMMA FailService ==
  ASSUME TypeOK, BeforeStart, WInv, NEW k \in Keys, Fail(k)
  PROVE  Service!Abandon(k, Calling(drain[k].waiters))
<1>0. drain \in [Keys -> Item]
    BY DEF TypeOK, JobType
<1>1. /\ UNCHANGED <<queue, pending, thread, wpc, hand, pc, req, device>>
      /\ drain' = [drain EXCEPT ![k] = NoItem] /\ Resolve(drain[k].waiters, "false")
    BY DEF Fail, workVars
<1>2. UNCHANGED <<Phase, Line, Busy, Writing>>
    BY <1>1, SameWork
<1>3. UNCHANGED Served
    BY <1>1 DEF Served, Calling
<1>4. Phase = "down"
    BY DEF Fail, Phase, WInv, LifeInv
<1>5. Calling(drain[k].waiters) \subseteq Open[k] /\ Calling(drain[k].waiters) \in SUBSET Clients
    BY <1>0 DEF Open, Calling, Item
<1>6. Open' = [Open EXCEPT ![k] = @ \ Calling(drain[k].waiters)]
  <2>1. drain'[k].waiters = {} /\ \A j \in Keys : j # k => drain'[j] = drain[j]
      BY <1>0, <1>1 DEF NoItem
  <2>2. \A j \in Keys : j # k => Open'[j] = Open[j]
      BY <1>1, <2>1 DEF Open, Calling
  <2>3. Open'[k] = Calling(pending[k].waiters)
      BY <1>1, <2>1 DEF Open, Calling
  <2>4. \A c \in Clients : c \in pending[k].waiters /\ c \in drain[k].waiters => pc[c] = "idle"
      BY DEF WInv, ReaderInv, Gone
  <2>5. pending[k].waiters \in SUBSET Clients /\ drain[k].waiters \in SUBSET Clients
      BY DEF TypeOK, JobType, Item
  <2>6. Open[k] \ Calling(drain[k].waiters) = Calling(pending[k].waiters)
      BY <2>4, <2>5 DEF Open, Calling
  <2> QED
      BY <2>2, <2>3, <2>6 DEF Open
<1>7. answer' = [c \in Clients |-> IF c \in Calling(drain[k].waiters) /\ answer[c] = "none"
                                   THEN "false" ELSE answer[c]]
    BY <1>0, <1>1 DEF Resolve, Calling, Item
<1> QED
    BY <1>1, <1>2, <1>3, <1>4, <1>5, <1>6, <1>7 DEF Service!Abandon

(* The end of a failed worker and the life cycle: only Start shows. *)
LEMMA LifeService ==
  ASSUME TypeOK, BeforeStart, WInv, CrashExit \/ Start \/ Dispose \/ Lifecycle
  PROVE  UNCHANGED Service!vars \/ Service!Launch
<1>1. CASE CrashExit
  <2>1. /\ UNCHANGED <<queue, pending, drain, hand, pc, answer, device>>
        /\ wpc = "failing" /\ wpc' = "idle" /\ thread = "alive" /\ thread' = "dead"
      BY <1>1 DEF CrashExit, callVars, WInv, LifeInv
  <2>2. UNCHANGED <<Phase, Open, Line, Busy, Writing, Served>>
      BY <2>1 DEF Phase, Open, Line, Coming, Served, Calling, AsTurn, Busy, Writing
  <2> QED
      BY <2>1, <2>2 DEF Service!vars
<1>2. CASE Start
  <2>1. /\ UNCHANGED <<queue, pending, drain, wpc, hand, pc, answer, device>>
        /\ wpc = "idle" /\ thread = "unborn" /\ thread' = "alive"
      BY <1>2 DEF Start, callVars, BeforeStart
  <2>2. UNCHANGED <<Open, Line, Busy, Writing, Served>> /\ Phase = "new" /\ Phase' = "up"
      BY <2>1 DEF Phase, Open, Line, Coming, Served, Calling, AsTurn, Busy, Writing
  <2> QED
      BY <2>1, <2>2 DEF Service!Launch
<1>3. CASE Join
  <2>1. /\ UNCHANGED <<queue, thread, wpc, hand, pc, answer, device>>
        /\ drain' = pending /\ pending' = [k \in Keys |-> NoItem]
      BY <1>3 DEF Join, workVars, callVars
  <2>2. UNCHANGED <<Phase, Line, Busy, Writing>>
      BY <2>1, SameWork
  <2>3. \A k \in Keys : drain[k].waiters = {} /\ pending'[k].waiters = {}
      BY <1>3, <2>1 DEF Join, WInv, DrainInv, LifeInv, NoItem
  <2>4. UNCHANGED <<Open, Served>>
      BY <2>1, <2>3 DEF Open, Calling, Served
  <2> QED
      BY <2>1, <2>2, <2>4 DEF Service!vars
<1>4. CASE Dispose \/ Cancel \/ CompleteAdding \/ StopReturns
  <2>1. UNCHANGED <<queue, pending, drain, thread, wpc, hand, pc, answer, device>>
      BY <1>4 DEF Dispose, Cancel, CompleteAdding, StopReturns, workVars, callVars
  <2> QED
      BY <2>1, SameWork, SameWaiters DEF Service!vars
<1> QED
    BY <1>1, <1>2, <1>3, <1>4 DEF Lifecycle

(* Every step of the worker and its clients is a step of the service. *)
LEMMA NextService ==
  ASSUME IInv, WInv, [Next]_vars
  PROVE  [Service!Next]_Service!vars
<1>0. TypeOK /\ BeforeStart
    BY DEF IInv
<1>1. ASSUME NEW c \in Clients, NEW m \in Methods, NEW k \in Keys, NEW l \in Lens, NEW v \in Values,
             Call(c, m, k, l, v)
      PROVE  UNCHANGED Service!vars
    BY <1>0, <1>1, CallService
<1>2. ASSUME NEW c \in Clients, Client(c) PROVE [Service!Next]_Service!vars
  <2>1. CASE Register(c)
    <3>1. req[c].key \in Keys
        BY <1>0, <2>1 DEF Register, TypeOK, CallType, Request
    <3> QED
        BY <1>0, <2>1, <3>1, RegisterService DEF Service!Next
  <2>2. CASE Mark(c)
      BY <1>0, <2>2, MarkService
  <2>3. CASE Add(c)
      BY <1>0, <2>3, AddService DEF Service!Next
  <2>4. CASE AddThrows(c) \/ Awake(c)
      BY <1>0, <2>4, LeaveService DEF Service!Next
  <2> QED
      BY <1>2, <2>1, <2>2, <2>3, <2>4 DEF Client
<1>3. CASE Take
    BY <1>0, <1>3, TakeService DEF Service!Next
<1>4. CASE Claim
    BY <1>4, ClaimService DEF Service!Next
<1>5. CASE ExecuteReadMap \/ ExecuteWriteMap
    BY <1>0, <1>5, TransferService DEF Service!Next
<1>6. CASE Answer
    BY <1>0, <1>6, AnswerService DEF Service!Next
<1>7. CASE Exit \/ Crash
    BY <1>0, <1>7, GoDownService DEF Service!Next
<1>8. ASSUME NEW k \in Keys, Fail(k) PROVE [Service!Next]_Service!vars
  <2>1. Calling(drain[k].waiters) \in SUBSET Clients
      BY <1>0 DEF Calling, TypeOK, JobType, Item
  <2> QED
      BY <1>0, <1>8, <2>1, FailService DEF Service!Next
<1>9. CASE CrashExit \/ Start \/ Dispose \/ Lifecycle
    BY <1>0, <1>9, LifeService DEF Service!Next
<1>10. CASE UNCHANGED vars
  <2>1. UNCHANGED <<queue, pending, drain, thread, wpc, hand, pc, answer, device>>
      BY <1>10 DEF vars
  <2> QED
      BY <1>0, <2>1, SameWork, SameWaiters DEF Service!vars
<1> QED
    BY <1>1, <1>2, <1>3, <1>4, <1>5, <1>6, <1>7, <1>8, <1>9, <1>10 DEF Next, Worker

(***************************************************************************)
(* The SDO worker implements SdoService, for any number of threads, objects *)
(* and payloads, any queue bound, with and without the fatal exception: no *)
(* reader is given a value older than its request, transfers go out one by *)
(* one in the order of their turns, and a waiter is answered once.         *)
(***************************************************************************)
THEOREM ServiceCorrect == Spec => ServiceSpec
<1>1. IInv /\ [Next]_vars => IInv'
    BY NextLife, NextJob, NextCall, NextStore, NextBeforeStart, NextOneJob DEF IInv, TypeOK
<1>2. IInv /\ WInv /\ [Next]_vars => WInv'
    BY NextWInv
<1>3. IInv /\ WInv /\ [Next]_vars => [Service!Next]_Service!vars
    BY NextService
<1> QED
    BY <1>1, <1>2, <1>3, InitIInv, InitWInv, InitService, PTL DEF Spec, ServiceSpec, Service!Spec

=============================================================================
