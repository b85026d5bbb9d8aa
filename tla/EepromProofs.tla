---------------------------- MODULE EepromProofs ----------------------------
(***************************************************************************)
(* Whose EEPROM an answer comes from and whose is written, who has the     *)
(* control of an EEPROM after a function that took it, whatever is lost,   *)
(* refused or gone; and, as long as the retries cover that, that what is   *)
(* answered is what is in the EEPROM; for any number of slaves and         *)
(* requests.                                                               *)
(*                                                                         *)
(* The data of the present request is from the slave asked, and so is all  *)
(* that the cache holds; a slave that is writing was asked to.  A request  *)
(* by position meets another slave only once some slave is gone, and a     *)
(* slave that is gone does not come back.                                  *)
(***************************************************************************)
EXTENDS Eeprom, FiniteSetTheorems, TLAPS

-----------------------------------------------------------------------------
(* Types. *)
Interface ==
  [here : BOOLEAN, pdi : BOOLEAN, busy : BOOLEAN, nack : BOOLEAN, err : BOOLEAN,
   reg : Nat, pend : Nat, kind : {"read", "write"}, data : {1, 2}]
Data == [of : Slaves \cup {0}, from : Int, width : Nat]
Values == (Slaves \cup {0}) \X Int
Results == [req : Requests, val : Values, mine : BOOLEAN]

TypeInv ==
  /\ rom \in [Slaves -> [0 .. Words - 1 -> 0 .. 2]] /\ dev \in [Slaves -> Interface]
  /\ esislave \in Slaves \cup {0} /\ \A b \in DOMAIN esimap : esimap[b] \in Values
  /\ todo \in Seq(Requests) /\ edat \in Data /\ answers \in Seq(Results)

(* Where the request is. *)
PcInv ==
  /\ pc # "call" => todo # <<>>
  /\ pc \notin {"call", "giveback"} => Req.op \notin {"enter", "leave"}
  /\ pc = "giveback" => Req.op \in {"leave", "dump"}
  /\ pc = "fetch" => ~Writes
  /\ pc # "call" /\ Req.op = "byte" => esislave = Me

(* The slave asked is the one reached. *)
OfOne(q, of) == (q.op = "readAP" => Everybody) => of \in {0, q.s}
DataInv == pc # "call" => OfOne(Req, edat.of)
CacheInv == \A b \in DOMAIN esimap : esimap[b][1] \in {0, esislave}
AnswersInv == \A r \in Answers : OfOne(r.req, r.val[1])

(* A slave that is writing, or has written, was asked to. *)
Owed(s) ==
  \E q \in Asked : \/ q.op = "write" /\ q.s = s
                   \/ q.op = "writeAP" /\ (Everybody => q.s = s)
Writing(s) == dev[s].busy /\ dev[s].kind = "write"
Touched(s) == \E w \in 0 .. Words - 1 : rom[s][w] # 0
RomInv == \A s \in Slaves : Writing(s) \/ Touched(s) => Owed(s)

EepromInv == TypeInv /\ PcInv /\ DataInv /\ CacheInv /\ AnswersInv /\ RomInv

-----------------------------------------------------------------------------
(***************************************************************************)
(* The request and whom it reaches.                                        *)
(***************************************************************************)
LEMMA SlavesAre ==
  /\ \A s \in Slaves : s \in Nat /\ s # 0 /\ 1 .. s \subseteq Slaves
  /\ \A job \in Jobs : job \in Seq(Requests)
BY EepromAssumption DEF EepromAssumption

LEMMA RequestIs ==
  ASSUME TypeInv, todo # <<>>
  PROVE  /\ Req \in Requests /\ Me \in Slaves /\ Req.a \in Nat /\ Tail(todo) \in Seq(Requests)
         /\ Req \in Asked
<1>1. Req \in Requests /\ Tail(todo) \in Seq(Requests)
    BY DEF TypeInv, Req
<1>2. Req \in Asked
    BY DEF Asked, Req
<1> QED
    BY <1>1, <1>2 DEF Requests, Me

(* A datagram by the configured address reaches that slave; by position it *)
(* does, as long as nobody is gone.                                        *)
LEMMA ReachedIs ==
  ASSUME TypeInv, todo # <<>>, NEW s \in Reached, ByPosition => Everybody
  PROVE  s \in Slaves /\ s = Me
<1>1. s \in Slaves
    BY DEF Reached
<1>2. CASE ~ByPosition
    BY <1>2 DEF Reached
<1>3. CASE ByPosition
  <2>1. Cardinality({r \in 1 .. s \cap Slaves : dev[r].here}) = Me
      BY <1>3 DEF Reached
  <2>2. \A r \in Slaves : dev[r].here
      BY <1>3 DEF Everybody
  <2>3. s \in Nat /\ 1 .. s \subseteq Slaves
      BY <1>1, SlavesAre
  <2>4. {r \in 1 .. s \cap Slaves : dev[r].here} = 1 .. s
      BY <2>2, <2>3
  <2>5. Cardinality(1 .. s) = s
      BY <2>3, FS_Interval
  <2> QED
      BY <1>1, <2>1, <2>4, <2>5
<1> QED
    BY <1>1, <1>2, <1>3

(* Whoever is reached by a write was asked to write. *)
LEMMA WriterIsAsked ==
  ASSUME TypeInv, todo # <<>>, Writes, NEW s \in Reached
  PROVE  Owed(s)
<1>1. Req \in Asked
    BY RequestIs
<1>2. Req.op = "write" => Req.s = s
    BY ReachedIs DEF ByPosition, Me
<1>3. Req.op = "writeAP" => (Everybody => Req.s = s)
    BY ReachedIs DEF ByPosition, Me
<1>4. Req.op \in {"write", "writeAP"}
    BY DEF Writes
<1> HIDE DEF Req
<1> QED
    BY <1>1, <1>2, <1>3, <1>4 DEF Owed

(* What a datagram does to the slaves. *)
Kept ==
  /\ dev' \in [Slaves -> Interface] /\ \A s \in Slaves : dev'[s].here = dev[s].here
  /\ \A s \in Slaves : Writing(s)' => Writing(s) \/ Owed(s)

LEMMA DatagramKeeps ==
  ASSUME TypeInv, todo # <<>>, NEW written, NEW wkc, Datagram(written, wkc),
         \A s \in Slaves :
           /\ written[s] \in Interface /\ written[s].here = dev[s].here
           /\ written[s].busy /\ written[s].kind = "write" => Writing(s) \/ Writes
  PROVE  Kept /\ (wkc = 1 => Reached # {})
<1> DEFINE done == Done(written)
<1>1. dev \in [Slaves -> Interface]
    BY DEF TypeInv
<1>2. \A s \in Slaves : done[s] = IF s \in Reached THEN written[s] ELSE dev[s]
    BY DEF Done
<1>3. done \in [Slaves -> Interface]
  <2>1. \A s \in Slaves : (IF s \in Reached THEN written[s] ELSE dev[s]) \in Interface
      BY <1>1
  <2> QED
      BY <2>1 DEF Done
<1>4. dev' = dev \/ dev' = done
    BY DEF Datagram
<1>5. wkc = 1 => Reached # {}
    BY DEF Datagram
<1> HIDE DEF done
<1>6. dev' \in [Slaves -> Interface]
    BY <1>1, <1>3, <1>4
<1>7. \A s \in Slaves : dev'[s] = dev[s] \/ (s \in Reached /\ dev'[s] = written[s])
    BY <1>2, <1>4
<1>8. \A s \in Slaves : dev'[s].here = dev[s].here
    BY <1>7
<1>9. ASSUME NEW s \in Slaves, Writing(s)' PROVE Writing(s) \/ Owed(s)
  <2>1. CASE dev'[s] = dev[s]
      BY <1>9, <2>1 DEF Writing
  <2>2. CASE s \in Reached /\ dev'[s] = written[s]
    <3>1. Writing(s) \/ Writes
        BY <1>9, <2>2 DEF Writing
    <3> QED
        BY <2>2, <3>1, WriterIsAsked
  <2> QED
      BY <1>7, <2>1, <2>2
<1> QED
    BY <1>5, <1>6, <1>8, <1>9 DEF Kept

LEMMA ReadKeeps ==
  ASSUME TypeInv, todo # <<>>, NEW wkc, Datagram(dev, wkc)
  PROVE  Kept /\ (wkc = 1 => Heard \in Reached)
<1>1. \A s \in Slaves :
        /\ dev[s] \in Interface /\ dev[s].here = dev[s].here
        /\ dev[s].busy /\ dev[s].kind = "write" => Writing(s) \/ Writes
    BY DEF TypeInv, Writing
<1>2. Kept /\ (wkc = 1 => Reached # {})
    BY <1>1, DatagramKeeps
<1> QED
    BY <1>2 DEF Heard

-----------------------------------------------------------------------------
(***************************************************************************)
(* What steps have in common.                                              *)
(***************************************************************************)
LEMMA RomStays ==
  ASSUME RomInv, rom' = rom, \A s \in Slaves : dev'[s].here => dev[s].here,
         \A s \in Slaves : Writing(s)' => Writing(s) \/ Owed(s),
         \A q \in Asked : q.op \in {"write", "writeAP"} => q \in Asked'
  PROVE  RomInv'
<1> SUFFICES ASSUME NEW s \in Slaves, (Writing(s) \/ Touched(s))' PROVE Owed(s)'
    BY DEF RomInv
<1>1. Owed(s)
    BY DEF RomInv, Touched
<1>2. Everybody' => Everybody
    BY DEF Everybody
<1>3. PICK q \in Asked : \/ (q.op = "write" /\ q.s = s)
                        \/ (q.op = "writeAP" /\ (Everybody => q.s = s))
    BY <1>1 DEF Owed
<1>4. q \in Asked'
    BY <1>3
<1> QED
    BY <1>2, <1>3, <1>4 DEF Owed

LEMMA AnswersStay ==
  ASSUME AnswersInv, answers' = answers, \A s \in Slaves : dev'[s].here => dev[s].here
  PROVE  AnswersInv' /\ Answers' = Answers
<1>1. Everybody' => Everybody
    BY DEF Everybody
<1>2. Answers' = Answers
    BY DEF Answers
<1> QED
    BY <1>1, <1>2 DEF AnswersInv, OfOne

(* A step in the middle of a transfer. *)
LEMMA WithinStays ==
  ASSUME EepromInv, pc \notin {"call", "giveback"}, pc' # "giveback", UNCHANGED <<rom, esislave, esimap, todo, answers>>,
         Kept, edat' \in Data, OfOne(Req, edat'.of), pc' = "fetch" => pc = "fetch" \/ ~Writes
  PROVE  EepromInv'
<1>1. TypeInv /\ PcInv /\ DataInv /\ CacheInv /\ AnswersInv /\ RomInv
    BY DEF EepromInv
<1>2. TypeInv'
    BY <1>1 DEF TypeInv, Kept
<1>3. Req' = Req /\ Me' = Me /\ (Writes' <=> Writes)
    BY DEF Req, Me, Writes
<1>4. PcInv'
    BY <1>1, <1>3 DEF PcInv
<1>5. \A s \in Slaves : dev'[s].here => dev[s].here
    BY DEF Kept
<1>6. Everybody' => Everybody
    BY <1>5 DEF Everybody
<1>7. DataInv'
    BY <1>3, <1>6 DEF DataInv, OfOne
<1>8. CacheInv'
    BY <1>1 DEF CacheInv
<1>9. AnswersInv' /\ Answers' = Answers
    BY <1>1, <1>5, AnswersStay
<1>10. Asked' = Asked
    BY <1>9 DEF Asked
<1>11. RomInv'
    BY <1>1, <1>5, <1>10, RomStays DEF Kept
<1> QED
    BY <1>2, <1>4, <1>7, <1>8, <1>9, <1>11 DEF EepromInv

(***************************************************************************)
(* The steps of a transfer.                                                *)
(***************************************************************************)
LEMMA WrittenAre ==
  ASSUME TypeInv, todo # <<>>, NEW s \in Slaves
  PROVE  /\ ToMaster[s] \in Interface /\ ToMaster[s].here = dev[s].here
         /\ ToMaster[s].busy /\ ToMaster[s].kind = "write" => Writing(s) \/ Writes
         /\ ToPdi[s] \in Interface /\ ToPdi[s].here = dev[s].here
         /\ ToPdi[s].busy /\ ToPdi[s].kind = "write" => Writing(s) \/ Writes
         /\ NoError[s] \in Interface /\ NoError[s].here = dev[s].here
         /\ NoError[s].busy /\ NoError[s].kind = "write" => Writing(s) \/ Writes
         /\ Given[s] \in Interface /\ Given[s].here = dev[s].here
         /\ Given[s].busy /\ Given[s].kind = "write" => Writing(s) \/ Writes
         /\ Ordered[s] \in Interface /\ Ordered[s].here = dev[s].here
         /\ Ordered[s].busy /\ Ordered[s].kind = "write" => Writing(s) \/ Writes
<1>1. dev[s] \in Interface
    BY DEF TypeInv
<1>2. /\ ToMaster[s] \in Interface /\ ToMaster[s].here = dev[s].here
      /\ ToMaster[s].busy /\ ToMaster[s].kind = "write" => Writing(s) \/ Writes
    BY <1>1 DEF ToMaster, Interface, Writing
<1>3. /\ ToPdi[s] \in Interface /\ ToPdi[s].here = dev[s].here
      /\ ToPdi[s].busy /\ ToPdi[s].kind = "write" => Writing(s) \/ Writes
    BY <1>1 DEF ToPdi, Interface, Writing
<1>4. /\ NoError[s] \in Interface /\ NoError[s].here = dev[s].here
      /\ NoError[s].busy /\ NoError[s].kind = "write" => Writing(s) \/ Writes
    BY <1>1 DEF NoError, Interface, Writing
<1>5. /\ Given[s] \in Interface /\ Given[s].here = dev[s].here
      /\ Given[s].busy /\ Given[s].kind = "write" => Writing(s) \/ Writes
    BY <1>1 DEF Given, Interface, Writing
<1>6. /\ Ordered[s] \in Interface /\ Ordered[s].here = dev[s].here
      /\ Ordered[s].busy /\ Ordered[s].kind = "write" => Writing(s) \/ Writes
  <2> DEFINE word == Word(Req.a)
             kind == IF Writes THEN "write" ELSE "read"
  <2>1. word \in Nat
      BY RequestIs DEF Word
  <2>2. kind \in {"write", "read"} /\ (kind = "write" => Writes)
      OBVIOUS
  <2>3. Ordered[s] = IF dev[s].busy \/ dev[s].pdi THEN dev[s]
                     ELSE [dev[s] EXCEPT !.busy = TRUE, !.pend = word, !.kind = kind]
      BY DEF Ordered
  <2> HIDE DEF word, kind
  <2> QED
      BY <1>1, <2>1, <2>2, <2>3 DEF Interface, Writing
<1> QED
    BY <1>2, <1>3, <1>4, <1>5, <1>6

LEMMA ForceStep ==
  ASSUME EepromInv, TakeByForce \/ Take
  PROVE  EepromInv'
<1>0. TypeInv /\ PcInv /\ DataInv
    BY DEF EepromInv
<1>1. pc \in {"force", "take"} /\ UNCHANGED <<rom, esislave, esimap, todo, answers, edat>>
    BY DEF TakeByForce, Take, callVars
<1>2. todo # <<>>
    BY <1>0, <1>1 DEF PcInv
<1>3. PICK w \in Counters : Datagram(ToMaster, w) /\ pc' \in {"force", "take", "wait"}
    BY <1>1 DEF TakeByForce, Take, Retry
<1>4. Kept
    BY <1>0, <1>2, <1>3, WrittenAre, DatagramKeeps
<1>5. edat' \in Data /\ OfOne(Req, edat'.of)
    BY <1>0, <1>1 DEF TypeInv, DataInv
<1> QED
    BY <1>1, <1>3, <1>4, <1>5, WithinStays

LEMMA PollStep ==
  ASSUME EepromInv, waitnotbusyFP \/ waitnotbusyAP
  PROVE  EepromInv'
<1>0. TypeInv /\ PcInv /\ DataInv
    BY DEF EepromInv
<1>1. /\ pc \in {"wait", "wait2"} /\ UNCHANGED <<rom, esislave, esimap, todo, answers, edat>>
      /\ \E w \in Counters : Datagram(dev, w)
    BY DEF waitnotbusyFP, waitnotbusyAP, Polled, callVars
<1>2. pc' \in {"wait", "wait2", "return", "clear", "data", "command", "refused", "written"} \/ (pc' = "fetch" /\ ~Writes)
  <2>1. AfterWait(estat') \in {"clear", "data", "command"}
      BY DEF AfterWait
  <2>2. AfterWait2(estat') \in {"refused", "written"} \/ (AfterWait2(estat') = "fetch" /\ ~Writes)
      BY DEF AfterWait2
  <2>3. Repeat(nackcnt) \in {"return", "data", "command"}
      BY DEF Repeat
  <2>4. pc' \in {pc, AfterWait(estat'), AfterWait2(estat'), "return", Repeat(nackcnt)}
      BY DEF waitnotbusyFP, waitnotbusyAP, Polled
  <2> QED
      BY <1>1, <2>1, <2>2, <2>3, <2>4
<1>3. todo # <<>>
    BY <1>0, <1>1 DEF PcInv
<1>4. Kept
    BY <1>0, <1>1, <1>3, ReadKeeps
<1>5. edat' \in Data /\ OfOne(Req, edat'.of)
    BY <1>0, <1>1 DEF TypeInv, DataInv
<1> QED
    BY <1>1, <1>2, <1>4, <1>5, WithinStays

LEMMA TransferStep ==
  ASSUME EepromInv, pc # "call", Transfer
  PROVE  EepromInv'
<1>0. TypeInv /\ PcInv /\ DataInv
    BY DEF EepromInv
<1>1. todo # <<>>
    BY <1>0 DEF PcInv
<1>2. edat \in Data /\ OfOne(Req, edat.of)
    BY <1>0 DEF TypeInv, DataInv
<1>3. CASE Clear
  <2>1. /\ pc = "clear" /\ pc' \in {"data", "command"}
        /\ UNCHANGED <<rom, esislave, esimap, todo, answers, edat>>
        /\ \E w \in Counters : Datagram(NoError, w)
      BY <1>3 DEF Clear, callVars
  <2>2. Kept
      BY <1>0, <1>1, <2>1, WrittenAre, DatagramKeeps
  <2> QED
      BY <1>2, <2>1, <2>2, WithinStays
<1>4. CASE WriteData
  <2>1. /\ pc = "data" /\ pc' \in {"data", "command"}
        /\ UNCHANGED <<rom, esislave, esimap, todo, answers, edat>>
        /\ \E w \in Counters : Datagram(Given, w)
      BY <1>4 DEF WriteData, Retry, callVars
  <2>2. Kept
      BY <1>0, <1>1, <2>1, WrittenAre, DatagramKeeps
  <2> QED
      BY <1>2, <2>1, <2>2, WithinStays
<1>5. CASE Command
  <2>1. PICK w \in Counters : /\ Datagram(Ordered, w) /\ pc' \in {"command", Issued(w)}
      BY <1>5 DEF Command, Retry
  <2>2. Issued(w) \in {"return", "wait2", "data", "command"}
      BY DEF Issued, Repeat
  <2>3. pc = "command" /\ UNCHANGED <<rom, esislave, esimap, todo, answers, edat>>
      BY <1>5 DEF Command, callVars
  <2>4. Kept
      BY <1>0, <1>1, <2>1, WrittenAre, DatagramKeeps
  <2> QED
      BY <1>2, <2>1, <2>2, <2>3, <2>4, WithinStays
<1>6. CASE Refused
  <2>1. pc = "refused" /\ UNCHANGED <<rom, dev, esislave, esimap, todo, answers, edat>>
      BY <1>6 DEF Refused, slaveVars, callVars
  <2>2. pc' \in {"return", "data", "command"}
      BY <1>6 DEF Refused, Repeat
  <2>3. Kept
      BY <1>0, <2>1 DEF Kept, TypeInv, Writing
  <2> QED
      BY <1>2, <2>1, <2>2, <2>3, WithinStays
<1>7. CASE Fetch
  <2>1. pc = "fetch" /\ UNCHANGED <<rom, esislave, esimap, todo, answers>> /\ pc' \in {"fetch", "return"}
      BY <1>7 DEF Fetch, callVars
  <2>2. PICK w \in Counters :
          /\ Datagram(dev, w)
          /\ edat' = IF w = 1 THEN [of |-> Heard, from |-> dev[Heard].reg, width |-> Answered] ELSE edat
      BY <1>7 DEF Fetch
  <2>3. Kept /\ (w = 1 => Heard \in Reached)
      BY <1>0, <1>1, <2>2, ReadKeeps
  <2>4. edat' \in Data /\ OfOne(Req, edat'.of)
    <3>1. CASE w = 1
      <4>1. Heard \in Slaves /\ Heard \in Reached
          BY <2>3, <3>1 DEF Reached
      <4>2. dev[Heard] \in Interface
          BY <1>0, <4>1 DEF TypeInv
      <4>3. dev[Heard].reg \in Int
          BY <4>2 DEF Interface
      <4>4. Answered \in Nat
          BY DEF Answered
      <4>5. edat' = [of |-> Heard, from |-> dev[Heard].reg, width |-> Answered]
          BY <2>2, <3>1
      <4>6. edat' \in Data /\ edat'.of = Heard
          BY <4>1, <4>3, <4>4, <4>5 DEF Data
      <4>7. ByPosition => Req.op = "readAP"
          BY <1>0, <2>1 DEF PcInv, ByPosition, Writes
      <4>8. (ByPosition => Everybody) => Heard = Me
          BY <1>0, <1>1, <4>1, ReachedIs
      <4> QED
          BY <4>6, <4>7, <4>8 DEF OfOne, Me
    <3>2. CASE w # 1
        BY <1>2, <2>2, <3>2
    <3> QED
        BY <3>1, <3>2
  <2> QED
      BY <2>1, <2>3, <2>4, WithinStays
<1>8. CASE Written
  <2>1. /\ pc = "written" /\ pc' = "return" /\ UNCHANGED <<rom, dev, esislave, esimap, todo, answers>>
        /\ edat' = [of |-> Me, from |-> Word(Req.a), width |-> 0]
      BY <1>8 DEF Written, slaveVars, callVars
  <2>2. Me \in Slaves /\ Word(Req.a) \in Int
      BY <1>0, <1>1, RequestIs DEF Word
  <2>3. edat' \in Data /\ edat'.of = Me
      BY <2>1, <2>2 DEF Data
  <2>4. Kept
      BY <1>0, <2>1 DEF Kept, TypeInv, Writing
  <2> QED
      BY <2>1, <2>3, <2>4, WithinStays DEF OfOne, Me
<1> QED
    BY <1>3, <1>4, <1>5, <1>6, <1>7, <1>8 DEF Transfer

(***************************************************************************)
(* The ends of a request: what is answered, and what was asked stays so.   *)
(***************************************************************************)
LEMMA AnswerAdded ==
  ASSUME TypeInv, AnswersInv, NEW r \in Results, answers' = <<r>> \o answers,
         OfOne(r.req, r.val[1]), \A s \in Slaves : dev'[s].here => dev[s].here
  PROVE  answers' \in Seq(Results) /\ Answers' = Answers \cup {r} /\ AnswersInv'
<1>1. answers \in Seq(Results) /\ <<r>> \in Seq(Results)
    BY DEF TypeInv
<1>2. /\ answers' \in Seq(Results) /\ Len(answers') = 1 + Len(answers) /\ DOMAIN answers' = 1 .. Len(answers')
      /\ answers'[1] = r /\ \A k \in 1 .. Len(answers) : answers'[k + 1] = answers[k]
    BY <1>1
<1>3. Answers' = Answers \cup {r}
  <2>1. \A x \in Answers' : x = r \/ x \in Answers
    <3> TAKE x \in Answers'
    <3>1. PICK k \in 1 .. Len(answers') : x = answers'[k]
        BY <1>2 DEF Answers, ToSet
    <3>2. CASE k = 1
        BY <1>2, <3>1, <3>2
    <3>3. CASE k # 1
      <4>1. k - 1 \in 1 .. Len(answers) /\ k = (k - 1) + 1
          BY <1>1, <1>2, <3>1, <3>3
      <4>2. x = answers[k - 1]
          BY <1>2, <3>1, <4>1
      <4> QED
          BY <1>1, <4>1, <4>2 DEF Answers, ToSet
    <3> QED
        BY <3>2, <3>3
  <2>2. r \in Answers'
      BY <1>1, <1>2 DEF Answers, ToSet
  <2>3. \A x \in Answers : x \in Answers'
    <3> TAKE x \in Answers
    <3>1. PICK k \in 1 .. Len(answers) : x = answers[k]
        BY <1>1 DEF Answers, ToSet
    <3>2. x = answers'[k + 1] /\ k + 1 \in 1 .. Len(answers')
        BY <1>1, <1>2, <3>1
    <3> QED
        BY <1>2, <3>2 DEF Answers, ToSet
  <2> QED
      BY <2>1, <2>2, <2>3
<1>4. Everybody' => Everybody
    BY DEF Everybody
<1>5. AnswersInv'
    BY <1>3, <1>4 DEF AnswersInv, OfOne
<1> QED
    BY <1>2, <1>3, <1>5

LEMMA AskedStays ==
  ASSUME todo # <<>>, \A r \in Answers : r \in Answers',
         Req.op \in {"write", "writeAP"} => \/ (Req' = Req /\ todo' # <<>>)
                                          \/ \E r \in Answers' : r.req = Req
  PROVE  \A q \in Asked : q.op \in {"write", "writeAP"} => q \in Asked'
<1> SUFFICES ASSUME NEW q \in Asked, q.op \in {"write", "writeAP"} PROVE q \in Asked'
    OBVIOUS
<1>1. (\E r \in Answers : q = r.req) \/ q = Req
    BY DEF Asked, Req
<1>2. CASE \E r \in Answers' : q = r.req
    BY <1>2 DEF Asked
<1>3. CASE q = Req' /\ todo' # <<>>
    BY <1>3 DEF Asked, Req
<1> QED
    BY <1>1, <1>2, <1>3

(* Nothing is written by a step of the master in between. *)
LEMMA NothingWritten ==
  ASSUME TypeInv, AnswersInv, RomInv, UNCHANGED <<rom, dev>>, \A q \in Asked : q.op \in {"write", "writeAP"} => q \in Asked'
  PROVE  RomInv'
<1>1. \A s \in Slaves : (dev'[s].here => dev[s].here) /\ (Writing(s)' => Writing(s))
    BY DEF Writing
<1> QED
    BY <1>1, RomStays

LEMMA GotIs ==
  ASSUME TypeInv, PcInv, DataInv, pc # "call"
  PROVE  /\ \A k \in Int : Value(k) \in Values /\ OfOne(Req, Value(k)[1])
         /\ \A b \in DOMAIN Cached(Req.a) : Cached(Req.a)[b] \in Values /\ OfOne(Req, Cached(Req.a)[b][1])
         /\ pc = "return" => Got \in Values /\ OfOne(Req, Got[1])
<1>0. todo # <<>> /\ OfOne(Req, edat.of) /\ edat \in Data
    BY DEF TypeInv, PcInv, DataInv
<1>1. Req \in Requests /\ Req.a \in Nat /\ edat.of \in Slaves \cup {0} /\ edat.from \in Int /\ edat.width \in Nat
    BY <1>0, RequestIs DEF Data
<1>2. ASSUME NEW k \in Int PROVE Value(k) \in Values /\ OfOne(Req, Value(k)[1])
  <2>1. CASE k < edat.width
    <3>1. Value(k) = <<edat.of, edat.from + k>> /\ edat.from + k \in Int
        BY <1>1, <2>1 DEF Value
    <3>2. Value(k) \in Values /\ Value(k)[1] = edat.of
        BY <1>1, <3>1 DEF Values
    <3> QED
        BY <1>0, <3>2
  <2>2. CASE ~(k < edat.width)
    <3>1. Value(k) = <<0, -1>>
        BY <2>2 DEF Value
    <3>2. Value(k) \in Values /\ Value(k)[1] = 0
        BY <3>1 DEF Values
    <3> QED
        BY <3>2 DEF OfOne
  <2> QED
      BY <2>1, <2>2
<1>3. \A b \in Int : Word(b) - Word(Req.a) \in Int
    BY <1>1 DEF Word
<1>4. Req.a \in DOMAIN Cached(Req.a) /\ \A b \in DOMAIN Cached(Req.a) : b \in Int /\ Cached(Req.a)[b] = Value(Word(b) - Word(Req.a))
  <2> DEFINE w == Word(Req.a)
             e == Width(Me)
  <2>1. Cached(Req.a) = [b \in 2 * w .. 2 * (w + e) - 1 |-> Value(Word(b) - w)]
      BY DEF Cached
  <2>2. w \in Nat /\ e \in Nat /\ e >= 2 /\ 2 * w <= Req.a /\ Req.a <= 2 * w + 1
      BY <1>1 DEF Word, Width
  <2> HIDE DEF w, e
  <2> QED
      BY <1>1, <2>1, <2>2 DEF w
<1>5. ASSUME NEW b \in DOMAIN Cached(Req.a)
      PROVE  Cached(Req.a)[b] \in Values /\ OfOne(Req, Cached(Req.a)[b][1])
    BY <1>2, <1>3, <1>4
<1>6. ASSUME pc = "return" PROVE Got \in Values /\ OfOne(Req, Got[1])
  <2>1. Req.op \in {"byte", "first", "second", "write", "dump", "readAP", "writeAP"}
      BY <1>1, <1>6 DEF PcInv, Requests
  <2>2. CASE Req.op = "byte"
    <3>0. Req.op \notin {"second", "readAP", "dump"} /\ ~Writes /\ Req.op # "first"
        BY <2>2 DEF Writes
    <3>1. Got = Cached(Req.a)[Req.a]
        BY <2>2, <3>0, Zenon DEF Got
    <3> QED
        BY <1>4, <1>5, <3>1
  <2>3. CASE Req.op \in {"second", "readAP", "dump"}
    <3>0. Req.op # "byte" /\ ~Writes /\ Req.op # "first"
        BY <2>3 DEF Writes
    <3>1. Got = Value(0)
        BY <2>3, <3>0, Zenon DEF Got
    <3> QED
        BY <1>2, <3>1
  <2>4. CASE Writes
    <3>0. Req.op \notin {"second", "readAP", "dump"} /\ Req.op # "byte" /\ Req.op # "first"
        BY <2>4 DEF Writes
    <3>1. Got = <<edat.of, edat.from>>
        BY <2>4, <3>0, Zenon DEF Got
    <3>2. Got \in Values /\ Got[1] = edat.of
        BY <1>1, <3>1 DEF Values
    <3> QED
        BY <1>0, <3>2
  <2>5. CASE Req.op = "first"
    <3>0. Req.op \notin {"second", "readAP", "dump"} /\ ~Writes /\ Req.op # "byte"
        BY <2>5 DEF Writes
    <3>1. Got = <<0, -1>>
        BY <2>5, <3>0, Zenon DEF Got
    <3>2. Got \in Values /\ Got[1] = 0
        BY <3>1 DEF Values
    <3> QED
        BY <3>2 DEF OfOne
  <2> QED
      BY <2>1, <2>2, <2>3, <2>4, <2>5 DEF Writes
<1> QED
    BY <1>2, <1>5, <1>6

LEMMA ReturnStep ==
  ASSUME EepromInv, Return
  PROVE  EepromInv'
<1>0. TypeInv /\ PcInv /\ DataInv /\ CacheInv /\ AnswersInv /\ RomInv
    BY DEF EepromInv
<1>1. /\ pc = "return" /\ pc' = "call" /\ todo' = Tail(todo)
      /\ esimap' = IF Req.op = "byte" THEN Overlay(Cached(Req.a), esimap) ELSE esimap
      /\ answers' = <<[req |-> Req, val |-> Got, mine |-> ~pdi[Me]]>> \o answers
      /\ UNCHANGED <<rom, dev, esislave, edat>>
    BY DEF Return, slaveVars
<1>2. todo # <<>> /\ Req \in Requests /\ Me \in Slaves /\ Tail(todo) \in Seq(Requests)
    BY <1>0, <1>1, RequestIs DEF PcInv
<1>3. Got \in Values /\ OfOne(Req, Got[1])
    BY <1>0, <1>1, GotIs
<1>4. PICK r : r = [req |-> Req, val |-> Got, mine |-> ~pdi[Me]]
    OBVIOUS
<1>5. r \in Results /\ r.req = Req /\ OfOne(r.req, r.val[1])
    BY <1>2, <1>3, <1>4 DEF Results
<1>6. answers' \in Seq(Results) /\ Answers' = Answers \cup {r} /\ AnswersInv'
    BY <1>0, <1>1, <1>4, <1>5, AnswerAdded
<1>7. \A b \in DOMAIN esimap' : esimap'[b] \in Values /\ esimap'[b][1] \in {0, esislave}
  <2>1. CASE Req.op = "byte"
    <3>1. esislave = Me
        BY <1>0, <1>1, <2>1 DEF PcInv
    <3> DEFINE c == Cached(Req.a)
    <3>2. \A b \in DOMAIN c : c[b] \in Values /\ c[b][1] \in {0, Me}
        BY <1>0, <1>1, <2>1, GotIs DEF OfOne, Me
    <3>3. \A b \in DOMAIN esimap : esimap[b] \in Values /\ esimap[b][1] \in {0, Me}
        BY <1>0, <3>1 DEF TypeInv, CacheInv
    <3>4. esimap' = [b \in DOMAIN c \cup DOMAIN esimap |-> IF b \in DOMAIN c THEN c[b] ELSE esimap[b]]
        BY <1>1, <2>1 DEF Overlay
    <3> HIDE DEF c
    <3> QED
        BY <3>1, <3>2, <3>3, <3>4
  <2>2. CASE Req.op # "byte"
      BY <1>0, <1>1, <2>2 DEF TypeInv, CacheInv
  <2> QED
      BY <2>1, <2>2
<1>8. TypeInv'
    BY <1>0, <1>1, <1>2, <1>6, <1>7 DEF TypeInv
<1>9. PcInv' /\ DataInv' /\ CacheInv'
    BY <1>1, <1>7 DEF PcInv, DataInv, CacheInv
<1>10. \A q \in Asked : q.op \in {"write", "writeAP"} => q \in Asked'
    BY <1>2, <1>5, <1>6, AskedStays
<1>11. RomInv'
    BY <1>0, <1>1, <1>10, NothingWritten
<1> QED
    BY <1>6, <1>8, <1>9, <1>11 DEF EepromInv

LEMMA DumpStays ==
  ASSUME EepromInv, DumpStep
  PROVE  EepromInv'
<1>0. TypeInv /\ PcInv /\ DataInv /\ CacheInv /\ AnswersInv /\ RomInv
    BY DEF EepromInv
<1>1. /\ pc = "return" /\ Req.op = "dump" /\ edat' = Zero
      /\ answers' = <<[req |-> Req, val |-> Got, mine |-> ~pdi[Me]]>> \o answers
      /\ UNCHANGED <<rom, dev, esislave, esimap>>
      /\ \/ todo' = <<[Req EXCEPT !.a = NextAddress]>> \o Tail(todo) /\ pc' = "wait"
         \/ pc' = "giveback" /\ todo' = todo
         \/ pc' = "call" /\ todo' = Tail(todo)
    BY DEF DumpStep, slaveVars
<1>2. todo # <<>> /\ Req \in Requests /\ Me \in Slaves /\ Tail(todo) \in Seq(Requests) /\ Req.a \in Nat
    BY <1>0, <1>1, RequestIs DEF PcInv
<1>3. Got \in Values /\ OfOne(Req, Got[1])
    BY <1>0, <1>1, GotIs
<1>4. PICK r : r = [req |-> Req, val |-> Got, mine |-> ~pdi[Me]]
    OBVIOUS
<1>5. r \in Results /\ r.req = Req /\ OfOne(r.req, r.val[1])
    BY <1>2, <1>3, <1>4 DEF Results
<1>6. answers' \in Seq(Results) /\ Answers' = Answers \cup {r} /\ AnswersInv'
    BY <1>0, <1>1, <1>4, <1>5, AnswerAdded
<1>7. edat' \in Data /\ edat'.of = 0
    BY <1>1 DEF Zero, Data
<1>8. /\ todo' \in Seq(Requests)
      /\ pc' # "call" => todo' # <<>> /\ Req'.op = "dump" /\ pc' \in {"wait", "giveback"}
  <2>1. CASE todo' = <<[Req EXCEPT !.a = NextAddress]>> \o Tail(todo) /\ pc' = "wait"
    <3>1. PICK q : q = [Req EXCEPT !.a = NextAddress]
        OBVIOUS
    <3>2. NextAddress \in Nat
        BY <1>2 DEF NextAddress, Width
    <3>3. q \in Requests /\ q.op = "dump"
        BY <1>1, <1>2, <3>1, <3>2 DEF Requests
    <3>4. todo' = <<q>> \o Tail(todo)
        BY <2>1, <3>1
    <3>5. todo' \in Seq(Requests) /\ todo' # <<>> /\ Head(todo') = q
        BY <1>2, <3>3, <3>4
    <3> QED
        BY <2>1, <3>3, <3>5 DEF Req
  <2>2. CASE pc' = "giveback" /\ todo' = todo
      BY <1>0, <1>1, <1>2, <2>2 DEF TypeInv, Req
  <2>3. CASE pc' = "call" /\ todo' = Tail(todo)
      BY <1>2, <2>3
  <2> QED
      BY <1>1, <2>1, <2>2, <2>3
<1>9. TypeInv'
    BY <1>0, <1>1, <1>6, <1>7, <1>8 DEF TypeInv
<1>10. PcInv' /\ DataInv' /\ CacheInv'
  <2>1. PcInv'
      BY <1>8 DEF PcInv
  <2>2. DataInv'
      BY <1>7 DEF DataInv, OfOne
  <2>3. CacheInv'
      BY <1>0, <1>1 DEF CacheInv
  <2> QED
      BY <2>1, <2>2, <2>3
<1>11. \A q \in Asked : q.op \in {"write", "writeAP"} => q \in Asked'
    BY <1>2, <1>5, <1>6, AskedStays
<1>12. RomInv'
    BY <1>0, <1>1, <1>11, NothingWritten
<1> QED
    BY <1>6, <1>9, <1>10, <1>12 DEF EepromInv

LEMMA GiveBackStep ==
  ASSUME EepromInv, GiveBack
  PROVE  EepromInv'
<1>0. TypeInv /\ PcInv /\ DataInv /\ CacheInv /\ AnswersInv /\ RomInv
    BY DEF EepromInv
<1>1. /\ pc = "giveback" /\ UNCHANGED <<rom, esislave, esimap, answers, edat>>
      /\ pc' \in {"giveback", "call"} /\ todo' = IF pc' = "call" THEN Tail(todo) ELSE todo
      /\ \E w \in Counters : Datagram(ToPdi, w)
    BY DEF GiveBack, Retry
<1>2. todo # <<>> /\ Req.op \in {"leave", "dump"} /\ Tail(todo) \in Seq(Requests)
    BY <1>0, <1>1, RequestIs DEF PcInv
<1>3. Kept
    BY <1>0, <1>1, <1>2, WrittenAre, DatagramKeeps
<1>4. TypeInv'
    BY <1>0, <1>1, <1>2, <1>3 DEF TypeInv, Kept
<1>5. pc' = "giveback" => Req' = Req /\ Me' = Me /\ todo' = todo
    BY <1>1 DEF Req, Me
<1>6. PcInv'
    BY <1>0, <1>1, <1>2, <1>5 DEF PcInv
<1>7. DataInv' /\ CacheInv' /\ AnswersInv' /\ Answers' = Answers
  <2>1. \A s \in Slaves : dev'[s].here => dev[s].here
      BY <1>3 DEF Kept
  <2>2. DataInv'
      BY <1>0, <1>1, <1>2, <1>5 DEF DataInv, OfOne
  <2>3. CacheInv'
      BY <1>0, <1>1 DEF CacheInv
  <2> QED
      BY <1>0, <1>1, <2>1, <2>2, <2>3, AnswersStay
<1>8. \A q \in Asked : q.op \in {"write", "writeAP"} => q \in Asked'
    BY <1>2, <1>7, AskedStays
<1>9. RomInv'
    BY <1>0, <1>1, <1>3, <1>8, RomStays DEF Kept
<1> QED
    BY <1>4, <1>6, <1>7, <1>9 DEF EepromInv

(***************************************************************************)
(* A request begins.                                                       *)
(***************************************************************************)
LEMMA CallStays ==
  ASSUME EepromInv, Call
  PROVE  EepromInv'
<1>0. TypeInv /\ PcInv /\ DataInv /\ CacheInv /\ AnswersInv /\ RomInv
    BY DEF EepromInv
<1>1. /\ pc = "call" /\ todo # <<>> /\ edat' = Zero /\ UNCHANGED <<rom, dev>>
      /\ esislave' \in {esislave, Me} /\ esimap' \in {esimap, <<>>}
      /\ \/ todo' = todo
         \/ todo' = Tail(todo) /\ pc' = "call" /\ Req.op \in {"enter", "leave", "byte"}
    BY DEF Call, Enter, Leave, siigetbyte, FreshCache, readeeprom1, readeeprom2, writeeeprom, esidump, CallAP,
           Begin, slaveVars
<1>2. Req \in Requests /\ Me \in Slaves /\ Tail(todo) \in Seq(Requests)
    BY <1>0, <1>1, RequestIs
<1>3. edat' \in Data /\ edat'.of = 0
    BY <1>1 DEF Zero, Data
<1>4. todo' \in Seq(Requests)
    BY <1>0, <1>1, <1>2 DEF TypeInv
<1>5. /\ esislave' \in Slaves \cup {0}
      /\ \A b \in DOMAIN esimap' : esimap'[b] \in Values /\ esimap'[b][1] \in {0, esislave'}
  <2>1. CASE siigetbyte
    <3>1. esislave' = Me /\ esimap' = IF Me = esislave THEN esimap ELSE <<>>
        BY <2>1 DEF siigetbyte, FreshCache
    <3> QED
        BY <1>0, <1>2, <3>1 DEF TypeInv, CacheInv
  <2>2. CASE ~siigetbyte
    <3>1. UNCHANGED <<esislave, esimap>>
        BY <2>2 DEF Call, Enter, Leave, readeeprom1, readeeprom2, writeeeprom, esidump, CallAP
    <3> QED
        BY <1>0, <3>1 DEF TypeInv, CacheInv
  <2> QED
      BY <2>1, <2>2
<1>6. answers' \in Seq(Results) /\ AnswersInv' /\ \A r \in Answers : r \in Answers'
  <2>1. CASE answers' = answers
    <3>1. AnswersInv' /\ Answers' = Answers
        BY <1>0, <1>1, <2>1, AnswersStay
    <3> QED
        BY <1>0, <2>1, <3>1 DEF TypeInv
  <2>2. CASE answers' # answers
    <3>1. /\ siigetbyte /\ Req.op = "byte" /\ Req.a \in DOMAIN FreshCache
          /\ answers' = <<[req |-> Req, val |-> FreshCache[Req.a], mine |-> ~pdi[Me]]>> \o answers
        BY <2>2 DEF Call, Enter, Leave, siigetbyte, readeeprom1, readeeprom2, writeeeprom, esidump, CallAP, Begin
    <3>2. esimap' = FreshCache /\ esislave' = Me
        BY <3>1 DEF siigetbyte
    <3>3. FreshCache[Req.a] \in Values /\ FreshCache[Req.a][1] \in {0, Me}
        BY <1>5, <3>1, <3>2
    <3>4. PICK r : r = [req |-> Req, val |-> FreshCache[Req.a], mine |-> ~pdi[Me]]
        OBVIOUS
    <3>5. r \in Results /\ OfOne(r.req, r.val[1])
        BY <1>2, <3>3, <3>4 DEF Results, OfOne, Me
    <3>6. answers' \in Seq(Results) /\ Answers' = Answers \cup {r} /\ AnswersInv'
        BY <1>0, <1>1, <3>1, <3>4, <3>5, AnswerAdded
    <3> QED
        BY <3>6
  <2> QED
      BY <2>1, <2>2
<1>7. TypeInv'
    BY <1>0, <1>1, <1>3, <1>4, <1>5, <1>6 DEF TypeInv
<1>8. DataInv' /\ CacheInv'
    BY <1>3, <1>5 DEF DataInv, OfOne, CacheInv
<1>9. pc' # "call" =>
        /\ todo' = todo /\ Req' = Req /\ Me' = Me /\ pc' # "fetch"
        /\ IF pc' = "giveback" THEN Req.op = "leave" ELSE Req.op \notin {"enter", "leave"}
        /\ Req.op = "byte" => esislave' = Me
    BY <1>1 DEF Call, Enter, Leave, siigetbyte, readeeprom1, readeeprom2, writeeeprom, esidump, CallAP, Begin,
                Taken, Req, Me
<1>10. PcInv'
    BY <1>1, <1>9 DEF PcInv
<1>11. \A q \in Asked : q.op \in {"write", "writeAP"} => q \in Asked'
  <2>1. Req.op \in {"write", "writeAP"} => Req' = Req /\ todo' # <<>>
      BY <1>1 DEF Req
  <2> QED
      BY <1>1, <1>6, <2>1, AskedStays
<1>12. RomInv'
    BY <1>0, <1>1, <1>11, NothingWritten
<1> QED
    BY <1>6, <1>7, <1>8, <1>10, <1>12 DEF EepromInv

(***************************************************************************)
(* The slaves.                                                             *)
(***************************************************************************)
LEMMA SlaveStep ==
  ASSUME EepromInv, NEW s \in Slaves, Settle(s) \/ Vanish(s)
  PROVE  EepromInv'
<1>0. TypeInv /\ PcInv /\ DataInv /\ CacheInv /\ AnswersInv /\ RomInv
    BY DEF EepromInv
<1>1. UNCHANGED <<esislave, esimap, todo, pc, edat, answers>>
    BY DEF Settle, Vanish
<1>2. dev \in [Slaves -> Interface] /\ dev[s] \in Interface
    BY <1>0 DEF TypeInv
<1>3. /\ dev' \in [Slaves -> Interface] /\ \A t \in Slaves : dev'[t].here => dev[t].here
      /\ \A t \in Slaves : Writing(t)' => Writing(t)
  <2> DEFINE fits(i) == (i.here => dev[s].here) /\ (i.busy /\ i.kind = "write" => Writing(s))
  <2>1. PICK i \in Interface : dev' = [dev EXCEPT ![s] = i] /\ fits(i)
    <3>1. CASE Settle(s)
      <4> DEFINE a == [dev[s] EXCEPT !.busy = FALSE, !.nack = FALSE,
                                     !.reg = IF dev[s].kind = "read" THEN dev[s].pend ELSE @]
                 b == [dev[s] EXCEPT !.busy = FALSE, !.nack = TRUE, !.err = TRUE]
      <4>1. dev' = [dev EXCEPT ![s] = a] \/ dev' = [dev EXCEPT ![s] = b]
          BY <1>2, <3>1 DEF Settle
      <4>2. a \in Interface /\ a.here = dev[s].here /\ ~a.busy
          BY <1>2 DEF Interface
      <4>3. b \in Interface /\ b.here = dev[s].here /\ ~b.busy
          BY <1>2 DEF Interface
      <4> HIDE DEF a, b
      <4> QED
          BY <4>1, <4>2, <4>3
    <3>2. CASE Vanish(s)
      <4> DEFINE c == [dev[s] EXCEPT !.here = FALSE]
      <4>1. dev' = [dev EXCEPT ![s] = c]
          BY <1>2, <3>2 DEF Vanish
      <4>2. c \in Interface /\ ~c.here /\ c.busy = dev[s].busy /\ c.kind = dev[s].kind
          BY <1>2 DEF Interface
      <4> HIDE DEF c
      <4> QED
          BY <4>1, <4>2 DEF Writing
    <3> QED
        BY <3>1, <3>2
  <2>2. (i.here => dev[s].here) /\ (i.busy /\ i.kind = "write" => Writing(s))
      BY <2>1
  <2> HIDE DEF fits
  <2>3. \A t \in Slaves : dev'[t] = IF t = s THEN i ELSE dev[t]
      BY <1>2, <2>1
  <2>4. dev' \in [Slaves -> Interface]
      BY <1>2, <2>1
  <2> QED
      BY <2>2, <2>3, <2>4 DEF Writing
<1>4. rom' \in [Slaves -> [0 .. Words - 1 -> 0 .. 2]] /\ \A t \in Slaves : Touched(t)' => Touched(t) \/ Writing(t)
  <2>1. CASE rom' = rom
      BY <1>0, <2>1 DEF TypeInv, Touched
  <2>2. CASE rom' # rom
    <3>1. rom' = [rom EXCEPT ![s][dev[s].pend] = dev[s].data] /\ Writing(s)
        BY <2>2 DEF Settle, Vanish, Writing
    <3>2. dev[s].data \in 0 .. 2
        BY <1>2 DEF Interface
    <3>3. rom \in [Slaves -> [0 .. Words - 1 -> 0 .. 2]]
        BY <1>0 DEF TypeInv
    <3>4. rom' \in [Slaves -> [0 .. Words - 1 -> 0 .. 2]]
        BY <3>1, <3>2, <3>3
    <3>5. \A t \in Slaves : t # s => rom'[t] = rom[t]
        BY <3>1, <3>3
    <3> QED
        BY <3>1, <3>4, <3>5 DEF Touched
  <2> QED
      BY <2>1, <2>2
<1>5. TypeInv'
    BY <1>0, <1>1, <1>3, <1>4 DEF TypeInv
<1>6. Req' = Req /\ Me' = Me /\ (Writes' <=> Writes)
    BY <1>1 DEF Req, Me, Writes
<1>7. PcInv'
    BY <1>0, <1>1, <1>6 DEF PcInv
<1>8. Everybody' => Everybody
    BY <1>3 DEF Everybody
<1>9. DataInv'
    BY <1>0, <1>1, <1>6, <1>8 DEF DataInv, OfOne
<1>10. CacheInv'
    BY <1>0, <1>1 DEF CacheInv
<1>11. AnswersInv' /\ Answers' = Answers
    BY <1>0, <1>1, <1>3, AnswersStay
<1>12. RomInv'
  <2> SUFFICES ASSUME NEW t \in Slaves, (Writing(t) \/ Touched(t))' PROVE Owed(t)'
      BY DEF RomInv
  <2>1. Owed(t)
      BY <1>0, <1>3, <1>4 DEF RomInv
  <2>2. Asked' = Asked
      BY <1>1, <1>11 DEF Asked
  <2> QED
      BY <1>8, <2>1, <2>2 DEF Owed
<1> QED
    BY <1>5, <1>7, <1>9, <1>10, <1>11, <1>12 DEF EepromInv

-----------------------------------------------------------------------------
THEOREM EepromStaysRight == Spec => []EepromInv
<1>1. Init => EepromInv
  <2> SUFFICES ASSUME Init PROVE EepromInv
      OBVIOUS
  <2>1. pc = "call" /\ edat = Zero /\ answers = <<>> /\ esislave = 0 /\ esimap = <<>> /\ todo \in Seq(Requests)
      BY SlavesAre DEF Init
  <2>2. rom = [s \in Slaves |-> [w \in 0 .. Words - 1 |-> 0]]
      BY DEF Init
  <2>3. /\ pdi \in [Slaves -> BOOLEAN]
        /\ dev = [s \in Slaves |-> [here |-> TRUE, pdi |-> pdi[s], busy |-> FALSE, nack |-> FALSE,
                                    err |-> FALSE, reg |-> 0, pend |-> 0, kind |-> "read", data |-> 2]]
      BY DEF Init
  <2>4. edat \in Data
      BY <2>1 DEF Zero, Data
  <2>5. dev \in [Slaves -> Interface] /\ \A s \in Slaves : ~dev[s].busy
      BY <2>3 DEF Interface
  <2>6. TypeInv
      BY <2>1, <2>2, <2>4, <2>5 DEF TypeInv
  <2>7. PcInv /\ DataInv /\ CacheInv
      BY <2>1 DEF PcInv, DataInv, CacheInv
  <2>8. AnswersInv
      BY <2>1 DEF AnswersInv, Answers, ToSet
  <2>9. \A s \in Slaves : ~Writing(s) /\ ~Touched(s)
      BY <2>2, <2>5 DEF Writing, Touched
  <2> QED
      BY <2>6, <2>7, <2>8, <2>9 DEF RomInv, EepromInv
<1>2. EepromInv /\ [Next]_vars => EepromInv'
  <2> SUFFICES ASSUME EepromInv, [Next]_vars PROVE EepromInv'
      OBVIOUS
  <2>1. CASE Master
    <3>1. pc # "call" /\ Transfer => EepromInv'
        BY TransferStep
    <3> QED
        BY <2>1, <3>1, CallStays, PollStep, ForceStep, GiveBackStep, ReturnStep, DumpStays
           DEF Master, readeepromFP, writeeepromFP, readeepromAP, writeeepromAP
  <2>2. CASE \E s \in Slaves : Settle(s) \/ Vanish(s)
      BY <2>2, SlaveStep
  <2>3. CASE UNCHANGED vars
      BY <2>3 DEF vars, EepromInv, TypeInv, PcInv, DataInv, CacheInv, AnswersInv, RomInv, Req, Me, Writes,
                  OfOne, Everybody, Answers, Asked, Owed, Writing, Touched
  <2> QED
      BY <2>1, <2>2, <2>3 DEF Next
<1> QED
    BY <1>1, <1>2, PTL DEF Spec

(* Whatever is lost, refused or gone, an answer never comes from another   *)
(* slave's EEPROM, and only a slave that was to be written is              *)
(* (ecx_siigetbyte's cache, ecx_readeepromFP, ecx_writeeepromFP); by       *)
(* position (ecx_readeepromAP, ecx_writeeepromAP) as long as nobody has    *)
(* left the line.                                                          *)
THEOREM SlavesStayApart == Spec => []StaysWithItsSlave
<1>1. EepromInv => StaysWithItsSlave
  <2> SUFFICES ASSUME EepromInv PROVE StaysWithItsSlave
      OBVIOUS
  <2>1. AnswersInv /\ RomInv
      BY DEF EepromInv
  <2>2. \A r \in Answers : (r.req.op = "readAP" => Everybody) => r.val[1] \in {0, r.req.s}
      BY <2>1 DEF AnswersInv, OfOne
  <2>3. \A s \in Slaves : (\E w \in 0 .. Words - 1 : rom[s][w] # 0) =>
          \E q \in Asked : \/ q.op = "write" /\ q.s = s
                           \/ q.op = "writeAP" /\ (Everybody => q.s = s)
      BY <2>1 DEF RomInv, Owed, Touched
  <2> QED
      BY <2>2, <2>3 DEF StaysWithItsSlave
<1> QED
    BY <1>1, EepromStaysRight, PTL

-----------------------------------------------------------------------------
(***************************************************************************)
(* Who has the control of the EEPROM.  What a leave gives back is what the *)
(* enter before it found: nothing in between looks at the control again,   *)
(* and the control can only have been taken since.                         *)
(***************************************************************************)
Quiet(i, j) == \A k \in i .. j - 1 : todo[k].op \notin {"enter", "dump"}
ToEnter(j) == \E i \in 1 .. j - 1 : todo[i].op = "enter" /\ todo[i].s = todo[j].s /\ Quiet(i + 1, j)
LeaveInv ==
  \A j \in 1 .. Len(todo) : todo[j].op = "leave" =>
    ToEnter(j) \/ (Quiet(1, j) /\ (pdi[todo[j].s] => eectl))

ControlType == pdi \in [Slaves -> BOOLEAN] /\ eectl \in BOOLEAN /\ tries \in Nat /\ losses \in Nat

Handing == pc \in {"force", "take", "giveback"}
HandInv ==
  /\ Handing => ~ByPosition
  /\ pc = "giveback" => eectl
  /\ pc # "call" /\ Req.op = "dump" => (pdi[Me] => eectl)

(* The master's books are right, but for the slave that is being handed    *)
(* over, as long as a retry loop covers the losses.                        *)
BooksInv ==
  losses <= Retries /\ Everybody =>
    /\ tries <= losses
    /\ \A s \in Slaves : dev[s].pdi = pdi[s] \/ (Handing /\ s = Me)

ControlInv == ControlType /\ LeaveInv /\ HandInv /\ BooksInv

(* The list of requests goes on with the same request, or drops it.        *)
LEMMA LeaveStays ==
  ASSUME TypeInv, LeaveInv, todo' \in Seq(Requests), Len(todo') = Len(todo),
         \A k \in 1 .. Len(todo) : todo'[k].op = todo[k].op /\ todo'[k].s = todo[k].s,
         \A s \in Slaves : pdi'[s] => pdi[s] \/ eectl',
         eectl' = eectl \/ (todo # <<>> /\ Req.op = "dump")
  PROVE  LeaveInv'
<1> SUFFICES ASSUME NEW j \in 1 .. Len(todo)', (todo[j].op = "leave")'
             PROVE (ToEnter(j) \/ (Quiet(1, j) /\ (pdi[todo[j].s] => eectl)))'
    BY DEF LeaveInv
<1>0. todo \in Seq(Requests) /\ Len(todo) \in Nat
    BY DEF TypeInv
<1>1. j \in 1 .. Len(todo) /\ todo'[j].op = "leave" /\ todo[j].op = "leave" /\ todo'[j].s = todo[j].s
    BY <1>0
<1>2. todo[j].s \in Slaves
  <2>1. todo[j] \in Requests
      BY <1>0, <1>1
  <2> HIDE DEF Requests
  <2>2. \A q \in Requests : q.s \in Slaves
      BY DEF Requests
  <2> QED
      BY <2>1, <2>2
<1>3. ASSUME NEW i \in 1 .. j, Quiet(i, j) PROVE Quiet(i, j)'
    BY <1>0, <1>1, <1>3 DEF Quiet
<1>4. CASE ToEnter(j)
  <2>1. PICK i \in 1 .. j - 1 : todo[i].op = "enter" /\ todo[i].s = todo[j].s /\ Quiet(i + 1, j)
      BY <1>4 DEF ToEnter
  <2>2. i \in 1 .. Len(todo) /\ i + 1 \in 1 .. j
      BY <1>0, <1>1
  <2>3. Quiet(i + 1, j)'
    <3> DEFINE n == i + 1
    <3>1. n \in 1 .. j /\ Quiet(n, j)
        BY <2>1, <2>2
    <3> HIDE DEF n
    <3>2. \A k \in n .. j - 1 : todo'[k].op \notin {"enter", "dump"}
        BY <1>0, <1>1, <3>1 DEF Quiet
    <3> QED
        BY <3>2 DEF Quiet, n
  <2> QED
      BY <1>1, <2>1, <2>2, <2>3 DEF ToEnter
<1>5. CASE Quiet(1, j) /\ (pdi[todo[j].s] => eectl)
  <2>1. \A k \in 1 .. j - 1 : todo'[k].op \notin {"enter", "dump"}
      BY <1>0, <1>1, <1>5 DEF Quiet
  <2>2. eectl' = eectl
    <3>1. CASE j = 1
        BY <1>0, <1>1, <3>1 DEF Req
    <3>2. CASE j # 1
      <4>1. 1 \in 1 .. j - 1 /\ todo[1] = Req
          BY <1>0, <1>1, <3>2 DEF Req
      <4>2. Req.op # "dump"
          BY <1>5, <4>1 DEF Quiet
      <4> QED
          BY <4>2
    <3> QED
        BY <3>1, <3>2
  <2>3. pdi'[todo[j].s] => eectl'
      BY <1>2, <1>5, <2>2
  <2> QED
      BY <1>1, <2>1, <2>3 DEF Quiet
<1> QED
    BY <1>1, <1>4, <1>5 DEF LeaveInv

LEMMA LeaveDropped ==
  ASSUME TypeInv, LeaveInv, todo # <<>>, todo' = Tail(todo),
         IF Req.op = "enter" THEN pdi' = pdi /\ eectl' = pdi[Me]
         ELSE eectl' = eectl /\ \A s \in Slaves : pdi'[s] => pdi[s] \/ eectl
  PROVE  LeaveInv'
<1> SUFFICES ASSUME NEW j \in 1 .. Len(todo)', (todo[j].op = "leave")'
             PROVE (ToEnter(j) \/ (Quiet(1, j) /\ (pdi[todo[j].s] => eectl)))'
    BY DEF LeaveInv
<1>0. /\ todo \in Seq(Requests) /\ Len(todo) \in Nat /\ Len(todo') = Len(todo) - 1 /\ todo[1] = Req
      /\ \A k \in 1 .. Len(todo') : todo'[k] = todo[k + 1]
    BY DEF TypeInv, Req
<1> DEFINE n == j + 1
<1>1. n \in 2 .. Len(todo) /\ j \in Nat /\ todo[n].op = "leave" /\ todo'[j] = todo[n] /\ j = n - 1
    BY <1>0
<1>2. todo[n].s \in Slaves
  <2>1. todo[n] \in Requests
      BY <1>0, <1>1
  <2> HIDE DEF Requests
  <2>2. \A q \in Requests : q.s \in Slaves
      BY DEF Requests
  <2> QED
      BY <2>1, <2>2
<1>3. ToEnter(n) \/ (Quiet(1, n) /\ (pdi[todo[n].s] => eectl))
    BY <1>0, <1>1 DEF LeaveInv
<1> HIDE DEF n
<1>4. ASSUME NEW i \in 1 .. j, \A k \in i + 1 .. n - 1 : todo[k].op \notin {"enter", "dump"}
      PROVE  \A k \in i .. j - 1 : todo'[k].op \notin {"enter", "dump"}
  <2> TAKE k \in i .. j - 1
  <2>1. k + 1 \in i + 1 .. n - 1 /\ k \in 1 .. Len(todo')
      BY <1>0, <1>1
  <2> QED
      BY <1>0, <1>4, <2>1
<1>5. CASE ToEnter(n)
  <2>1. PICK i \in 1 .. n - 1 : todo[i].op = "enter" /\ todo[i].s = todo[n].s /\ Quiet(i + 1, n)
      BY <1>5 DEF ToEnter
  <2>2. CASE i = 1
    <3>1. Req.op = "enter" /\ Me = todo[n].s /\ pdi' = pdi /\ eectl' = pdi[Me]
        BY <1>0, <2>1, <2>2 DEF Me
    <3>2. \A k \in 1 .. j - 1 : todo'[k].op \notin {"enter", "dump"}
        BY <1>1, <1>4, <2>1, <2>2 DEF Quiet
    <3> QED
        BY <1>1, <3>1, <3>2 DEF Quiet
  <2>3. CASE i # 1
    <3>1. PICK h \in 1 .. j - 1 : h = i - 1
        BY <1>1, <2>3
    <3>2. h \in 1 .. Len(todo') /\ h + 1 = i /\ h + 1 \in 1 .. j
        BY <1>0, <1>1, <3>1
    <3>3. todo'[h] = todo[i]
        BY <1>0, <3>2
    <3>4. \A k \in (h + 1) + 1 .. n - 1 : todo[k].op \notin {"enter", "dump"}
        BY <2>1, <3>2 DEF Quiet
    <3>5. PICK m \in 1 .. j : m = h + 1
        BY <3>2
    <3>6. \A k \in m .. j - 1 : todo'[k].op \notin {"enter", "dump"}
        BY <1>4, <3>4, <3>5
    <3>7. Quiet(h + 1, j)'
        BY <3>5, <3>6 DEF Quiet
    <3> QED
        BY <1>1, <2>1, <3>3, <3>7 DEF ToEnter
  <2> QED
      BY <2>2, <2>3
<1>6. CASE Quiet(1, n) /\ (pdi[todo[n].s] => eectl)
  <2>1. Req.op # "enter"
    <3>1. 1 \in 1 .. n - 1
        BY <1>1
    <3> QED
        BY <1>0, <1>6, <3>1 DEF Quiet
  <2>2. pdi'[todo[n].s] => eectl'
      BY <1>2, <1>6, <2>1
  <2>3. \A k \in 1 + 1 .. n - 1 : todo[k].op \notin {"enter", "dump"}
      BY <1>1, <1>6 DEF Quiet
  <2>4. \A k \in 1 .. j - 1 : todo'[k].op \notin {"enter", "dump"}
    <3>1. CASE j = 0
        BY <3>1
    <3>2. CASE j # 0
        BY <1>1, <1>4, <2>3, <3>2
    <3> QED
        BY <3>1, <3>2
  <2> QED
      BY <1>1, <2>2, <2>4 DEF Quiet
<1> QED
    BY <1>3, <1>5, <1>6

(* A datagram meets the slave asked, and nobody else.                      *)
LEMMA AllReached ==
  ASSUME TypeInv, todo # <<>>, Everybody
  PROVE  Reached = {Me}
<1>1. \A s \in Reached : s = Me
    BY ReachedIs
<1>2. Me \in Slaves /\ Me \in Nat /\ 1 .. Me \subseteq Slaves /\ dev[Me].here
    BY RequestIs, SlavesAre DEF Everybody
<1>3. {r \in 1 .. Me \cap Slaves : dev[r].here} = 1 .. Me
    BY <1>2 DEF Everybody
<1>4. Cardinality(1 .. Me) = Me
    BY <1>2, FS_Interval
<1>5. Me \in Reached
    BY <1>2, <1>3, <1>4 DEF Reached
<1> QED
    BY <1>1, <1>5

LEMMA DatagramGoes ==
  ASSUME TypeInv, ControlType, todo # <<>>, NEW written, NEW w \in Counters, Datagram(written, w),
         \A s \in Slaves : written[s] \in Interface /\ written[s].here = dev[s].here
  PROVE  /\ losses' \in Nat /\ losses' >= losses /\ (w = -1 => losses' = losses + 1)
         /\ Everybody' => Everybody
         /\ Everybody => /\ w # 0 /\ \A s \in Slaves \ {Me} : dev'[s].pdi = dev[s].pdi
                         /\ dev'[Me].pdi \in {dev[Me].pdi, written[Me].pdi}
                         /\ w = 1 => dev'[Me].pdi = written[Me].pdi
<1> DEFINE done == Done(written)
<1>1. losses' \in Nat /\ losses' >= losses /\ (w = -1 => losses' = losses + 1)
    BY DEF Datagram, ControlType, Counters
<1>2. /\ w = 1 => dev' = done
      /\ w = 0 => Reached = {}
      /\ dev' = dev \/ dev' = done
    BY DEF Datagram
<1>3. \A s \in Slaves : done[s] = IF s \in Reached THEN written[s] ELSE dev[s]
    BY DEF Done
<1> HIDE DEF done
<1>4. Everybody' => Everybody
    BY <1>2, <1>3 DEF Everybody
<1>5. ASSUME Everybody
      PROVE  /\ w # 0 /\ \A s \in Slaves \ {Me} : dev'[s].pdi = dev[s].pdi
             /\ dev'[Me].pdi \in {dev[Me].pdi, written[Me].pdi}
             /\ w = 1 => dev'[Me].pdi = written[Me].pdi
  <2>1. Reached = {Me} /\ Me \in Slaves
      BY <1>5, AllReached, RequestIs
  <2>2. done[Me] = written[Me] /\ \A s \in Slaves \ {Me} : done[s] = dev[s]
      BY <1>3, <2>1
  <2> QED
      BY <1>2, <2>1, <2>2
<1> QED
    BY <1>1, <1>4, <1>5

(* What the end of a leave or a dump has to show.                          *)
HandedBack ==
  todo # <<>> /\ Req.op \in {"leave", "dump"} /\ todo' = Tail(todo) =>
    pdi'[Me] = eectl /\ (Covered' => dev'[Me].pdi = pdi'[Me])

LEMMA TailIsShorter ==
  ASSUME TypeInv, todo # <<>>
  PROVE  todo # Tail(todo) /\ \A q \in Requests : <<q>> \o Tail(todo) # Tail(todo)
<1>1. todo \in Seq(Requests) /\ Len(Tail(todo)) = Len(todo) - 1 /\ Tail(todo) \in Seq(Requests) /\ Len(todo) \in Nat
    BY DEF TypeInv
<1>2. ASSUME NEW q \in Requests PROVE <<q>> \o Tail(todo) # Tail(todo)
  <2> DEFINE rest == Tail(todo)
  <2>1. <<q>> \in Seq(Requests) /\ Len(<<q>>) = 1 /\ rest \in Seq(Requests) /\ Len(rest) \in Nat
      BY <1>1
  <2> HIDE DEF rest
  <2>2. Len(<<q>> \o rest) = 1 + Len(rest)
      BY <2>1
  <2>3. <<q>> \o rest # rest
      BY <2>1, <2>2
  <2> QED
      BY <2>3 DEF rest
<1>3. todo # Tail(todo)
  <2> DEFINE n == Len(todo)
             m == Len(Tail(todo))
  <2>1. n \in Nat /\ m = n - 1
      BY <1>1
  <2> HIDE DEF n, m
  <2>2. m # n
      BY <2>1
  <2> QED
      BY <2>2 DEF n, m
<1> QED
    BY <1>2, <1>3

(* The books while a transfer goes on and while a retry loop runs.         *)
LEMMA BooksStay ==
  ASSUME EepromInv, ControlInv, todo # <<>>, NEW written, NEW w \in Counters, Datagram(written, w),
         \A s \in Slaves : written[s] \in Interface /\ written[s].here = dev[s].here,
         todo' = todo, tries' \in Nat, tries' <= tries \/ (w <= 0 /\ tries' = tries + 1),
         \A s \in Slaves \ {Me} : pdi'[s] = pdi[s],
         losses' <= Retries /\ Everybody =>
           \/ Handing' \/ (~Handing /\ pdi' = pdi /\ written[Me].pdi = dev[Me].pdi)
           \/ (w = 1 /\ pdi'[Me] = written[Me].pdi)
  PROVE  BooksInv' /\ losses' \in Nat
<1>1. TypeInv /\ ControlType /\ BooksInv /\ Retries \in Nat /\ Me' = Me
    BY EepromAssumption DEF EepromInv, ControlInv, EepromAssumption, Me, Req
<1>2. /\ losses' \in Nat /\ losses' >= losses /\ (w = -1 => losses' = losses + 1)
      /\ Everybody' => Everybody
      /\ Everybody => /\ w # 0 /\ \A s \in Slaves \ {Me} : dev'[s].pdi = dev[s].pdi
                      /\ dev'[Me].pdi \in {dev[Me].pdi, written[Me].pdi}
                      /\ w = 1 => dev'[Me].pdi = written[Me].pdi
    BY <1>1, DatagramGoes
<1>3. ASSUME losses' <= Retries, Everybody'
      PROVE  tries' <= losses' /\ \A s \in Slaves : dev'[s].pdi = pdi'[s] \/ (Handing' /\ s = Me)
  <2>1. Everybody /\ losses <= Retries /\ losses \in Nat /\ tries \in Nat
      BY <1>1, <1>2, <1>3 DEF ControlType
  <2>2. tries <= losses /\ \A s \in Slaves : dev[s].pdi = pdi[s] \/ (Handing /\ s = Me)
      BY <1>1, <2>1 DEF BooksInv
  <2>3. tries' <= losses'
    <3>1. CASE tries' <= tries
        BY <1>2, <2>1, <2>2, <3>1
    <3>2. CASE w <= 0 /\ tries' = tries + 1
      <4>1. w = -1
          BY <1>2, <2>1, <3>2 DEF Counters
      <4> QED
          BY <1>2, <2>1, <2>2, <3>2, <4>1
    <3> QED
        BY <3>1, <3>2
  <2>4. ASSUME NEW s \in Slaves PROVE dev'[s].pdi = pdi'[s] \/ (Handing' /\ s = Me)
    <3>1. CASE s # Me
        BY <1>2, <2>1, <2>2, <3>1
    <3>2. CASE s = Me
        BY <1>2, <1>3, <2>1, <2>2, <3>2
    <3> QED
        BY <3>1, <3>2
  <2> QED
      BY <2>3, <2>4
<1> QED
    BY <1>1, <1>2, <1>3 DEF BooksInv

(* A step in the middle of a transfer.                                     *)
LEMMA WithinControl ==
  ASSUME EepromInv, ControlInv, pc \notin {"call", "force", "take", "giveback"},
         pc' \notin {"call", "force", "take", "giveback"}, UNCHANGED <<pdi, todo, eectl>>,
         BooksInv', tries' \in Nat, losses' \in Nat
  PROVE  ControlInv' /\ HandedBack
<1>1. TypeInv /\ PcInv /\ ControlType /\ LeaveInv /\ HandInv
    BY DEF EepromInv, ControlInv
<1>2. Req' = Req /\ Me' = Me /\ todo # <<>>
    BY <1>1 DEF Req, Me, PcInv
<1>3. LeaveInv'
    BY <1>1 DEF LeaveInv, ToEnter, Quiet
<1>4. ControlType' /\ HandInv'
    BY <1>1, <1>2 DEF ControlType, HandInv, Handing
<1>5. HandedBack
    BY <1>1, <1>2, TailIsShorter DEF HandedBack
<1> QED
    BY <1>3, <1>4, <1>5 DEF ControlInv

LEMMA PollControl ==
  ASSUME EepromInv, ControlInv, waitnotbusyFP \/ waitnotbusyAP
  PROVE  ControlInv' /\ HandedBack
<1>1. /\ pc \in {"wait", "wait2"} /\ UNCHANGED <<pdi, todo, eectl>> /\ tries' = 0
      /\ \E w \in Counters : Datagram(dev, w)
    BY DEF waitnotbusyFP, waitnotbusyAP, Polled, callVars
<1>2. pc' \notin {"call", "force", "take", "giveback"}
  <2>1. AfterWait(estat') \in {"clear", "data", "command"}
      BY DEF AfterWait
  <2>2. AfterWait2(estat') \in {"refused", "written", "fetch"}
      BY DEF AfterWait2
  <2>3. Repeat(nackcnt) \in {"return", "data", "command"}
      BY DEF Repeat
  <2>4. pc' \in {pc, AfterWait(estat'), AfterWait2(estat'), "return", Repeat(nackcnt)}
      BY DEF waitnotbusyFP, waitnotbusyAP, Polled
  <2> QED
      BY <1>1, <2>1, <2>2, <2>3, <2>4
<1>3. PICK w \in Counters : Datagram(dev, w)
    BY <1>1
<1>4. TypeInv /\ PcInv /\ ControlType /\ todo # <<>>
    BY <1>1 DEF EepromInv, PcInv, ControlInv
<1>5. \A s \in Slaves : dev[s] \in Interface
    BY <1>4 DEF TypeInv
<1>6. ~Handing /\ tries' \in Nat /\ tries' <= tries
    BY <1>1, <1>4 DEF Handing, ControlType
<1>7. BooksInv' /\ losses' \in Nat
    BY <1>1, <1>3, <1>4, <1>5, <1>6, BooksStay
<1> QED
    BY <1>1, <1>2, <1>6, <1>7, WithinControl

LEMMA TransferControl ==
  ASSUME EepromInv, ControlInv, pc # "call", Transfer
  PROVE  ControlInv' /\ HandedBack
<1>1. TypeInv /\ PcInv /\ ControlType /\ todo # <<>>
    BY DEF EepromInv, PcInv, ControlInv
<1>2. /\ pc \in {"clear", "data", "command", "refused", "fetch", "written"}
      /\ UNCHANGED <<pdi, todo, eectl>> /\ ~Handing
    BY DEF Transfer, Clear, WriteData, Command, Refused, Fetch, Written, callVars, Handing
<1>3. pc' \notin {"call", "force", "take", "giveback"}
  <2>1. Repeat(nackcnt) \in {"return", "data", "command"} /\ Repeat(nackcnt + 1) \in {"return", "data", "command"}
      BY DEF Repeat
  <2>2. \A w \in Counters : Issued(w) \in {"return", "wait2", "data", "command"}
      BY <2>1 DEF Issued
  <2>3. CASE Command
      BY <1>2, <2>2, <2>3 DEF Command, Retry
  <2>4. CASE Refused
      BY <2>1, <2>4 DEF Refused
  <2>5. CASE Clear \/ WriteData \/ Fetch \/ Written
      BY <1>2, <2>5 DEF Clear, WriteData, Fetch, Written, Retry
  <2> QED
      BY <2>3, <2>4, <2>5 DEF Transfer
<1>4. ASSUME UNCHANGED <<dev, tries, losses>> PROVE BooksInv' /\ tries' \in Nat /\ losses' \in Nat
  <2>1. BooksInv /\ (Everybody' => Everybody)
      BY <1>4 DEF ControlInv, Everybody
  <2> QED
      BY <1>1, <1>2, <1>4, <2>1 DEF BooksInv, ControlType
<1>5. ASSUME NEW written, \A s \in Slaves : /\ written[s] \in Interface /\ written[s].here = dev[s].here
                                           /\ written[s].pdi = dev[s].pdi,
             \E w \in Counters : /\ Datagram(written, w)
                                 /\ tries' = 0 \/ tries' = tries \/ (w <= 0 /\ tries' = tries + 1)
      PROVE  BooksInv' /\ tries' \in Nat /\ losses' \in Nat
  <2>1. PICK w \in Counters : /\ Datagram(written, w)
                              /\ tries' = 0 \/ tries' = tries \/ (w <= 0 /\ tries' = tries + 1)
      BY <1>5
  <2>2. tries \in Nat /\ Me \in Slaves
      BY <1>1, RequestIs DEF ControlType
  <2>3. tries' \in Nat /\ (tries' <= tries \/ (w <= 0 /\ tries' = tries + 1))
      BY <2>1, <2>2
  <2>4. BooksInv' /\ losses' \in Nat
      BY <1>1, <1>2, <1>5, <2>1, <2>2, <2>3, BooksStay
  <2> QED
      BY <2>3, <2>4
<1>6. /\ \A s \in Slaves : NoError[s].pdi = dev[s].pdi /\ Given[s].pdi = dev[s].pdi /\ Ordered[s].pdi = dev[s].pdi
      /\ \A s \in Slaves : dev[s] \in Interface
  <2> SUFFICES ASSUME NEW s \in Slaves
               PROVE  /\ NoError[s].pdi = dev[s].pdi /\ Given[s].pdi = dev[s].pdi /\ Ordered[s].pdi = dev[s].pdi
                      /\ dev[s] \in Interface
      OBVIOUS
  <2>1. dev[s] \in Interface
      BY <1>1 DEF TypeInv
  <2>2. NoError[s].pdi = dev[s].pdi
      BY <2>1 DEF NoError, Interface
  <2>3. Given[s].pdi = dev[s].pdi
      BY <2>1 DEF Given, Interface
  <2>4. Ordered[s].pdi = dev[s].pdi
    <3> DEFINE kind == IF Writes THEN "write" ELSE "read"
               word == Word(Req.a)
    <3>1. Ordered[s] = IF dev[s].busy \/ dev[s].pdi THEN dev[s]
                       ELSE [dev[s] EXCEPT !.busy = TRUE, !.pend = word, !.kind = kind]
        BY DEF Ordered
    <3> HIDE DEF kind, word
    <3> QED
        BY <2>1, <3>1 DEF Interface
  <2> QED
      BY <2>1, <2>2, <2>3, <2>4
<1>7. CASE Clear
  <2>1. \E w \in Counters : Datagram(NoError, w) /\ tries' = tries
      BY <1>7 DEF Clear
  <2>2. BooksInv' /\ tries' \in Nat /\ losses' \in Nat
      BY <1>1, <1>5, <1>6, <2>1, WrittenAre
  <2> QED
      BY <1>2, <1>3, <2>2, WithinControl
<1>8. CASE WriteData
  <2>1. \E w \in Counters : Datagram(Given, w) /\ (tries' = 0 \/ (w <= 0 /\ tries' = tries + 1))
      BY <1>8 DEF WriteData, Retry, Again
  <2>2. BooksInv' /\ tries' \in Nat /\ losses' \in Nat
      BY <1>1, <1>5, <1>6, <2>1, WrittenAre
  <2> QED
      BY <1>2, <1>3, <2>2, WithinControl
<1>9. CASE Command
  <2>1. \E w \in Counters : Datagram(Ordered, w) /\ (tries' = 0 \/ (w <= 0 /\ tries' = tries + 1))
      BY <1>9 DEF Command, Retry, Again
  <2>2. BooksInv' /\ tries' \in Nat /\ losses' \in Nat
      BY <1>1, <1>5, <1>6, <2>1, WrittenAre
  <2> QED
      BY <1>2, <1>3, <2>2, WithinControl
<1>10. CASE Fetch
  <2>1. \E w \in Counters : Datagram(dev, w) /\ (tries' = 0 \/ (w <= 0 /\ tries' = tries + 1))
      BY <1>10 DEF Fetch, Again
  <2>2. BooksInv' /\ tries' \in Nat /\ losses' \in Nat
      BY <1>5, <1>6, <2>1
  <2> QED
      BY <1>2, <1>3, <2>2, WithinControl
<1>11. CASE Refused \/ Written
  <2>1. UNCHANGED <<dev, tries, losses>>
      BY <1>11 DEF Refused, Written, slaveVars
  <2> QED
      BY <1>2, <1>3, <1>4, <2>1, WithinControl
<1> QED
    BY <1>7, <1>8, <1>9, <1>10, <1>11 DEF Transfer

(* The control is taken and given back.                                    *)
LEMMA HandOver ==
  ASSUME EepromInv, ControlInv, TakeByForce \/ Take \/ GiveBack
  PROVE  ControlInv' /\ HandedBack
<1>1. TypeInv /\ PcInv /\ ControlType /\ LeaveInv /\ HandInv /\ todo # <<>> /\ Handing
    BY DEF EepromInv, PcInv, ControlInv, TakeByForce, Take, GiveBack, Handing
<1>2. /\ Me \in Slaves /\ Req \in Requests /\ eectl' = eectl /\ tries \in Nat /\ losses \in Nat /\ Retries \in Nat
      /\ pdi \in [Slaves -> BOOLEAN] /\ todo \in Seq(Requests) /\ Tail(todo) \in Seq(Requests)
    BY <1>1, RequestIs, EepromAssumption DEF EepromAssumption, ControlType, TypeInv, TakeByForce, Take, GiveBack, callVars
<1>3. /\ \A s \in Slaves : /\ ToMaster[s] \in Interface /\ ToMaster[s].here = dev[s].here
                           /\ ToPdi[s] \in Interface /\ ToPdi[s].here = dev[s].here
      /\ ToMaster[Me].pdi = FALSE /\ ToPdi[Me].pdi = TRUE
  <2>1. dev[Me] \in Interface
      BY <1>1, <1>2 DEF TypeInv
  <2>2. ToMaster[Me].pdi = FALSE /\ ToPdi[Me].pdi = TRUE
      BY <1>2, <2>1 DEF ToMaster, ToPdi, Interface
  <2> QED
      BY <1>1, <2>2, WrittenAre
<1>4. BooksInv
    BY DEF ControlInv
(* A retry loop that ends without an answer has lost too much.             *)
<1>5. ASSUME NEW written, NEW w \in Counters, Datagram(written, w), ~Again(w), Everybody, losses' <= Retries,
             \A s \in Slaves : written[s] \in Interface /\ written[s].here = dev[s].here
      PROVE  w = 1
  <2>1. w # 0 /\ losses' >= losses /\ losses' \in Nat /\ (w = -1 => losses' = losses + 1)
      BY <1>1, <1>5, DatagramGoes
  <2>2. tries <= losses
      BY <1>2, <1>4, <1>5, <2>1 DEF BooksInv
  <2>3. w = -1 => tries >= Retries
      BY <1>2, <1>5 DEF Again
  <2> QED
      BY <1>2, <1>5, <2>1, <2>2, <2>3 DEF Counters
<1>6. CASE TakeByForce \/ (Take /\ pc' = "take") \/ (GiveBack /\ pc' = "giveback")
  <2>1. PICK written, w : /\ w \in Counters /\ Datagram(written, w) /\ written \in {ToMaster, ToPdi}
                          /\ tries' = 0 \/ (w <= 0 /\ tries' = tries + 1)
      BY <1>6 DEF TakeByForce, Take, GiveBack, Retry, Again
  <2>2. /\ pdi' = pdi /\ todo' = todo /\ eectl' = eectl /\ Req' = Req /\ Me' = Me
        /\ pc' \in {"force", "take", "giveback"} /\ (pc' = "giveback" => pc = "giveback")
      BY <1>6 DEF TakeByForce, Take, GiveBack, callVars, Retry, Req, Me
  <2>3. tries' \in Nat /\ (tries' <= tries \/ (w <= 0 /\ tries' = tries + 1)) /\ Handing'
      BY <1>2, <2>1, <2>2 DEF Handing
  <2>4. \A s \in Slaves : written[s] \in Interface /\ written[s].here = dev[s].here
      BY <1>3, <2>1
  <2>5. BooksInv' /\ losses' \in Nat
      BY <1>1, <2>1, <2>2, <2>3, <2>4, BooksStay
  <2>6. LeaveInv'
      BY <1>1, <2>2 DEF LeaveInv, ToEnter, Quiet
  <2>7. HandInv' /\ ControlType'
      BY <1>1, <2>2, <2>3, <2>5 DEF HandInv, ControlType, ByPosition, Handing
  <2>8. HandedBack
      BY <1>1, <2>2, TailIsShorter DEF HandedBack
  <2> QED
      BY <2>5, <2>6, <2>7, <2>8 DEF ControlInv
<1>7. CASE Take /\ pc' # "take"
  <2>1. PICK w \in Counters : Retry(ToMaster, w, "wait")
      BY <1>7 DEF Take
  <2>2. /\ Datagram(ToMaster, w) /\ ~Again(w) /\ pc' = "wait" /\ tries' = 0 /\ pdi' = [pdi EXCEPT ![Me] = FALSE]
        /\ todo' = todo /\ eectl' = eectl /\ Req' = Req /\ Me' = Me /\ pc # "giveback"
      BY <1>7, <2>1 DEF Take, Retry, Req, Me
  <2>3. /\ pdi' \in [Slaves -> BOOLEAN] /\ pdi'[Me] = FALSE /\ \A s \in Slaves \ {Me} : pdi'[s] = pdi[s]
        /\ \A s \in Slaves : pdi'[s] => pdi[s]
      BY <1>2, <2>2
  <2>4. losses' <= Retries /\ Everybody => w = 1 /\ pdi'[Me] = ToMaster[Me].pdi
      BY <1>3, <1>5, <2>2, <2>3
  <2>5. tries' \in Nat /\ tries' <= tries
      BY <1>2, <2>2
  <2>6. BooksInv' /\ losses' \in Nat
      BY <1>1, <1>3, <2>2, <2>3, <2>4, <2>5, BooksStay
  <2>7. LeaveInv'
      BY <1>1, <1>2, <2>2, <2>3, LeaveStays
  <2>8. HandInv' /\ ControlType'
      BY <1>1, <2>2, <2>3, <2>5, <2>6 DEF HandInv, ControlType, Handing
  <2>9. HandedBack
      BY <1>1, <2>2, TailIsShorter DEF HandedBack
  <2> QED
      BY <2>6, <2>7, <2>8, <2>9 DEF ControlInv
<1>8. CASE GiveBack /\ pc' # "giveback"
  <2>1. PICK w \in Counters : Retry(ToPdi, w, "call")
      BY <1>8 DEF GiveBack
  <2>2. /\ Datagram(ToPdi, w) /\ ~Again(w) /\ pc' = "call" /\ tries' = 0 /\ pdi' = [pdi EXCEPT ![Me] = TRUE]
        /\ todo' = Tail(todo) /\ eectl' = eectl /\ pc = "giveback"
      BY <1>8, <2>1 DEF GiveBack, Retry
  <2>3. pdi' \in [Slaves -> BOOLEAN] /\ pdi'[Me] = TRUE /\ \A s \in Slaves \ {Me} : pdi'[s] = pdi[s]
      BY <1>2, <2>2
  <2>4. eectl = TRUE /\ Req.op # "enter"
      BY <1>1, <2>2 DEF HandInv, PcInv, ControlType
  <2>5. /\ losses' \in Nat /\ losses' >= losses /\ (Everybody' => Everybody)
        /\ Everybody => /\ w # 0 /\ \A s \in Slaves \ {Me} : dev'[s].pdi = dev[s].pdi
                        /\ w = 1 => dev'[Me].pdi = ToPdi[Me].pdi
      BY <1>1, <1>3, <2>2, DatagramGoes
  <2>6. ASSUME losses' <= Retries, Everybody'
        PROVE  tries' <= losses' /\ \A s \in Slaves : dev'[s].pdi = pdi'[s]
    <3>1. Everybody /\ w = 1 /\ losses <= Retries
        BY <1>2, <1>3, <1>5, <2>2, <2>5, <2>6
    <3>2. dev'[Me].pdi = pdi'[Me]
        BY <1>3, <2>3, <2>5, <3>1
    <3>3. \A s \in Slaves \ {Me} : dev[s].pdi = pdi[s]
        BY <1>4, <3>1 DEF BooksInv
    <3>4. \A s \in Slaves \ {Me} : dev'[s].pdi = pdi'[s]
        BY <2>3, <2>5, <3>1, <3>3
    <3>5. tries' <= losses'
        BY <2>2, <2>5
    <3>6. \A s \in Slaves : dev'[s].pdi = pdi'[s]
        BY <3>2, <3>4
    <3> QED
        BY <3>5, <3>6
  <2>7. LeaveInv'
      BY <1>1, <1>2, <2>2, <2>4, LeaveDropped
  <2>8. BooksInv' /\ HandInv' /\ ControlType'
      BY <1>1, <2>2, <2>3, <2>5, <2>6 DEF BooksInv, HandInv, ControlType, Handing
  <2>9. HandedBack
    <3>1. Covered' => losses' <= Retries /\ Everybody'
        BY DEF Covered
    <3> QED
        BY <1>2, <2>3, <2>4, <2>6, <3>1 DEF HandedBack
  <2> QED
      BY <2>7, <2>8, <2>9 DEF ControlInv
<1>9. Take \/ TakeByForce \/ GiveBack
    OBVIOUS
<1> QED
    BY <1>6, <1>7, <1>8, <1>9

(* The beginning and the end of a request, and the slaves.                 *)
LEMMA CallControl ==
  ASSUME EepromInv, ControlInv, Call
  PROVE  ControlInv' /\ HandedBack
<1>1. /\ TypeInv /\ ControlType /\ LeaveInv /\ BooksInv
      /\ pc = "call" /\ todo # <<>> /\ tries' = 0 /\ UNCHANGED <<pdi, dev, losses>>
    BY DEF EepromInv, ControlInv, Call, Enter, Leave, siigetbyte, readeeprom1, readeeprom2, writeeeprom, esidump,
           CallAP, Begin, slaveVars
<1>2. /\ Me \in Slaves /\ Req \in Requests /\ pdi \in [Slaves -> BOOLEAN] /\ eectl \in BOOLEAN
      /\ todo \in Seq(Requests) /\ losses \in Nat
    BY <1>1, RequestIs DEF ControlType, TypeInv
<1>3. ControlType'
  <2>1. eectl' \in BOOLEAN
      BY <1>2 DEF Call, Enter, Leave, siigetbyte, readeeprom1, readeeprom2, writeeeprom, esidump, CallAP
  <2> QED
      BY <1>1, <1>2, <2>1 DEF ControlType
<1>4. BooksInv'
    BY <1>1, <1>2 DEF BooksInv, Everybody, Handing
<1>5. \/ todo' = todo /\ (eectl' = eectl \/ Req.op = "dump")
      \/ todo' = Tail(todo) /\ pc' = "call" /\ IF Req.op = "enter" THEN eectl' = pdi[Me] ELSE eectl' = eectl
    BY DEF Call, Enter, Leave, siigetbyte, readeeprom1, readeeprom2, writeeeprom, esidump, CallAP, Begin
<1>6. LeaveInv'
    BY <1>1, <1>2, <1>5, LeaveStays, LeaveDropped
<1>7. HandInv'
  <2>1. pc' # "call" => todo' = todo /\ Req' = Req /\ Me' = Me
      BY <1>5 DEF Call, Enter, Leave, siigetbyte, readeeprom1, readeeprom2, writeeeprom, esidump, CallAP, Taken, Req, Me
  <2>2. Handing' => ~ByPosition
      BY DEF Call, Enter, Leave, siigetbyte, readeeprom1, readeeprom2, writeeeprom, esidump, CallAP, Begin, Taken,
             Handing, ByPosition
  <2>3. pc' = "giveback" => eectl'
      BY DEF Call, Enter, Leave, siigetbyte, readeeprom1, readeeprom2, writeeeprom, esidump, CallAP, Taken
  <2>4. pc' # "call" /\ Req.op = "dump" => eectl' = pdi[Me]
      BY DEF Call, Enter, Leave, siigetbyte, readeeprom1, readeeprom2, writeeeprom, esidump, CallAP, Begin
  <2> QED
      BY <1>1, <2>1, <2>2, <2>3, <2>4 DEF HandInv, Handing, ByPosition
<1>8. HandedBack
  <2> SUFFICES ASSUME Req.op \in {"leave", "dump"}, todo' = Tail(todo)
               PROVE  pdi'[Me] = eectl /\ (Covered' => dev'[Me].pdi = pdi'[Me])
      BY DEF HandedBack
  <2>1. todo' # todo
      BY <1>1, TailIsShorter
  <2>2. Leave /\ Req.op = "leave" /\ ~(eectl /\ ~pdi[Me])
      BY <2>1 DEF Call, Enter, Leave, siigetbyte, readeeprom1, readeeprom2, writeeeprom, esidump, CallAP, Begin
  <2>3. pdi[Me] => eectl
    <3>1. todo[1] = Req /\ 1 \in 1 .. Len(todo)
        BY <1>1, <1>2 DEF Req
    <3>2. ~ToEnter(1)
        BY DEF ToEnter
    <3>3. todo[1].op = "leave"
        BY <2>2, <3>1
    <3>4. pdi[todo[1].s] => eectl
        BY <1>1, <3>1, <3>2, <3>3 DEF LeaveInv
    <3> QED
        BY <3>1, <3>4 DEF Me
  <2>4. pdi'[Me] = eectl
      BY <1>1, <1>2, <2>2, <2>3
  <2>5. Covered' => dev'[Me].pdi = pdi'[Me]
      BY <1>1, <1>2, <1>4 DEF Covered, BooksInv, Everybody, Handing
  <2> QED
      BY <2>4, <2>5
<1> QED
    BY <1>3, <1>4, <1>6, <1>7, <1>8 DEF ControlInv

LEMMA EndControl ==
  ASSUME EepromInv, ControlInv, Return \/ DumpStep
  PROVE  ControlInv' /\ HandedBack
<1>1. /\ TypeInv /\ PcInv /\ ControlType /\ LeaveInv /\ HandInv /\ BooksInv
      /\ pc = "return" /\ todo # <<>> /\ UNCHANGED <<pdi, eectl, dev, losses, tries>>
    BY DEF EepromInv, PcInv, ControlInv, Return, DumpStep, slaveVars
<1>2. /\ Me \in Slaves /\ Req \in Requests /\ pdi \in [Slaves -> BOOLEAN] /\ eectl \in BOOLEAN
      /\ todo \in Seq(Requests) /\ Req.op \notin {"enter", "leave"}
    BY <1>1, RequestIs DEF ControlType, TypeInv, PcInv
<1>3. ControlType' /\ BooksInv'
    BY <1>1 DEF ControlType, BooksInv, Everybody, Handing
<1>4. CASE pc' = "call" /\ todo' = Tail(todo) /\ (Req.op = "dump" => ~(eectl /\ ~pdi[Me]))
  <2>1. LeaveInv' /\ HandInv'
      BY <1>1, <1>2, <1>4, LeaveDropped DEF HandInv, Handing
  <2>2. Req.op = "dump" => pdi[Me] = eectl
      BY <1>1, <1>2, <1>4 DEF HandInv
  <2>3. Covered' => dev'[Me].pdi = pdi'[Me]
      BY <1>1, <1>2, <1>3 DEF Covered, BooksInv, Everybody, Handing
  <2> QED
      BY <1>1, <1>2, <1>3, <2>1, <2>2, <2>3 DEF ControlInv, HandedBack
<1>5. CASE DumpStep /\ pc' = "giveback" /\ todo' = todo /\ eectl
  <2>1. Req' = Req /\ Me' = Me /\ Req.op = "dump"
      BY <1>5 DEF Req, Me, DumpStep
  <2>2. LeaveInv' /\ HandInv'
      BY <1>1, <1>5, <2>1 DEF LeaveInv, ToEnter, Quiet, HandInv, Handing, ByPosition
  <2> QED
      BY <1>1, <1>3, <1>5, <2>2, TailIsShorter DEF ControlInv, HandedBack
<1>6. CASE DumpStep /\ pc' = "wait" /\ todo' = <<[Req EXCEPT !.a = NextAddress]>> \o Tail(todo)
  <2>1. PICK q : q = [Req EXCEPT !.a = NextAddress]
      OBVIOUS
  <2>2. NextAddress \in Nat
      BY <1>2, RequestIs, <1>1 DEF NextAddress, Width
  <2>3. q \in Requests /\ q.op = Req.op /\ q.s = Req.s
      BY <1>2, <2>1, <2>2 DEF Requests
  <2>4. Tail(todo) \in Seq(Requests) /\ <<q>> \in Seq(Requests) /\ Len(<<q>>) = 1 /\ todo[1] = Req
        /\ Len(Tail(todo)) = Len(todo) - 1 /\ Len(todo) \in Nat /\ todo' = <<q>> \o Tail(todo)
      BY <1>1, <1>2, <1>6, <2>1, <2>3 DEF Req
  <2>5. todo' \in Seq(Requests) /\ Len(todo') = Len(todo) /\ todo'[1] = q
      BY <2>4
  <2>6. \A k \in 1 .. Len(todo) : todo'[k].op = todo[k].op /\ todo'[k].s = todo[k].s
    <3> TAKE k \in 1 .. Len(todo)
    <3>1. CASE k = 1
        BY <2>3, <2>4, <2>5, <3>1
    <3>2. CASE k # 1
      <4>1. todo'[k] = Tail(todo)[k - 1]
          BY <2>4, <3>2
      <4>2. Tail(todo)[k - 1] = todo[k]
          BY <1>2, <2>4, <3>2
      <4> QED
          BY <4>1, <4>2
    <3> QED
        BY <3>1, <3>2
  <2>7. LeaveInv'
      BY <1>1, <2>5, <2>6, LeaveStays
  <2>8. Req' = q /\ Me' = Me
      BY <2>3, <2>4, <2>5 DEF Req, Me
  <2>9. HandInv'
      BY <1>1, <1>6, <2>3, <2>8 DEF HandInv, Handing
  <2>10. HandedBack
      BY <1>1, <2>3, <2>4, TailIsShorter DEF HandedBack
  <2> QED
      BY <1>3, <2>7, <2>9, <2>10 DEF ControlInv
<1>7. CASE Return
    BY <1>4, <1>7 DEF Return
<1>8. CASE DumpStep
    BY <1>4, <1>5, <1>6, <1>8 DEF DumpStep
<1> QED
    BY <1>7, <1>8

LEMMA SlaveControl ==
  ASSUME EepromInv, ControlInv, NEW s \in Slaves, Settle(s) \/ Vanish(s)
  PROVE  ControlInv' /\ HandedBack
<1>1. TypeInv /\ ControlType /\ LeaveInv /\ HandInv /\ BooksInv
    BY DEF EepromInv, ControlInv
<1>2. UNCHANGED <<pdi, eectl, todo, pc, tries, losses>>
    BY DEF Settle, Vanish
<1>3. dev \in [Slaves -> Interface] /\ dev[s] \in Interface
    BY <1>1 DEF TypeInv
<1>4. \A t \in Slaves : dev'[t].pdi = dev[t].pdi /\ (dev'[t].here => dev[t].here)
  <2>1. CASE Settle(s)
    <3> DEFINE a == [dev[s] EXCEPT !.busy = FALSE, !.nack = FALSE,
                                   !.reg = IF dev[s].kind = "read" THEN dev[s].pend ELSE @]
               b == [dev[s] EXCEPT !.busy = FALSE, !.nack = TRUE, !.err = TRUE]
    <3>1. dev' = [dev EXCEPT ![s] = a] \/ dev' = [dev EXCEPT ![s] = b]
        BY <1>3, <2>1 DEF Settle
    <3>2. a.pdi = dev[s].pdi /\ b.pdi = dev[s].pdi /\ a.here = dev[s].here /\ b.here = dev[s].here
        BY <1>3 DEF Interface
    <3> HIDE DEF a, b
    <3>3. \A t \in Slaves : dev'[t] = dev[t] \/ (t = s /\ dev'[t] \in {a, b})
        BY <1>3, <3>1
    <3> QED
        BY <3>2, <3>3
  <2>2. CASE Vanish(s)
    <3> DEFINE c == [dev[s] EXCEPT !.here = FALSE]
    <3>1. dev' = [dev EXCEPT ![s] = c]
        BY <1>3, <2>2 DEF Vanish
    <3>2. ~c.here /\ c.pdi = dev[s].pdi
        BY <1>3 DEF Interface
    <3> HIDE DEF c
    <3>3. \A t \in Slaves : dev'[t] = dev[t] \/ (t = s /\ dev'[t] = c)
        BY <1>3, <3>1
    <3> QED
        BY <3>2, <3>3
  <2> QED
      BY <2>1, <2>2
<1>5. Everybody' => Everybody
    BY <1>4 DEF Everybody
<1>6. Req' = Req /\ Me' = Me /\ (Handing' <=> Handing)
    BY <1>2 DEF Req, Me, Handing
<1>7. BooksInv'
    BY <1>1, <1>2, <1>4, <1>5, <1>6 DEF BooksInv
<1>8. LeaveInv' /\ HandInv' /\ ControlType'
    BY <1>1, <1>2, <1>6 DEF LeaveInv, ToEnter, Quiet, HandInv, ControlType, ByPosition
<1>9. HandedBack
    BY <1>1, <1>2, TailIsShorter DEF HandedBack
<1> QED
    BY <1>7, <1>8, <1>9 DEF ControlInv

LEMMA ControlBegins ==
  ASSUME Init
  PROVE  ControlInv
<1>1. /\ pc = "call" /\ tries = 0 /\ losses = 0 /\ eectl = FALSE /\ pdi \in [Slaves -> BOOLEAN] /\ todo \in Jobs
      /\ \A s \in Slaves : dev[s].pdi = pdi[s]
    BY DEF Init
<1>2. LeaveInv
  <2> SUFFICES ASSUME NEW j \in 1 .. Len(todo), todo[j].op = "leave" PROVE ToEnter(j)
      BY DEF LeaveInv
  <2> QED
      BY <1>1, BracketsAssumption DEF BracketsAssumption, ToEnter, Quiet
<1>3. ControlType
    BY <1>1 DEF ControlType
<1>4. HandInv
    BY <1>1 DEF HandInv, Handing
<1>5. BooksInv
    BY <1>1 DEF BooksInv
<1> QED
    BY <1>2, <1>3, <1>4, <1>5 DEF ControlInv

LEMMA ControlNext ==
  ASSUME EepromInv, ControlInv, [Next]_vars
  PROVE  ControlInv' /\ [HandedBack]_vars
<1>1. CASE Master
  <2>1. pc # "call" /\ Transfer => ControlInv' /\ HandedBack
      BY TransferControl
  <2> QED
      BY <1>1, <2>1, CallControl, PollControl, HandOver, EndControl
         DEF Master, readeepromFP, writeeepromFP, readeepromAP, writeeepromAP
<1>2. CASE \E s \in Slaves : Settle(s) \/ Vanish(s)
    BY <1>2, SlaveControl
<1>3. CASE UNCHANGED vars
    BY <1>3 DEF vars, ControlInv, ControlType, LeaveInv, ToEnter, Quiet, HandInv, BooksInv, Handing, Req, Me,
                ByPosition, Everybody
<1> QED
    BY <1>1, <1>2, <1>3 DEF Next

(* An SII function and a dump leave the EEPROM with whom they found it     *)
(* (eectl, ecx_eeprom2master, ecx_eeprom2pdi), for every number of slaves  *)
(* and every list of requests with well-formed brackets; at the slave as   *)
(* in the master's books, when no more datagrams were lost than a retry    *)
(* loop repeats.                                                           *)
THEOREM ControlStays == Spec => ControlGivenBack
<1>1. Init => ControlInv
    BY ControlBegins
<1>2. EepromInv /\ ControlInv /\ [Next]_vars => ControlInv' /\ [HandedBack]_vars
    BY ControlNext
<1>3. [HandedBack]_vars => [todo # <<>> /\ Req.op \in {"leave", "dump"} /\ todo' = Tail(todo) =>
       /\ pdi'[Me] = eectl
       /\ Covered' => dev'[Me].pdi = pdi'[Me]]_vars
    BY DEF HandedBack
<1> QED
    BY <1>1, <1>2, <1>3, EepromStaysRight, PTL DEF Spec, ControlGivenBack

-----------------------------------------------------------------------------
(***************************************************************************)
(* What is answered.  With no more losses, refusals and delays than the    *)
(* retries cover, a request at work has its own order in the slave, and    *)
(* then its own word in the data register.                                 *)
(***************************************************************************)
Base == losses <= Retries /\ ~expired /\ Everybody
Calm == Base /\ (fails < MaxNack \/ fails = 0)
Clean == Base /\ fails = 0

Ordering == dev[Me].pend = Word(Req.a) /\ dev[Me].kind = IF Writes THEN "write" ELSE "read"
Obeyed == IF Writes THEN rom[Me][Word(Req.a)] = 1 ELSE dev[Me].reg = Word(Req.a)
Right == edat.of = Me /\ edat.from = Word(Req.a)

CountType == fails \in Nat /\ nackcnt \in Nat /\ expired \in BOOLEAN

(* The EEPROM asked is the master's, once ecx_eeprom2master is through.    *)
OwnInv ==
  /\ pc \notin {"call", "force", "take", "giveback"} /\ ~ByPosition /\ Req.op # "second" => ~pdi[Me]
  /\ pc # "call" /\ Req.op = "second" => pc \in {"wait2", "fetch", "return"}
  /\ pc # "call" /\ Req.op = "first" =>
       pc \in {"force", "take", "wait", "clear", "command", "return"}
  /\ pc \in {"data", "written"} => Writes
  /\ pc \in {"force", "take", "wait", "giveback"} => nackcnt = 0

WorkInv ==
  pc # "call" /\ Req.op # "second" /\ Calm /\ ~dev[Me].pdi =>
    /\ nackcnt <= fails /\ (pc = "refused" => nackcnt < fails)
    /\ pc \in {"clear", "data", "refused", "fetch"} => ~dev[Me].busy
    /\ pc = "command" => (dev[Me].busy => Ordering) /\ (Writes => dev[Me].data = 1)
    /\ pc = "wait2" =>
         IF dev[Me].busy THEN Ordering ELSE IF dev[Me].nack THEN nackcnt < fails ELSE Obeyed
    /\ pc = "fetch" => Obeyed /\ (estat.r64 <=> Me \in Long)
    /\ pc = "written" => Obeyed
    /\ pc = "return" /\ Req.op # "first" =>
         Right /\ IF Writes THEN Obeyed ELSE edat.width = Width(Me)

(* The first half of a pipelined read leaves its order with the slave, and *)
(* the second finds its word, as nothing was refused.                      *)
Primed(d, w) == IF d.busy THEN d.kind = "read" /\ d.pend = w ELSE d.reg = w
FirstInv == pc = "return" /\ Req.op = "first" /\ Clean => Primed(dev[Me], Word(Req.a))
SecondInv ==
  pc # "call" /\ Req.op = "second" /\ Clean =>
    /\ pc = "fetch" => ~dev[Me].busy
    /\ pc = "return" => Right /\ edat.width = 2

Apart(i, j) == \A k \in i .. j - 1 : todo[k].s # todo[j].s
ToFirst(j) ==
  \E i \in 1 .. j - 1 :
    todo[i].op = "first" /\ todo[i].s = todo[j].s /\ todo[i].a = todo[j].a /\ Apart(i + 1, j)
PipeInv ==
  \A j \in 1 .. Len(todo) : todo[j].op = "second" =>
    ToFirst(j) \/ (Apart(1, j) /\ (Clean => Primed(dev[todo[j].s], Word(todo[j].a))))
RoomInv == \A j \in 1 .. Len(todo) : todo[j].op \in {"write", "writeAP"} => Word(todo[j].a) < Words

(* Only the data given is written; the cache and the answers are right.    *)
WritingInv == Calm => \A s \in Slaves : Writing(s) => dev[s].data = 1
BytesInv == Calm => \A b \in DOMAIN esimap : b \in Int /\ esimap[b] = <<esislave, Word(b)>>
Good(r) == r.val = <<r.req.s, Word(r.req.a)>>
AnswerInv ==
  \A r \in Answers :
    /\ Calm /\ (r.req.op \in {"byte", "dump"} \/ (r.req.op = "readAP" /\ r.mine)) => Good(r)
    /\ Clean /\ r.req.op = "second" => Good(r)
    /\ Calm /\ (r.req.op = "write" \/ (r.req.op = "writeAP" /\ r.mine)) =>
         /\ r.val[2] = Word(r.req.a) /\ Word(r.req.a) < Words
         /\ rom[r.req.s][Word(r.req.a)] = 1

ReadInv ==
  /\ CountType /\ OwnInv /\ WorkInv /\ FirstInv /\ SecondInv /\ PipeInv /\ RoomInv /\ WritingInv
  /\ BytesInv /\ AnswerInv

-----------------------------------------------------------------------------
(* What was not covered before is not covered after.                       *)
LEMMA CalmerBefore ==
  ASSUME CountType, losses \in Nat, losses' \in Nat, losses' >= losses, fails' \in Nat, fails' >= fails,
         expired => expired', Everybody' => Everybody
  PROVE  (Base' => Base) /\ (Calm' => Calm) /\ (Clean' => Clean)
<1>1. Retries \in Nat /\ MaxNack \in Nat /\ fails \in Nat
    BY EepromAssumption DEF EepromAssumption, CountType
<1>2. Base' => Base
    BY <1>1 DEF Base
<1>3. (fails' < MaxNack \/ fails' = 0) => (fails < MaxNack \/ fails = 0)
    BY <1>1
<1>4. fails' = 0 => fails = 0
    BY <1>1
<1> QED
    BY <1>2, <1>3, <1>4 DEF Calm, Clean

(* A datagram meets the slave asked, if nobody is gone.                    *)
LEMMA DatagramAt ==
  ASSUME TypeInv, ControlType, todo # <<>>, NEW written, NEW w \in Counters, Datagram(written, w),
         \A s \in Slaves : written[s] \in Interface /\ written[s].here = dev[s].here
  PROVE  /\ losses' \in Nat /\ losses' >= losses /\ (w = -1 => losses' = losses + 1)
         /\ Everybody' => Everybody
         /\ Everybody => /\ w # 0 /\ \A s \in Slaves \ {Me} : dev'[s] = dev[s]
                         /\ dev'[Me] \in {dev[Me], written[Me]}
                         /\ w = 1 => dev'[Me] = written[Me]
<1> DEFINE done == Done(written)
<1>1. /\ losses' \in Nat /\ losses' >= losses /\ (w = -1 => losses' = losses + 1)
      /\ Everybody' => Everybody
    BY DatagramGoes
<1>2. /\ w = 1 => dev' = done
      /\ w = 0 => Reached = {}
      /\ dev' = dev \/ dev' = done
    BY DEF Datagram
<1>3. \A s \in Slaves : done[s] = IF s \in Reached THEN written[s] ELSE dev[s]
    BY DEF Done
<1> HIDE DEF done
<1>4. ASSUME Everybody
      PROVE  /\ w # 0 /\ \A s \in Slaves \ {Me} : dev'[s] = dev[s]
             /\ dev'[Me] \in {dev[Me], written[Me]}
             /\ w = 1 => dev'[Me] = written[Me]
  <2>1. Reached = {Me} /\ Me \in Slaves
      BY <1>4, AllReached, RequestIs
  <2>2. done[Me] = written[Me] /\ \A s \in Slaves \ {Me} : done[s] = dev[s]
      BY <1>3, <2>1
  <2> QED
      BY <1>2, <2>1, <2>2
<1> QED
    BY <1>1, <1>4

(* One that only reads leaves everything as it is, and reads the slave     *)
(* asked.                                                                  *)
LEMMA ReadAt ==
  ASSUME TypeInv, ControlType, todo # <<>>, NEW w \in Counters, Datagram(dev, w)
  PROVE  /\ dev' = dev /\ losses' \in Nat /\ losses' >= losses /\ (w = -1 => losses' = losses + 1)
         /\ Everybody' => Everybody
         /\ Everybody => w # 0 /\ Heard = Me
<1>1. \A s \in Slaves : dev[s] \in Interface /\ dev[s].here = dev[s].here
    BY DEF TypeInv
<1>2. /\ losses' \in Nat /\ losses' >= losses /\ (w = -1 => losses' = losses + 1)
      /\ (Everybody' => Everybody) /\ (Everybody => w # 0)
    BY <1>1, DatagramAt
<1>3. dev' = dev
  <2>1. dev \in [Slaves -> Interface]
      BY DEF TypeInv
  <2>2. Done(dev) = dev
      BY <2>1 DEF Done
  <2> QED
      BY <2>2 DEF Datagram
<1>4. Everybody => Heard = Me
  <2>1. Everybody => Reached = {Me}
      BY AllReached
  <2> QED
      BY <2>1 DEF Heard
<1> QED
    BY <1>2, <1>3, <1>4

(* A retry loop ends with an answer, or more was lost than it covers.      *)
LEMMA LoopEnds ==
  ASSUME ControlInv, NEW w \in Counters, Everybody => w # 0, w = -1 => losses' = losses + 1, losses' \in Nat,
         Everybody' => Everybody, losses' >= losses, Base', ~Again(w)
  PROVE  w = 1
<1>1. tries \in Nat /\ losses \in Nat /\ Retries \in Nat
    BY EepromAssumption DEF ControlInv, ControlType, EepromAssumption
<1>2. Everybody /\ losses' <= Retries
    BY DEF Base
<1>3. losses <= Retries
    BY <1>1, <1>2
<1>4. tries <= losses
    BY <1>2, <1>3 DEF ControlInv, BooksInv
<1>5. w = -1 => FALSE
  <2> SUFFICES ASSUME w = -1 PROVE FALSE
      OBVIOUS
  <2>1. losses + 1 <= Retries /\ ~(tries < Retries)
      BY <1>2 DEF Again
  <2> QED
      BY <1>1, <1>4, <2>1
<1> QED
    BY <1>2, <1>5 DEF Counters

(* The EEPROM asked by a slave's address is the master's while a transfer  *)
(* is under way.                                                           *)
LEMMA OwnEeprom ==
  ASSUME EepromInv, ControlInv, OwnInv, Base, pc \notin {"call", "force", "take", "giveback"},
         Req.op # "second", ~ByPosition \/ ~pdi[Me]
  PROVE  ~dev[Me].pdi
<1>1. Me \in Slaves /\ ~pdi[Me]
    BY RequestIs DEF EepromInv, PcInv, OwnInv
<1>2. dev[Me].pdi = pdi[Me]
    BY <1>1 DEF ControlInv, BooksInv, Base, Handing
<1> QED
    BY <1>1, <1>2

-----------------------------------------------------------------------------
(***************************************************************************)
(* The list of requests: what is written has its place, and a pipelined    *)
(* read is begun before it is finished.                                    *)
(***************************************************************************)
LEMMA EntryIs ==
  ASSUME TypeInv, NEW j \in 1 .. Len(todo)
  PROVE  todo[j] \in Requests /\ todo[j].s \in Slaves
<1>1. todo[j] \in Requests
    BY DEF TypeInv
<1> HIDE DEF Requests
<1>2. \A q \in Requests : q.s \in Slaves
    BY DEF Requests
<1> QED
    BY <1>1, <1>2

(* The list stays, but for the address a dump goes on to.                  *)
LEMMA PipeStays ==
  ASSUME TypeInv, PipeInv, RoomInv, todo # <<>>, todo' \in Seq(Requests), Len(todo') = Len(todo),
         \A k \in 1 .. Len(todo) :
           \/ todo'[k] = todo[k]
           \/ todo[k].op = "dump" /\ todo'[k].op = "dump" /\ todo'[k].s = todo[k].s,
         Clean' => Clean, Clean' => \A s \in Slaves \ {Me} : dev'[s] = dev[s],
         Req.op = "second" /\ Clean' => dev'[Me] = dev[Me]
  PROVE  PipeInv' /\ RoomInv'
<1>0. todo \in Seq(Requests) /\ Len(todo) \in Nat /\ todo[1] = Req
    BY DEF TypeInv, Req
<1>1. \A k \in 1 .. Len(todo) : todo'[k].op = todo[k].op /\ todo'[k].s = todo[k].s
    OBVIOUS
<1>2. RoomInv'
  <2> SUFFICES ASSUME NEW j \in 1 .. Len(todo), todo'[j].op \in {"write", "writeAP"} PROVE Word(todo'[j].a) < Words
      BY DEF RoomInv
  <2>1. todo'[j] = todo[j]
      BY <1>1
  <2> QED
      BY <2>1 DEF RoomInv
<1>3. PipeInv'
  <2> SUFFICES ASSUME NEW j \in 1 .. Len(todo), todo'[j].op = "second"
               PROVE  (ToFirst(j) \/ (Apart(1, j) /\ (Clean => Primed(dev[todo[j].s], Word(todo[j].a)))))'
      BY DEF PipeInv
  <2>1. todo'[j] = todo[j] /\ todo[j].op = "second" /\ todo[j].s \in Slaves
      BY <1>1, EntryIs
  <2>2. CASE ToFirst(j)
    <3>1. PICK i \in 1 .. j - 1 :
            todo[i].op = "first" /\ todo[i].s = todo[j].s /\ todo[i].a = todo[j].a /\ Apart(i + 1, j)
        BY <2>2 DEF ToFirst
    <3>2. i \in 1 .. Len(todo) /\ i + 1 \in 1 .. j
        BY <1>0
    <3>3. todo'[i] = todo[i]
        BY <3>1, <3>2
    <3>4. \A k \in i + 1 .. j - 1 : todo'[k].s # todo'[j].s
        BY <1>0, <1>1, <2>1, <3>1, <3>2 DEF Apart
    <3> QED
        BY <2>1, <3>1, <3>3, <3>4 DEF ToFirst, Apart
  <2>3. CASE Apart(1, j) /\ (Clean => Primed(dev[todo[j].s], Word(todo[j].a)))
    <3>1. \A k \in 1 .. j - 1 : todo'[k].s # todo'[j].s
        BY <1>0, <1>1, <2>1, <2>3 DEF Apart
    <3>2. Clean' => dev'[todo[j].s] = dev[todo[j].s]
      <4>1. CASE j = 1
          BY <1>0, <2>1, <4>1 DEF Me
      <4>2. CASE j # 1
        <5>1. 1 \in 1 .. j - 1
            BY <1>0, <4>2
        <5>2. todo[1].s # todo[j].s
            BY <2>3, <5>1 DEF Apart
        <5> QED
            BY <1>0, <2>1, <5>2 DEF Me
      <4> QED
          BY <4>1, <4>2
    <3> QED
        BY <2>1, <2>3, <3>1, <3>2 DEF Apart
  <2> QED
      BY <2>1, <2>2, <2>3 DEF PipeInv
<1> QED
    BY <1>2, <1>3

(* The request is done, and drops out.                                     *)
LEMMA PipeDropped ==
  ASSUME TypeInv, PipeInv, RoomInv, todo # <<>>, todo' = Tail(todo),
         Clean' => Clean, Clean' => \A s \in Slaves \ {Me} : dev'[s] = dev[s],
         Req.op = "first" /\ Clean' => Primed(dev'[Me], Word(Req.a))
  PROVE  PipeInv' /\ RoomInv'
<1>0. /\ todo \in Seq(Requests) /\ Len(todo) \in Nat /\ Len(todo') = Len(todo) - 1 /\ todo[1] = Req
      /\ \A k \in 1 .. Len(todo') : todo'[k] = todo[k + 1]
    BY DEF TypeInv, Req
<1>1. RoomInv'
  <2> SUFFICES ASSUME NEW j \in 1 .. Len(todo'), todo'[j].op \in {"write", "writeAP"} PROVE Word(todo'[j].a) < Words
      BY DEF RoomInv
  <2>1. PICK n \in 1 .. Len(todo) : n = j + 1
      BY <1>0
  <2>2. todo'[j] = todo[n]
      BY <1>0, <2>1
  <2> QED
      BY <2>2 DEF RoomInv
<1>2. PipeInv'
  <2> SUFFICES ASSUME NEW j \in 1 .. Len(todo'), todo'[j].op = "second"
               PROVE  (ToFirst(j) \/ (Apart(1, j) /\ (Clean => Primed(dev[todo[j].s], Word(todo[j].a)))))'
      BY DEF PipeInv
  <2>1. PICK n \in 2 .. Len(todo) : n = j + 1
      BY <1>0
  <2>2. todo'[j] = todo[n] /\ j = n - 1 /\ n \in 1 .. Len(todo)
      BY <1>0, <2>1
  <2>3. todo[n].op = "second" /\ todo[n].s \in Slaves
      BY <2>2, EntryIs
  <2>4. ASSUME NEW i \in 1 .. j, \A k \in i + 1 .. n - 1 : todo[k].s # todo[n].s
        PROVE  \A k \in i .. j - 1 : todo'[k].s # todo'[j].s
    <3> TAKE k \in i .. j - 1
    <3>1. k + 1 \in i + 1 .. n - 1 /\ k \in 1 .. Len(todo')
        BY <1>0, <2>2
    <3> QED
        BY <1>0, <2>2, <2>4, <3>1
  <2>5. CASE ToFirst(n)
    <3>1. PICK i \in 1 .. n - 1 :
            todo[i].op = "first" /\ todo[i].s = todo[n].s /\ todo[i].a = todo[n].a /\ Apart(i + 1, n)
        BY <2>5 DEF ToFirst
    <3>2. CASE i = 1
      <4>1. Req.op = "first" /\ Me = todo[n].s /\ Req.a = todo[n].a
          BY <1>0, <3>1, <3>2 DEF Me
      <4>2. \A k \in 1 .. j - 1 : todo'[k].s # todo'[j].s
          BY <2>2, <2>4, <3>1, <3>2 DEF Apart
      <4> QED
          BY <2>2, <4>1, <4>2 DEF Apart
    <3>3. CASE i # 1
      <4>1. PICK h \in 1 .. j - 1 : h = i - 1
          BY <2>2, <3>3
      <4>2. h \in 1 .. Len(todo') /\ h + 1 = i /\ h + 1 \in 1 .. j
          BY <1>0, <2>2, <4>1
      <4>3. todo'[h] = todo[i]
          BY <1>0, <4>2
      <4>4. PICK m \in 1 .. j : m = h + 1
          BY <4>2
      <4>5. \A k \in m + 1 .. n - 1 : todo[k].s # todo[n].s
          BY <3>1, <4>2, <4>4 DEF Apart
      <4>6. \A k \in m .. j - 1 : todo'[k].s # todo'[j].s
          BY <2>4, <4>5
      <4>7. Apart(h + 1, j)'
          BY <4>4, <4>6 DEF Apart
      <4> QED
          BY <2>2, <3>1, <4>3, <4>7 DEF ToFirst
    <3> QED
        BY <3>2, <3>3
  <2>6. CASE Apart(1, n) /\ (Clean => Primed(dev[todo[n].s], Word(todo[n].a)))
    <3>1. todo[1].s # todo[n].s
      <4>1. 1 \in 1 .. n - 1
          BY <2>1
      <4> QED
          BY <2>6, <4>1 DEF Apart
    <3>2. Clean' => dev'[todo[n].s] = dev[todo[n].s]
        BY <1>0, <2>3, <3>1 DEF Me
    <3>3. \A k \in 1 + 1 .. n - 1 : todo[k].s # todo[n].s
        BY <2>1, <2>6 DEF Apart
    <3>4. \A k \in 1 .. j - 1 : todo'[k].s # todo'[j].s
        BY <2>2, <2>4, <3>3
    <3> QED
        BY <2>2, <2>6, <3>2, <3>4 DEF Apart
  <2> QED
      BY <2>2, <2>3, <2>5, <2>6 DEF PipeInv
<1> QED
    BY <1>1, <1>2

(* A step in the middle of a transfer: what it has to show.                *)
LEMMA ReadWithin ==
  ASSUME EepromInv, ReadInv, todo # <<>>, UNCHANGED <<rom, todo, esislave, esimap, answers>>,
         Calm' => Calm, Clean' => Clean, Base' => \A s \in Slaves \ {Me} : dev'[s] = dev[s],
         Req.op = "second" => dev' = dev,
         Calm' /\ dev'[Me].busy /\ dev'[Me].kind = "write" => dev'[Me].data = 1
  PROVE  PipeInv' /\ RoomInv' /\ WritingInv' /\ BytesInv' /\ AnswerInv'
<1>0. TypeInv /\ PipeInv /\ RoomInv /\ WritingInv /\ BytesInv /\ AnswerInv
    BY DEF EepromInv, ReadInv
<1>1. todo \in Seq(Requests) /\ todo' = todo /\ (Clean' => Base') /\ (Calm' => Base')
    BY <1>0 DEF TypeInv, Clean, Calm
<1>2. PipeInv' /\ RoomInv'
    BY <1>0, <1>1, PipeStays
<1>3. WritingInv'
    BY <1>0, <1>1 DEF WritingInv, Writing
<1>4. BytesInv'
    BY <1>0 DEF BytesInv
<1>5. Answers' = Answers
    BY DEF Answers
<1>6. AnswerInv'
    BY <1>0, <1>5 DEF AnswerInv
<1> QED
    BY <1>2, <1>3, <1>4, <1>6

-----------------------------------------------------------------------------
(***************************************************************************)
(* The steps of a transfer.                                                *)
(***************************************************************************)
LEMMA TypesHere ==
  ASSUME EepromInv, ControlInv, ReadInv
  PROVE  /\ TypeInv /\ ControlType /\ CountType /\ losses \in Nat /\ fails \in Nat /\ nackcnt \in Nat
         /\ dev \in [Slaves -> Interface] /\ pdi \in [Slaves -> BOOLEAN]
         /\ todo # <<>> => Me \in Slaves /\ Req \in Requests /\ dev[Me] \in Interface
BY RequestIs DEF EepromInv, ControlInv, ReadInv, TypeInv, ControlType, CountType

LEMMA ForceReads ==
  ASSUME EepromInv, ControlInv, ReadInv, TakeByForce \/ Take
  PROVE  ReadInv'
<1>0. /\ TypeInv /\ ControlType /\ CountType /\ OwnInv /\ WritingInv /\ losses \in Nat /\ fails \in Nat /\ todo # <<>>
      /\ dev \in [Slaves -> Interface] /\ pdi \in [Slaves -> BOOLEAN] /\ Me \in Slaves /\ dev[Me] \in Interface
  <2>1. todo # <<>>
      BY DEF EepromInv, PcInv, TakeByForce, Take
  <2> QED
      BY <2>1, TypesHere DEF ReadInv
<1>1. /\ pc \in {"force", "take"} /\ pc' \in {"force", "take", "wait"}
      /\ UNCHANGED <<rom, todo, esislave, esimap, answers, nackcnt, fails, expired>>
      /\ \E w \in Counters : Datagram(ToMaster, w)
      /\ pdi' = (IF Take /\ pc' = "wait" THEN [pdi EXCEPT ![Me] = FALSE] ELSE pdi)
      /\ pc' = "wait" => Take
    BY DEF TakeByForce, Take, Retry, callVars
<1>2. PICK w \in Counters : Datagram(ToMaster, w)
    BY <1>1
<1>3. \A s \in Slaves : ToMaster[s] \in Interface /\ ToMaster[s].here = dev[s].here
    BY <1>0, WrittenAre
<1>4. /\ losses' \in Nat /\ losses' >= losses /\ (Everybody' => Everybody)
      /\ Everybody => (\A s \in Slaves \ {Me} : dev'[s] = dev[s]) /\ dev'[Me] \in {dev[Me], ToMaster[Me]}
    BY <1>0, <1>2, <1>3, DatagramAt
<1>5. (Base' => Base) /\ (Calm' => Calm) /\ (Clean' => Clean)
    BY <1>0, <1>1, <1>4, CalmerBefore
<1>6. Req' = Req /\ Me' = Me /\ (Writes' <=> Writes) /\ (ByPosition' <=> ByPosition)
    BY <1>1 DEF Req, Me, Writes, ByPosition
<1>7. Req.op # "second" /\ Req.op \notin {"enter", "leave"} /\ nackcnt = 0
    BY <1>0, <1>1 DEF OwnInv, EepromInv, PcInv
<1>8. Base' => \A s \in Slaves \ {Me} : dev'[s] = dev[s]
    BY <1>4, <1>5 DEF Base
<1>9. Calm' /\ dev'[Me].busy /\ dev'[Me].kind = "write" => dev'[Me].data = 1
  <2>1. /\ ToMaster[Me].busy = dev[Me].busy /\ ToMaster[Me].kind = dev[Me].kind
        /\ ToMaster[Me].data = dev[Me].data
      BY <1>0 DEF ToMaster, Interface
  <2> QED
      BY <1>0, <1>4, <1>5, <2>1 DEF WritingInv, Writing, Calm, Base
<1>10. PipeInv' /\ RoomInv' /\ WritingInv' /\ BytesInv' /\ AnswerInv'
    BY <1>0, <1>1, <1>5, <1>7, <1>8, <1>9, ReadWithin
<1>11. CountType'
    BY <1>0, <1>1 DEF CountType
<1>12. OwnInv'
  <2>1. pc' = "wait" => ~pdi'[Me]
      BY <1>0, <1>1
  <2> QED
      BY <1>0, <1>1, <1>6, <1>7, <2>1 DEF OwnInv
<1>13. WorkInv' /\ FirstInv' /\ SecondInv'
    BY <1>0, <1>1, <1>6, <1>7 DEF WorkInv, FirstInv, SecondInv
<1> QED
    BY <1>10, <1>11, <1>12, <1>13 DEF ReadInv

LEMMA PollReads ==
  ASSUME EepromInv, ControlInv, ReadInv, waitnotbusyFP \/ waitnotbusyAP
  PROVE  ReadInv'
<1>0. /\ TypeInv /\ ControlType /\ CountType /\ OwnInv /\ WorkInv /\ WritingInv /\ losses \in Nat /\ fails \in Nat
      /\ todo # <<>> /\ pc \in {"wait", "wait2"} /\ Me \in Slaves /\ dev[Me] \in Interface /\ nackcnt \in Nat
  <2>1. todo # <<>> /\ pc \in {"wait", "wait2"}
      BY DEF EepromInv, PcInv, waitnotbusyFP, waitnotbusyAP
  <2> QED
      BY <2>1, TypesHere DEF ReadInv
<1>1. /\ UNCHANGED <<rom, todo, esislave, esimap, answers, nackcnt, fails, pdi, edat>> /\ (expired => expired')
      /\ \E w \in Counters :
           /\ Datagram(dev, w)
           /\ estat' = IF w = 1 THEN Status(Heard) ELSE Blank
           /\ LET waiting == w <= 0 \/ estat'.busy
              IN  \/ /\ ~waiting
                     /\ pc = "wait" => pc' = AfterWait(estat')
                     /\ pc = "wait2" => pc' = AfterWait2(estat')
                  \/ pc' = pc
                  \/ /\ expired'
                     /\ pc = "wait" => pc' \in {"return", AfterWait(estat')}
                     /\ pc = "wait2" => /\ pc' \in {"return", Repeat(nackcnt), AfterWait2(estat')}
                                        /\ Req.op = "second" => pc' \in {"return", AfterWait2(estat')}
  <2>1. CASE waitnotbusyFP
      BY <2>1 DEF waitnotbusyFP, Polled, callVars
  <2>2. CASE waitnotbusyAP
    <3>1. Req.op # "second"
        BY <2>2 DEF waitnotbusyAP, ByPosition
    <3> QED
        BY <2>2, <3>1 DEF waitnotbusyAP, Polled, callVars
  <2> QED
      BY <2>1, <2>2
<1>2. PICK w \in Counters :
           /\ Datagram(dev, w)
           /\ estat' = IF w = 1 THEN Status(Heard) ELSE Blank
           /\ LET waiting == w <= 0 \/ estat'.busy
              IN  \/ /\ ~waiting
                     /\ pc = "wait" => pc' = AfterWait(estat')
                     /\ pc = "wait2" => pc' = AfterWait2(estat')
                  \/ pc' = pc
                  \/ /\ expired'
                     /\ pc = "wait" => pc' \in {"return", AfterWait(estat')}
                     /\ pc = "wait2" => /\ pc' \in {"return", Repeat(nackcnt), AfterWait2(estat')}
                                        /\ Req.op = "second" => pc' \in {"return", AfterWait2(estat')}
    BY <1>1
<1>3. /\ dev' = dev /\ losses' \in Nat /\ losses' >= losses /\ (Everybody' => Everybody)
      /\ Everybody => Heard = Me
    BY <1>0, <1>2, ReadAt
<1>4. (Base' => Base) /\ (Calm' => Calm) /\ (Clean' => Clean)
    BY <1>0, <1>1, <1>3, CalmerBefore
<1>5. Req' = Req /\ Me' = Me /\ (Writes' <=> Writes) /\ (ByPosition' <=> ByPosition)
    BY <1>1 DEF Req, Me, Writes, ByPosition
<1>6. PipeInv' /\ RoomInv' /\ WritingInv' /\ BytesInv' /\ AnswerInv'
  <2>1. Calm' /\ dev'[Me].busy /\ dev'[Me].kind = "write" => dev'[Me].data = 1
      BY <1>0, <1>3, <1>4 DEF WritingInv, Writing
  <2> QED
      BY <1>0, <1>1, <1>3, <1>4, <2>1, ReadWithin
<1>7. CountType'
  <2>1. expired' \in BOOLEAN
      BY <1>0 DEF waitnotbusyFP, waitnotbusyAP, Polled, CountType
  <2> QED
      BY <1>0, <1>1, <2>1 DEF CountType
<1>8. /\ AfterWait(estat') \in {"clear", "data", "command"} /\ (AfterWait(estat') = "data" => Writes)
      /\ AfterWait(estat') = "command" => ~Writes
    BY DEF AfterWait
<1>9. /\ AfterWait2(estat') \in {"refused", "written", "fetch"}
      /\ AfterWait2(estat') = "written" => Writes
      /\ AfterWait2(estat') = "fetch" => ~Writes
      /\ AfterWait2(estat') = "refused" => estat'.nack /\ Req.op # "second"
      /\ estat'.nack /\ Req.op # "second" => AfterWait2(estat') = "refused"
    BY DEF AfterWait2
<1>10. Repeat(nackcnt) \in {"return", "data", "command"} /\ (Repeat(nackcnt) = "data" => Writes)
    BY DEF Repeat
<1>11. Req.op = "second" \/ Req.op = "first" => ~Writes
    BY DEF Writes
<1>12. OwnInv'
  <2>1. pc' \in {"wait", "wait2", "clear", "data", "command", "refused", "written", "fetch", "return"}
      BY <1>0, <1>2, <1>8, <1>9, <1>10
  <2>2. pc' \in {"data", "written"} => Writes
      BY <1>0, <1>2, <1>8, <1>9, <1>10
  <2>3. Req.op = "second" => pc' \in {"wait2", "fetch", "return"}
      BY <1>0, <1>2, <1>8, <1>9, <1>10, <1>11 DEF OwnInv
  <2>4. Req.op = "first" => pc' \in {"wait", "clear", "command", "return"}
      BY <1>0, <1>2, <1>8, <1>9, <1>10, <1>11 DEF OwnInv
  <2>5. pc' = "wait" => nackcnt' = 0
      BY <1>0, <1>1, <2>1, <1>2, <1>8, <1>9, <1>10 DEF OwnInv
  <2> QED
      BY <1>0, <1>1, <1>5, <2>1, <2>2, <2>3, <2>4, <2>5 DEF OwnInv
(* What was seen of a slave that is ready.                                 *)
<1>13. Base' => \/ pc' = pc
                \/ /\ ~dev[Me].busy /\ estat'.nack = dev[Me].nack /\ (estat'.r64 <=> Me \in Long)
                   /\ pc = "wait" => pc' = AfterWait(estat')
                   /\ pc = "wait2" => pc' = AfterWait2(estat')
  <2> SUFFICES ASSUME Base', pc' # pc
               PROVE  /\ ~dev[Me].busy /\ estat'.nack = dev[Me].nack /\ (estat'.r64 <=> Me \in Long)
                      /\ pc = "wait" => pc' = AfterWait(estat')
                      /\ pc = "wait2" => pc' = AfterWait2(estat')
      OBVIOUS
  <2>1. ~expired' /\ Heard = Me
      BY <1>3, <1>4 DEF Base
  <2>2. w = 1 /\ ~estat'.busy /\ (pc = "wait" => pc' = AfterWait(estat')) /\ (pc = "wait2" => pc' = AfterWait2(estat'))
      BY <1>2, <2>1 DEF Counters
  <2>3. estat' = Status(Me)
      BY <1>2, <2>1, <2>2
  <2> QED
      BY <2>2, <2>3 DEF Status
<1>14. WorkInv'
  <2> SUFFICES ASSUME Req.op # "second", Calm', ~dev[Me].pdi
               PROVE  /\ nackcnt <= fails /\ (pc' = "refused" => nackcnt < fails)
                      /\ pc' \in {"clear", "data", "refused", "fetch"} => ~dev[Me].busy
                      /\ pc' = "command" => (dev[Me].busy => Ordering) /\ (Writes => dev[Me].data = 1)
                      /\ pc' = "wait2" =>
                           IF dev[Me].busy THEN Ordering ELSE IF dev[Me].nack THEN nackcnt < fails ELSE Obeyed
                      /\ pc' = "fetch" => Obeyed /\ (estat'.r64 <=> Me \in Long)
                      /\ pc' = "written" => Obeyed
                      /\ pc' # "return"
      BY <1>1, <1>3, <1>5 DEF WorkInv, Ordering, Obeyed
  <2>1. /\ nackcnt <= fails
        /\ pc = "wait2" =>
             IF dev[Me].busy THEN Ordering ELSE IF dev[Me].nack THEN nackcnt < fails ELSE Obeyed
      BY <1>0, <1>4 DEF WorkInv
  <2>2. \/ pc' = pc
        \/ /\ ~dev[Me].busy /\ estat'.nack = dev[Me].nack /\ (estat'.r64 <=> Me \in Long)
           /\ pc = "wait" => pc' = AfterWait(estat')
           /\ pc = "wait2" => pc' = AfterWait2(estat')
      BY <1>13 DEF Calm
  <2> QED
      BY <1>0, <1>8, <1>9, <2>1, <2>2
<1>15. FirstInv' /\ SecondInv'
  <2>1. Clean' => Base'
      BY DEF Clean
  <2>2. FirstInv'
      BY <1>0, <1>5, <1>8, <1>9, <1>13, <2>1 DEF FirstInv, OwnInv
  <2>3. SecondInv'
      BY <1>0, <1>3, <1>5, <1>8, <1>9, <1>13, <2>1 DEF SecondInv, OwnInv
  <2> QED
      BY <2>2, <2>3
<1> QED
    BY <1>6, <1>7, <1>12, <1>14, <1>15 DEF ReadInv

(* What the steps of a transfer write to the slave asked.                  *)
LEMMA WritesTo ==
  ASSUME TypeInv, todo # <<>>
  PROVE  LET d == dev[Me] IN
         /\ \A f \in {NoError[Me], Given[Me]} :
              f.pdi = d.pdi /\ f.busy = d.busy /\ f.kind = d.kind /\ f.pend = d.pend /\ f.reg = d.reg
         /\ NoError[Me].data = d.data /\ Given[Me].data = 1
         /\ LET o == Ordered[Me] IN
            /\ o.pdi = d.pdi /\ o.data = d.data /\ o.reg = d.reg
            /\ d.busy \/ d.pdi => o = d
            /\ ~d.busy /\ ~d.pdi =>
                 o.busy /\ o.pend = Word(Req.a) /\ o.kind = IF Writes THEN "write" ELSE "read"
<1>1. Me \in Slaves
    BY RequestIs
<1>2. dev[Me] \in Interface
    BY <1>1 DEF TypeInv
<1> PICK d \in Interface : d = dev[Me]
    BY <1>2
<1>3. /\ NoError[Me].pdi = d.pdi /\ NoError[Me].busy = d.busy /\ NoError[Me].kind = d.kind
      /\ NoError[Me].pend = d.pend /\ NoError[Me].reg = d.reg /\ NoError[Me].data = d.data
    BY <1>1 DEF NoError, Interface
<1>4. /\ Given[Me].pdi = d.pdi /\ Given[Me].busy = d.busy /\ Given[Me].kind = d.kind
      /\ Given[Me].pend = d.pend /\ Given[Me].reg = d.reg /\ Given[Me].data = 1
    BY <1>1 DEF Given, Interface
<1> DEFINE kind == IF Writes THEN "write" ELSE "read"
           word == Word(Req.a)
<1>5. Ordered[Me] = IF d.busy \/ d.pdi THEN d ELSE [d EXCEPT !.busy = TRUE, !.pend = word, !.kind = kind]
    BY <1>1 DEF Ordered
<1> HIDE DEF kind, word
<1> PICK o : o = Ordered[Me]
    OBVIOUS
<1>6. /\ o.pdi = d.pdi /\ o.data = d.data /\ o.reg = d.reg
      /\ d.busy \/ d.pdi => o = d
      /\ ~d.busy /\ ~d.pdi => o.busy /\ o.pend = word /\ o.kind = kind
    BY <1>5 DEF Interface
<1> QED
    BY <1>3, <1>4, <1>6 DEF kind, word

LEMMA ClearReads ==
  ASSUME EepromInv, ControlInv, ReadInv, Clear
  PROVE  ReadInv'
<1>0. /\ TypeInv /\ ControlType /\ CountType /\ OwnInv /\ WorkInv /\ WritingInv /\ losses \in Nat /\ fails \in Nat
      /\ todo # <<>> /\ pc = "clear" /\ Me \in Slaves /\ dev[Me] \in Interface /\ nackcnt \in Nat
  <2>1. todo # <<>> /\ pc = "clear"
      BY DEF EepromInv, PcInv, Clear
  <2> QED
      BY <2>1, TypesHere DEF ReadInv
<1>1. /\ pc' = (IF Writes THEN "data" ELSE "command")
      /\ UNCHANGED <<rom, todo, esislave, esimap, answers, pdi, nackcnt, fails, expired>>
      /\ \E w \in Counters : Datagram(NoError, w)
    BY DEF Clear, callVars
<1>2. PICK w \in Counters : Datagram(NoError, w)
    BY <1>1
<1>3. \A s \in Slaves : NoError[s] \in Interface /\ NoError[s].here = dev[s].here
    BY <1>0, WrittenAre
<1>4. /\ losses' \in Nat /\ losses' >= losses /\ (Everybody' => Everybody)
      /\ Everybody => (\A s \in Slaves \ {Me} : dev'[s] = dev[s]) /\ dev'[Me] \in {dev[Me], NoError[Me]}
    BY <1>0, <1>2, <1>3, DatagramAt
<1>5. (Base' => Base) /\ (Calm' => Calm) /\ (Clean' => Clean)
    BY <1>0, <1>1, <1>4, CalmerBefore
<1>6. Req' = Req /\ Me' = Me /\ (Writes' <=> Writes) /\ (ByPosition' <=> ByPosition)
    BY <1>1 DEF Req, Me, Writes, ByPosition
<1>7. Req.op # "second" /\ (Req.op = "first" => ~Writes)
    BY <1>0 DEF OwnInv, Writes
<1>8. Base' => /\ \A s \in Slaves \ {Me} : dev'[s] = dev[s]
               /\ dev'[Me].pdi = dev[Me].pdi /\ dev'[Me].busy = dev[Me].busy
               /\ dev'[Me].kind = dev[Me].kind /\ dev'[Me].data = dev[Me].data
    BY <1>0, <1>4, <1>5, WritesTo DEF Base
<1>9. Calm' => Base'
    BY DEF Calm
<1>10. Calm' /\ dev'[Me].busy /\ dev'[Me].kind = "write" => dev'[Me].data = 1
    BY <1>0, <1>5, <1>8, <1>9 DEF WritingInv, Writing
<1>11. PipeInv' /\ RoomInv' /\ WritingInv' /\ BytesInv' /\ AnswerInv'
    BY <1>0, <1>1, <1>5, <1>7, <1>8, <1>10, ReadWithin
<1>12. CountType'
    BY <1>0, <1>1 DEF CountType
<1>13. OwnInv'
    BY <1>0, <1>1, <1>6, <1>7 DEF OwnInv
<1>14. WorkInv'
  <2> SUFFICES ASSUME Calm', ~dev'[Me].pdi
               PROVE  nackcnt <= fails /\ ~dev'[Me].busy
      BY <1>1, <1>6 DEF WorkInv
  <2> QED
      BY <1>0, <1>5, <1>7, <1>8, <1>9 DEF WorkInv
<1>15. FirstInv' /\ SecondInv'
    BY <1>1, <1>6, <1>7 DEF FirstInv, SecondInv
<1> QED
    BY <1>11, <1>12, <1>13, <1>14, <1>15 DEF ReadInv

LEMMA DataReads ==
  ASSUME EepromInv, ControlInv, ReadInv, WriteData
  PROVE  ReadInv'
<1>0. /\ TypeInv /\ ControlType /\ CountType /\ OwnInv /\ WorkInv /\ WritingInv /\ losses \in Nat /\ fails \in Nat
      /\ todo # <<>> /\ pc = "data" /\ Me \in Slaves /\ dev[Me] \in Interface /\ nackcnt \in Nat
  <2>1. todo # <<>> /\ pc = "data"
      BY DEF EepromInv, PcInv, WriteData
  <2> QED
      BY <2>1, TypesHere DEF ReadInv
<1>1. /\ UNCHANGED <<rom, todo, esislave, esimap, answers, pdi, nackcnt, fails, expired>>
      /\ \E w \in Counters : Datagram(Given, w) /\ pc' = (IF Again(w) THEN "data" ELSE "command")
    BY <1>0 DEF WriteData, callVars, Retry
<1>2. PICK w \in Counters : Datagram(Given, w) /\ pc' = (IF Again(w) THEN "data" ELSE "command")
    BY <1>1
<1>3. \A s \in Slaves : Given[s] \in Interface /\ Given[s].here = dev[s].here
    BY <1>0, WrittenAre
<1>4. /\ losses' \in Nat /\ losses' >= losses /\ (Everybody' => Everybody) /\ (w = -1 => losses' = losses + 1)
      /\ Everybody => /\ w # 0 /\ (\A s \in Slaves \ {Me} : dev'[s] = dev[s]) /\ dev'[Me] \in {dev[Me], Given[Me]}
                      /\ w = 1 => dev'[Me] = Given[Me]
    BY <1>0, <1>2, <1>3, DatagramAt
<1>5. (Base' => Base) /\ (Calm' => Calm) /\ (Clean' => Clean)
    BY <1>0, <1>1, <1>4, CalmerBefore
<1>6. Req' = Req /\ Me' = Me /\ (Writes' <=> Writes) /\ (ByPosition' <=> ByPosition)
    BY <1>1 DEF Req, Me, Writes, ByPosition
<1>7. Writes /\ Req.op \notin {"first", "second"}
    BY <1>0 DEF OwnInv, Writes
<1>8. Base' => /\ \A s \in Slaves \ {Me} : dev'[s] = dev[s]
               /\ dev'[Me].pdi = dev[Me].pdi /\ dev'[Me].busy = dev[Me].busy
               /\ dev'[Me].kind = dev[Me].kind /\ dev'[Me].data \in {dev[Me].data, 1}
    BY <1>0, <1>4, <1>5, WritesTo DEF Base
<1>9. Calm' => Base'
    BY DEF Calm
<1>10. Calm' /\ dev'[Me].busy /\ dev'[Me].kind = "write" => dev'[Me].data = 1
    BY <1>0, <1>5, <1>8, <1>9 DEF WritingInv, Writing
<1>11. PipeInv' /\ RoomInv' /\ WritingInv' /\ BytesInv' /\ AnswerInv'
    BY <1>0, <1>1, <1>5, <1>7, <1>8, <1>10, ReadWithin
<1>12. CountType'
    BY <1>0, <1>1 DEF CountType
<1>13. OwnInv'
    BY <1>0, <1>1, <1>6, <1>7 DEF OwnInv
<1>14. Base' /\ pc' = "command" => dev'[Me].data = 1
  <2> SUFFICES ASSUME Base', pc' = "command" PROVE dev'[Me].data = 1
      OBVIOUS
  <2>1. w = 1
      BY <1>2, <1>4, LoopEnds
  <2> QED
      BY <1>0, <1>4, <1>5, <2>1, WritesTo DEF Base
<1>15. WorkInv'
  <2> SUFFICES ASSUME Calm', ~dev'[Me].pdi
               PROVE  nackcnt <= fails /\ ~dev'[Me].busy /\ (pc' = "command" => dev'[Me].data = 1)
      BY <1>1, <1>6 DEF WorkInv
  <2> QED
      BY <1>0, <1>5, <1>7, <1>8, <1>9, <1>14 DEF WorkInv
<1>16. FirstInv' /\ SecondInv'
    BY <1>1, <1>6, <1>7 DEF FirstInv, SecondInv
<1> QED
    BY <1>11, <1>12, <1>13, <1>15, <1>16 DEF ReadInv

LEMMA CommandReads ==
  ASSUME EepromInv, ControlInv, ReadInv, Command
  PROVE  ReadInv'
<1>0. /\ TypeInv /\ ControlType /\ CountType /\ OwnInv /\ WorkInv /\ WritingInv /\ losses \in Nat /\ fails \in Nat
      /\ todo # <<>> /\ pc = "command" /\ Me \in Slaves /\ dev[Me] \in Interface /\ nackcnt \in Nat
  <2>1. todo # <<>> /\ pc = "command"
      BY DEF EepromInv, PcInv, Command
  <2> QED
      BY <2>1, TypesHere DEF ReadInv
<1>1. /\ UNCHANGED <<rom, todo, esislave, esimap, answers, pdi, nackcnt, fails, expired>>
      /\ \E w \in Counters : Datagram(Ordered, w) /\ pc' = (IF Again(w) THEN "command" ELSE Issued(w))
    BY <1>0 DEF Command, callVars, Retry
<1>2. PICK w \in Counters : Datagram(Ordered, w) /\ pc' = (IF Again(w) THEN "command" ELSE Issued(w))
    BY <1>1
<1>3. \A s \in Slaves : Ordered[s] \in Interface /\ Ordered[s].here = dev[s].here
    BY <1>0, WrittenAre
<1>4. /\ losses' \in Nat /\ losses' >= losses /\ (Everybody' => Everybody) /\ (w = -1 => losses' = losses + 1)
      /\ Everybody => /\ w # 0 /\ (\A s \in Slaves \ {Me} : dev'[s] = dev[s]) /\ dev'[Me] \in {dev[Me], Ordered[Me]}
                      /\ w = 1 => dev'[Me] = Ordered[Me]
    BY <1>0, <1>2, <1>3, DatagramAt
<1>5. (Base' => Base) /\ (Calm' => Calm) /\ (Clean' => Clean) /\ (Calm' => Base')
    BY <1>0, <1>1, <1>4, CalmerBefore DEF Calm
<1>6. Req' = Req /\ Me' = Me /\ (Writes' <=> Writes) /\ (ByPosition' <=> ByPosition)
    BY <1>1 DEF Req, Me, Writes, ByPosition
<1>7. Req.op # "second" /\ (Req.op = "first" => ~Writes /\ ~ByPosition)
    BY <1>0 DEF OwnInv, Writes, ByPosition
<1>8. Base' => /\ \A s \in Slaves \ {Me} : dev'[s] = dev[s]
               /\ dev'[Me].pdi = dev[Me].pdi /\ dev'[Me].data = dev[Me].data
               /\ dev[Me].pdi => dev'[Me] = dev[Me]
               /\ dev[Me].busy => dev'[Me] = dev[Me]
               /\ ~dev[Me].busy /\ dev'[Me].busy =>
                    dev'[Me].pend = Word(Req.a) /\ dev'[Me].kind = IF Writes THEN "write" ELSE "read"
    BY <1>0, <1>4, <1>5, WritesTo DEF Base
<1>9. Calm' /\ ~dev[Me].pdi =>
        /\ nackcnt <= fails /\ (Writes => dev'[Me].data = 1)
        /\ dev'[Me].busy => dev'[Me].pend = Word(Req.a) /\ dev'[Me].kind = IF Writes THEN "write" ELSE "read"
    BY <1>0, <1>5, <1>7, <1>8 DEF WorkInv, Ordering
<1>10. Calm' /\ dev'[Me].busy /\ dev'[Me].kind = "write" => dev'[Me].data = 1
  <2>1. CASE dev[Me].pdi
      BY <1>0, <1>5, <1>8, <2>1 DEF WritingInv, Writing
  <2>2. CASE ~dev[Me].pdi
      BY <1>9, <2>2
  <2> QED
      BY <2>1, <2>2
<1>11. PipeInv' /\ RoomInv' /\ WritingInv' /\ BytesInv' /\ AnswerInv'
    BY <1>0, <1>1, <1>5, <1>7, <1>8, <1>10, ReadWithin
<1>12. CountType'
    BY <1>0, <1>1 DEF CountType
<1>13. /\ pc' \in {"command", "return", "wait2", "data"} /\ (pc' = "data" => Writes)
       /\ Req.op = "first" => pc' \in {"command", "return"}
  <2>1. Repeat(nackcnt) \in {"return", "data", "command"} /\ (Repeat(nackcnt) = "data" => Writes)
      BY DEF Repeat
  <2> QED
      BY <1>2, <2>1 DEF Issued
<1>14. OwnInv'
    BY <1>0, <1>1, <1>6, <1>7, <1>13 DEF OwnInv
<1>15. Base' /\ ~Again(w) => /\ ~dev[Me].pdi => dev'[Me].busy
                             /\ pc' = IF Req.op = "first" THEN "return" ELSE "wait2"
  <2> SUFFICES ASSUME Base', ~Again(w)
               PROVE  /\ ~dev[Me].pdi => dev'[Me].busy
                      /\ pc' = IF Req.op = "first" THEN "return" ELSE "wait2"
      OBVIOUS
  <2>1. w = 1
      BY <1>4, LoopEnds
  <2>2. dev'[Me] = Ordered[Me]
      BY <1>4, <1>5, <2>1 DEF Base
  <2>3. ~dev[Me].pdi => Ordered[Me].busy
      BY <1>0, WritesTo
  <2> QED
      BY <1>2, <2>1, <2>2, <2>3 DEF Issued
<1>16. Base' => pc' \in {"command", "wait2"} \/ (pc' = "return" /\ Req.op = "first")
    BY <1>2, <1>15
<1>17. WorkInv'
  <2> SUFFICES ASSUME Calm', ~dev'[Me].pdi
               PROVE  /\ nackcnt <= fails
                      /\ pc' = "command" => /\ Writes => dev'[Me].data = 1
                                            /\ dev'[Me].busy => /\ dev'[Me].pend = Word(Req.a)
                                                                /\ dev'[Me].kind = IF Writes THEN "write" ELSE "read"
                      /\ pc' = "wait2" => /\ dev'[Me].busy /\ dev'[Me].pend = Word(Req.a)
                                          /\ dev'[Me].kind = IF Writes THEN "write" ELSE "read"
      BY <1>1, <1>5, <1>6, <1>16 DEF WorkInv, Ordering
  <2>1. ~dev[Me].pdi
      BY <1>5, <1>8
  <2>2. pc' = "wait2" => dev'[Me].busy
      BY <1>2, <1>5, <1>15, <2>1
  <2> QED
      BY <1>9, <2>1, <2>2
<1>18. FirstInv'
  <2> SUFFICES ASSUME pc' = "return", Req.op = "first", Clean' PROVE Primed(dev'[Me], Word(Req.a))
      BY <1>6 DEF FirstInv
  <2>1. Base' /\ Calm' /\ Base
      BY <1>5 DEF Clean, Calm
  <2>2. ~dev[Me].pdi
      BY <1>0, <1>7, <2>1, OwnEeprom
  <2>3. dev'[Me].busy
      BY <1>2, <1>15, <2>1, <2>2
  <2> QED
      BY <1>7, <1>9, <2>1, <2>2, <2>3 DEF Primed
<1>19. SecondInv'
    BY <1>6, <1>7 DEF SecondInv
<1> QED
    BY <1>11, <1>12, <1>14, <1>17, <1>18, <1>19 DEF ReadInv

(* The steps that leave the slaves alone.                                  *)
LEMMA RestReads ==
  ASSUME EepromInv, ControlInv, ReadInv, Refused \/ Fetch \/ Written
  PROVE  ReadInv'
<1>0. /\ TypeInv /\ ControlType /\ CountType /\ OwnInv /\ WorkInv /\ SecondInv /\ PipeInv /\ WritingInv
      /\ losses \in Nat /\ fails \in Nat
      /\ todo # <<>> /\ pc \in {"refused", "fetch", "written"} /\ Me \in Slaves /\ dev[Me] \in Interface /\ nackcnt \in Nat
      /\ pc = "fetch" => ~Writes
  <2>1. todo # <<>> /\ pc \in {"refused", "fetch", "written"} /\ (pc = "fetch" => ~Writes)
      BY DEF EepromInv, PcInv, Refused, Fetch, Written
  <2> QED
      BY <2>1, TypesHere DEF ReadInv
<1>1. /\ UNCHANGED <<rom, todo, esislave, esimap, answers, pdi, fails, expired, estat>>
      /\ dev' = dev /\ losses' \in Nat /\ losses' >= losses /\ (Everybody' => Everybody)
  <2>1. UNCHANGED <<rom, todo, esislave, esimap, answers, pdi, fails, expired, estat>>
      BY DEF Refused, Fetch, Written, callVars, slaveVars
  <2>2. CASE Fetch
    <3>1. PICK w \in Counters : Datagram(dev, w)
        BY <2>2 DEF Fetch
    <3> QED
        BY <1>0, <2>1, <3>1, ReadAt
  <2>3. CASE Refused \/ Written
      BY <1>0, <2>1, <2>3 DEF Refused, Written, slaveVars, Everybody
  <2> QED
      BY <2>2, <2>3
<1>2. (Base' => Base) /\ (Calm' => Calm) /\ (Clean' => Clean) /\ (Calm' => Base') /\ (Clean' => Base')
    BY <1>0, <1>1, CalmerBefore DEF Calm, Clean
<1>3. Req' = Req /\ Me' = Me /\ (Writes' <=> Writes) /\ (ByPosition' <=> ByPosition)
    BY <1>1 DEF Req, Me, Writes, ByPosition
<1>4. PipeInv' /\ RoomInv' /\ WritingInv' /\ BytesInv' /\ AnswerInv'
  <2>1. Calm' /\ dev'[Me].busy /\ dev'[Me].kind = "write" => dev'[Me].data = 1
      BY <1>0, <1>1, <1>2 DEF WritingInv, Writing
  <2> QED
      BY <1>0, <1>1, <1>2, <2>1, ReadWithin
<1>5. pc # "fetch" => Req.op # "second" /\ Req.op # "first"
    BY <1>0 DEF OwnInv
<1>6. CASE Refused
  <2>1. pc = "refused" /\ nackcnt' = nackcnt + 1 /\ pc' = Repeat(nackcnt + 1)
      BY <1>6 DEF Refused
  <2>2. pc' \in {"return", "data", "command"} /\ (pc' = "data" => Writes)
      BY <2>1 DEF Repeat
  <2>3. CountType'
      BY <1>0, <1>1, <2>1 DEF CountType
  <2>4. OwnInv'
      BY <1>0, <1>1, <1>3, <1>5, <2>1, <2>2 DEF OwnInv
  <2>5. WorkInv'
    <3> SUFFICES ASSUME Calm', ~dev[Me].pdi
                 PROVE  nackcnt' <= fails /\ ~dev[Me].busy /\ pc' # "return" /\ (pc' = "command" => ~Writes)
        BY <1>1, <1>3, <2>2 DEF WorkInv
    <3>1. nackcnt < fails /\ ~dev[Me].busy
        BY <1>0, <1>2, <1>5, <2>1 DEF WorkInv
    <3>2. fails < MaxNack /\ MaxNack \in Nat
        BY <1>0, <1>2, <3>1, EepromAssumption DEF Calm, EepromAssumption
    <3>3. nackcnt + 1 > 0 /\ nackcnt + 1 < MaxNack
        BY <1>0, <3>1, <3>2
    <3>4. pc' = IF Writes THEN "data" ELSE "command"
        BY <2>1, <3>3 DEF Repeat
    <3> QED
        BY <1>0, <2>1, <3>1, <3>4
  <2>6. FirstInv' /\ SecondInv'
      BY <1>3, <1>5, <2>1 DEF FirstInv, SecondInv
  <2> QED
      BY <1>4, <2>3, <2>4, <2>5, <2>6 DEF ReadInv
<1>7. CASE Written
  <2>1. pc = "written" /\ nackcnt' = 0 /\ pc' = "return" /\ edat' = [of |-> Me, from |-> Word(Req.a), width |-> 0]
      BY <1>7 DEF Written
  <2>2. CountType'
      BY <1>0, <1>1, <2>1 DEF CountType
  <2>3. OwnInv'
      BY <1>0, <1>1, <1>3, <1>5, <2>1 DEF OwnInv
  <2>4. Writes /\ edat'.of = Me /\ edat'.from = Word(Req.a)
      BY <1>0, <2>1 DEF OwnInv
  <2>5. WorkInv'
    <3> SUFFICES ASSUME Calm', ~dev[Me].pdi PROVE 0 <= fails /\ Obeyed
        BY <1>1, <1>3, <2>1, <2>4 DEF WorkInv, Right, Obeyed
    <3> QED
        BY <1>0, <1>2, <1>5, <2>1 DEF WorkInv
  <2>6. FirstInv' /\ SecondInv'
      BY <1>3, <1>5, <2>1 DEF FirstInv, SecondInv
  <2> QED
      BY <1>4, <2>2, <2>3, <2>5, <2>6 DEF ReadInv
<1>8. CASE Fetch
  <2>1. PICK w \in Counters :
          /\ Datagram(dev, w)
          /\ edat' = (IF w = 1 THEN [of |-> Heard, from |-> dev[Heard].reg, width |-> Answered] ELSE edat)
          /\ pc' = (IF Again(w) THEN "fetch" ELSE "return") /\ nackcnt' = 0 /\ pc = "fetch"
      BY <1>8 DEF Fetch
  <2>2. /\ (w = -1 => losses' = losses + 1)
        /\ Everybody => w # 0 /\ Heard = Me
      BY <1>0, <2>1, ReadAt
  <2>3. CountType'
      BY <1>0, <1>1, <2>1 DEF CountType
  <2>4. OwnInv'
      BY <1>0, <1>1, <1>3, <2>1 DEF OwnInv
  <2>5. Base' /\ pc' # "fetch" =>
          edat'.of = Me /\ edat'.from = dev[Me].reg /\ edat'.width = Answered
    <3> SUFFICES ASSUME Base', pc' # "fetch"
                 PROVE  edat'.of = Me /\ edat'.from = dev[Me].reg /\ edat'.width = Answered
        OBVIOUS
    <3>1. w = 1 /\ Heard = Me
        BY <1>1, <1>2, <2>1, <2>2, LoopEnds DEF Base
    <3> QED
        BY <2>1, <3>1
  <2>6. WorkInv'
    <3> SUFFICES ASSUME Req.op # "second", Calm', ~dev[Me].pdi
                 PROVE  /\ 0 <= fails
                        /\ pc' = "fetch" => ~dev[Me].busy /\ Obeyed /\ (estat.r64 <=> Me \in Long)
                        /\ pc' = "return" => edat'.of = Me /\ edat'.from = Word(Req.a) /\ edat'.width = Width(Me)
        BY <1>0, <1>1, <1>3, <2>1 DEF WorkInv, Right, Obeyed, Width
    <3>1. ~dev[Me].busy /\ Obeyed /\ (estat.r64 <=> Me \in Long)
        BY <1>0, <1>2, <2>1 DEF WorkInv
    <3>2. Answered = Width(Me) /\ dev[Me].reg = Word(Req.a)
        BY <1>0, <2>1, <3>1 DEF Answered, Width, Obeyed
    <3> QED
        BY <1>0, <1>2, <2>1, <2>5, <3>1, <3>2
  <2>7. FirstInv'
    <3>1. Req.op # "first"
        BY <1>0, <2>1 DEF OwnInv
    <3> QED
        BY <1>3, <3>1 DEF FirstInv
  <2>8. SecondInv'
    <3> SUFFICES ASSUME Req.op = "second", Clean'
                 PROVE  ~dev[Me].busy /\ (pc' = "return" => edat'.of = Me /\ edat'.from = Word(Req.a) /\ edat'.width = 2)
        BY <1>1, <1>3 DEF SecondInv, Right
    <3>1. ~dev[Me].busy
        BY <1>0, <1>2, <2>1 DEF SecondInv
    <3>2. Primed(dev[Me], Word(Req.a))
      <4>1. 1 \in 1 .. Len(todo) /\ todo[1] = Req
          BY <1>0 DEF TypeInv, Req
      <4>2. ~ToFirst(1)
          BY DEF ToFirst
      <4> QED
          BY <1>0, <1>2, <4>1, <4>2 DEF PipeInv, Me
    <3>3. dev[Me].reg = Word(Req.a) /\ Answered = 2
        BY <3>1, <3>2 DEF Primed, Answered
    <3> QED
        BY <1>2, <2>1, <2>5, <3>1, <3>3
  <2> QED
      BY <1>4, <2>3, <2>4, <2>6, <2>7, <2>8 DEF ReadInv
<1> QED
    BY <1>6, <1>7, <1>8

-----------------------------------------------------------------------------
(***************************************************************************)
(* The ends of a request.                                                  *)
(***************************************************************************)
LEMMA GotRight ==
  ASSUME EepromInv, ControlInv, ReadInv, pc = "return"
  PROVE  /\ Calm /\ (Req.op \in {"byte", "dump"} \/ (Req.op = "readAP" /\ ~pdi[Me])) => Got = <<Me, Word(Req.a)>>
         /\ Clean /\ Req.op = "second" => Got = <<Me, Word(Req.a)>>
         /\ Calm /\ (Req.op = "write" \/ (Req.op = "writeAP" /\ ~pdi[Me])) =>
              Got[2] = Word(Req.a) /\ Word(Req.a) < Words /\ rom[Me][Word(Req.a)] = 1
         /\ Calm /\ Req.op = "byte" =>
              \A b \in DOMAIN Cached(Req.a) : b \in Int /\ Cached(Req.a)[b] = <<Me, Word(b)>>
<1>0. /\ TypeInv /\ OwnInv /\ WorkInv /\ SecondInv /\ RoomInv /\ todo # <<>> /\ Me \in Slaves /\ Req \in Requests
      /\ edat \in Data
  <2>1. todo # <<>> /\ edat \in Data
      BY DEF EepromInv, PcInv, TypeInv
  <2> QED
      BY <2>1, TypesHere DEF ReadInv
<1>1. Req.a \in Nat /\ edat.from \in Int /\ edat.width \in Nat /\ Word(Req.a) \in Nat
    BY <1>0 DEF Requests, Data, Word
<1>2. Calm => Base
    BY DEF Calm
<1>3. Calm /\ ~ByPosition /\ Req.op \notin {"first", "second"} => Right /\ IF Writes THEN Obeyed ELSE edat.width = Width(Me)
  <2> SUFFICES ASSUME Calm, ~ByPosition, Req.op \notin {"first", "second"}
               PROVE  Right /\ IF Writes THEN Obeyed ELSE edat.width = Width(Me)
      OBVIOUS
  <2>1. ~dev[Me].pdi
      BY <1>0, <1>2, OwnEeprom
  <2> QED
      BY <1>0, <2>1 DEF WorkInv
<1>4. Calm /\ ByPosition /\ ~pdi[Me] => Right /\ IF Writes THEN Obeyed ELSE edat.width = Width(Me)
  <2> SUFFICES ASSUME Calm, ByPosition, ~pdi[Me]
               PROVE  Right /\ IF Writes THEN Obeyed ELSE edat.width = Width(Me)
      OBVIOUS
  <2>1. Req.op \notin {"first", "second"}
      BY DEF ByPosition
  <2>2. ~dev[Me].pdi
      BY <1>0, <1>2, <2>1, OwnEeprom
  <2> QED
      BY <1>0, <2>1, <2>2 DEF WorkInv
<1>5. Width(Me) \in {2, 4}
    BY DEF Width
<1>6. ASSUME Right, NEW k \in Nat, k < edat.width PROVE Value(k) = <<Me, Word(Req.a) + k>>
    BY <1>6 DEF Value, Right
<1>7. Right /\ edat.width > 0 => Value(0) = <<Me, Word(Req.a)>>
  <2>1. Word(Req.a) + 0 = Word(Req.a)
      BY <1>1
  <2> QED
      BY <1>1, <1>6, <2>1
<1>8. Req.op \in {"second", "readAP", "dump"} => Got = Value(0)
  <2> SUFFICES ASSUME Req.op \in {"second", "readAP", "dump"} PROVE Got = Value(0)
      OBVIOUS
  <2>1. Req.op # "byte" /\ ~Writes /\ Req.op # "first"
      BY DEF Writes
  <2> QED
      BY <2>1, Zenon DEF Got
<1>9. Calm /\ Req.op = "byte" =>
        /\ Req.a \in DOMAIN Cached(Req.a)
        /\ \A b \in DOMAIN Cached(Req.a) : b \in Int /\ Cached(Req.a)[b] = <<Me, Word(b)>>
  <2> SUFFICES ASSUME Calm, Req.op = "byte"
               PROVE  /\ Req.a \in DOMAIN Cached(Req.a)
                      /\ \A b \in DOMAIN Cached(Req.a) : b \in Int /\ Cached(Req.a)[b] = <<Me, Word(b)>>
      OBVIOUS
  <2>0. Right /\ edat.width = Width(Me)
      BY <1>3 DEF ByPosition, Writes
  <2> DEFINE x == Word(Req.a)
             e == Width(Me)
  <2>1. Cached(Req.a) = [b \in 2 * x .. 2 * (x + e) - 1 |-> Value(Word(b) - x)]
      BY DEF Cached
  <2>2. x \in Nat /\ e \in {2, 4} /\ 2 * x <= Req.a /\ Req.a <= 2 * x + 1
      BY <1>1, <1>5 DEF Word
  <2>3. \A b \in 2 * x .. 2 * (x + e) - 1 : Word(b) - x \in 0 .. e - 1 /\ Word(b) \in Int
    <3> HIDE DEF x, e
    <3> QED
        BY <2>2 DEF Word
  <2>4. \A k \in 0 .. e - 1 : Value(k) = <<Me, x + k>>
      BY <1>5, <1>6, <2>0
  <2> HIDE DEF x, e
  <2>5. Req.a \in 2 * x .. 2 * (x + e) - 1
      BY <1>1, <2>2
  <2>6. ASSUME NEW b \in 2 * x .. 2 * (x + e) - 1 PROVE b \in Int /\ Cached(Req.a)[b] = <<Me, Word(b)>>
    <3> PICK k \in 0 .. e - 1 : k = Word(b) - x
        BY <2>3
    <3>1. x + k = Word(b)
        BY <2>2, <2>3
    <3>2. Cached(Req.a)[b] = Value(k)
        BY <2>1
    <3>3. b \in Int
        BY <2>2
    <3> QED
        BY <2>4, <3>1, <3>2, <3>3
  <2> QED
      BY <2>1, <2>5, <2>6
<1>10. Req.op = "byte" => Got = Cached(Req.a)[Req.a]
  <2> SUFFICES ASSUME Req.op = "byte" PROVE Got = Cached(Req.a)[Req.a]
      OBVIOUS
  <2>1. Req.op \notin {"second", "readAP", "dump"} /\ ~Writes /\ Req.op # "first"
      BY DEF Writes
  <2> QED
      BY <2>1, Zenon DEF Got
<1>11. Writes => Got = <<edat.of, edat.from>>
  <2> SUFFICES ASSUME Writes PROVE Got = <<edat.of, edat.from>>
      OBVIOUS
  <2>1. Req.op \notin {"second", "readAP", "dump"} /\ Req.op # "byte" /\ Req.op # "first"
      BY DEF Writes
  <2> QED
      BY <2>1, Zenon DEF Got
<1>12. Calm /\ (Req.op = "write" \/ (Req.op = "writeAP" /\ ~pdi[Me])) =>
         Got[2] = Word(Req.a) /\ Word(Req.a) < Words /\ rom[Me][Word(Req.a)] = 1
  <2> SUFFICES ASSUME Calm, Req.op = "write" \/ (Req.op = "writeAP" /\ ~pdi[Me])
               PROVE  Got[2] = Word(Req.a) /\ Word(Req.a) < Words /\ rom[Me][Word(Req.a)] = 1
      OBVIOUS
  <2>1. Writes /\ Right /\ Obeyed
    <3>1. CASE Req.op = "write"
        BY <1>3, <3>1 DEF Writes, ByPosition
    <3>2. CASE Req.op = "writeAP" /\ ~pdi[Me]
        BY <1>4, <3>2 DEF Writes, ByPosition
    <3> QED
        BY <3>1, <3>2
  <2>2. 1 \in 1 .. Len(todo) /\ todo[1] = Req
      BY <1>0 DEF TypeInv, Req
  <2>3. Word(Req.a) < Words
      BY <1>0, <2>2 DEF RoomInv
  <2> QED
      BY <1>11, <2>1, <2>3 DEF Right, Obeyed
<1>13. Calm /\ (Req.op = "dump" \/ (Req.op = "readAP" /\ ~pdi[Me])) => Got = <<Me, Word(Req.a)>>
  <2> SUFFICES ASSUME Calm, Req.op = "dump" \/ (Req.op = "readAP" /\ ~pdi[Me]) PROVE Got = <<Me, Word(Req.a)>>
      OBVIOUS
  <2>1. Right /\ edat.width = Width(Me)
    <3>1. CASE Req.op = "dump"
        BY <1>3, <3>1 DEF Writes, ByPosition
    <3>2. CASE Req.op = "readAP" /\ ~pdi[Me]
        BY <1>4, <3>2 DEF Writes, ByPosition
    <3> QED
        BY <3>1, <3>2
  <2> QED
      BY <1>5, <1>7, <1>8, <2>1
<1>14. Clean /\ Req.op = "second" => Got = <<Me, Word(Req.a)>>
    BY <1>0, <1>7, <1>8 DEF SecondInv
<1> QED
    BY <1>9, <1>10, <1>12, <1>13, <1>14

(* The answer joins those before it.                                       *)
LEMMA AnswerJoins ==
  ASSUME EepromInv, ControlInv, ReadInv, pc = "return", UNCHANGED <<rom, dev, losses, fails, expired>>,
         answers' = <<[req |-> Req, val |-> Got, mine |-> ~pdi[Me]]>> \o answers
  PROVE  AnswerInv'
<1>0. TypeInv /\ AnswerInv /\ todo # <<>> /\ Req \in Requests /\ Me \in Slaves /\ AnswersInv
    BY RequestIs DEF EepromInv, PcInv, ReadInv
<1>1. Got \in Values /\ OfOne(Req, Got[1])
    BY GotIs DEF EepromInv
<1>2. PICK r : r = [req |-> Req, val |-> Got, mine |-> ~pdi[Me]]
    OBVIOUS
<1>3. r \in Results /\ r.req = Req /\ r.val = Got /\ (r.mine <=> ~pdi[Me]) /\ OfOne(r.req, r.val[1])
    BY <1>0, <1>1, <1>2 DEF Results
<1>4. Answers' = Answers \cup {r}
    BY <1>0, <1>2, <1>3, AnswerAdded
<1>5. (Base' <=> Base) /\ (Calm' <=> Calm) /\ (Clean' <=> Clean)
    BY DEF Base, Calm, Clean, Everybody
<1>6. /\ Calm /\ (r.req.op \in {"byte", "dump"} \/ (r.req.op = "readAP" /\ r.mine)) => Good(r)
      /\ Clean /\ r.req.op = "second" => Good(r)
      /\ Calm /\ (r.req.op = "write" \/ (r.req.op = "writeAP" /\ r.mine)) =>
           /\ r.val[2] = Word(r.req.a) /\ Word(r.req.a) < Words
           /\ rom[r.req.s][Word(r.req.a)] = 1
    BY <1>3, GotRight DEF Good, Me
<1> QED
    BY <1>0, <1>4, <1>5, <1>6 DEF AnswerInv, Good

LEMMA ReturnReads ==
  ASSUME EepromInv, ControlInv, ReadInv, Return
  PROVE  ReadInv'
<1>0. /\ TypeInv /\ ControlType /\ CountType /\ WritingInv /\ BytesInv /\ FirstInv /\ PipeInv /\ RoomInv
      /\ todo # <<>> /\ pc = "return" /\ Me \in Slaves /\ PcInv
  <2>1. todo # <<>> /\ pc = "return"
      BY DEF EepromInv, PcInv, Return
  <2> QED
      BY <2>1, TypesHere DEF ReadInv, EepromInv
<1>1. /\ pc' = "call" /\ todo' = Tail(todo)
      /\ esimap' = IF Req.op = "byte" THEN Overlay(Cached(Req.a), esimap) ELSE esimap
      /\ answers' = <<[req |-> Req, val |-> Got, mine |-> ~pdi[Me]]>> \o answers
      /\ UNCHANGED <<rom, dev, losses, fails, expired, esislave, nackcnt, pdi>>
    BY DEF Return, slaveVars
<1>2. (Base' <=> Base) /\ (Calm' <=> Calm) /\ (Clean' <=> Clean)
    BY <1>1 DEF Base, Calm, Clean, Everybody
<1>3. AnswerInv'
    BY <1>0, <1>1, AnswerJoins
<1>4. CountType' /\ OwnInv' /\ WorkInv' /\ FirstInv' /\ SecondInv'
    BY <1>0, <1>1 DEF CountType, OwnInv, WorkInv, FirstInv, SecondInv
<1>5. PipeInv' /\ RoomInv'
    BY <1>0, <1>1, <1>2, PipeDropped DEF FirstInv
<1>6. WritingInv'
    BY <1>0, <1>1, <1>2 DEF WritingInv, Writing
<1>7. BytesInv'
  <2> SUFFICES ASSUME Calm PROVE \A b \in DOMAIN esimap' : b \in Int /\ esimap'[b] = <<esislave, Word(b)>>
      BY <1>1, <1>2 DEF BytesInv
  <2>1. CASE Req.op = "byte"
    <3>1. esislave = Me
        BY <1>0, <2>1 DEF PcInv
    <3> DEFINE c == Cached(Req.a)
    <3>2. \A b \in DOMAIN c : b \in Int /\ c[b] = <<Me, Word(b)>>
        BY <1>0, <2>1, GotRight
    <3>3. \A b \in DOMAIN esimap : b \in Int /\ esimap[b] = <<Me, Word(b)>>
        BY <1>0, <3>1 DEF BytesInv
    <3>4. esimap' = [b \in DOMAIN c \cup DOMAIN esimap |-> IF b \in DOMAIN c THEN c[b] ELSE esimap[b]]
        BY <1>1, <2>1 DEF Overlay
    <3> HIDE DEF c
    <3> QED
        BY <3>1, <3>2, <3>3, <3>4
  <2>2. CASE Req.op # "byte"
      BY <1>0, <1>1, <2>2 DEF BytesInv
  <2> QED
      BY <2>1, <2>2
<1> QED
    BY <1>3, <1>4, <1>5, <1>6, <1>7 DEF ReadInv

LEMMA DumpReads ==
  ASSUME EepromInv, ControlInv, ReadInv, DumpStep
  PROVE  ReadInv'
<1>0. /\ TypeInv /\ ControlType /\ CountType /\ OwnInv /\ WritingInv /\ BytesInv /\ PipeInv /\ RoomInv
      /\ todo # <<>> /\ pc = "return" /\ Me \in Slaves /\ Req \in Requests /\ Req.op = "dump"
  <2>1. todo # <<>> /\ pc = "return" /\ Req.op = "dump"
      BY DEF EepromInv, PcInv, DumpStep
  <2> QED
      BY <2>1, TypesHere DEF ReadInv
<1>1. /\ answers' = <<[req |-> Req, val |-> Got, mine |-> ~pdi[Me]]>> \o answers /\ nackcnt' = 0
      /\ UNCHANGED <<rom, dev, losses, fails, expired, esislave, esimap, pdi>>
      /\ \/ todo' = <<[Req EXCEPT !.a = NextAddress]>> \o Tail(todo) /\ pc' = "wait"
         \/ pc' = "giveback" /\ todo' = todo
         \/ pc' = "call" /\ todo' = Tail(todo)
    BY DEF DumpStep, slaveVars
<1>2. (Base' <=> Base) /\ (Calm' <=> Calm) /\ (Clean' <=> Clean)
    BY <1>1 DEF Base, Calm, Clean, Everybody
<1>3. AnswerInv'
    BY <1>0, <1>1, AnswerJoins
<1>4. WritingInv' /\ BytesInv' /\ CountType'
    BY <1>0, <1>1, <1>2 DEF WritingInv, Writing, BytesInv, CountType
<1>5. CASE pc' = "call" /\ todo' = Tail(todo)
  <2>1. OwnInv' /\ WorkInv' /\ FirstInv' /\ SecondInv'
      BY <1>5 DEF OwnInv, WorkInv, FirstInv, SecondInv
  <2>2. PipeInv' /\ RoomInv'
      BY <1>0, <1>1, <1>2, <1>5, PipeDropped
  <2> QED
      BY <1>3, <1>4, <2>1, <2>2 DEF ReadInv
<1>6. CASE pc' = "giveback" /\ todo' = todo
  <2>1. Req' = Req /\ Me' = Me /\ fails' \in Nat
      BY <1>0, <1>1, <1>6 DEF Req, Me, CountType
  <2>2. OwnInv' /\ WorkInv' /\ FirstInv' /\ SecondInv'
      BY <1>0, <1>1, <1>6, <2>1 DEF OwnInv, WorkInv, FirstInv, SecondInv
  <2>3. PipeInv' /\ RoomInv'
    <3>1. todo' \in Seq(Requests)
        BY <1>0, <1>6 DEF TypeInv
    <3> QED
        BY <1>0, <1>1, <1>2, <1>6, <3>1, PipeStays
  <2> QED
      BY <1>3, <1>4, <2>2, <2>3 DEF ReadInv
<1>7. CASE pc' = "wait" /\ todo' = <<[Req EXCEPT !.a = NextAddress]>> \o Tail(todo)
  <2>1. PICK q : q = [Req EXCEPT !.a = NextAddress]
      OBVIOUS
  <2>2. NextAddress \in Nat
      BY <1>0, RequestIs DEF NextAddress, Width
  <2>3. q \in Requests /\ q.op = Req.op /\ q.s = Req.s
      BY <1>0, <2>1, <2>2 DEF Requests
  <2>4. Tail(todo) \in Seq(Requests) /\ <<q>> \in Seq(Requests) /\ Len(<<q>>) = 1 /\ todo[1] = Req
        /\ Len(Tail(todo)) = Len(todo) - 1 /\ Len(todo) \in Nat /\ todo' = <<q>> \o Tail(todo)
        /\ todo \in Seq(Requests)
      BY <1>0, <1>7, <2>1, <2>3 DEF Req, TypeInv
  <2>5. todo' \in Seq(Requests) /\ Len(todo') = Len(todo) /\ todo'[1] = q
      BY <2>4
  <2>6. \A k \in 1 .. Len(todo) :
           \/ todo'[k] = todo[k]
           \/ todo[k].op = "dump" /\ todo'[k].op = "dump" /\ todo'[k].s = todo[k].s
    <3> TAKE k \in 1 .. Len(todo)
    <3>1. CASE k = 1
        BY <1>0, <2>3, <2>4, <2>5, <3>1
    <3>2. CASE k # 1
      <4>1. todo'[k] = Tail(todo)[k - 1]
          BY <2>4, <3>2
      <4>2. Tail(todo)[k - 1] = todo[k]
          BY <2>4, <3>2
      <4> QED
          BY <4>1, <4>2
    <3> QED
        BY <3>1, <3>2
  <2>7. PipeInv' /\ RoomInv'
      BY <1>0, <1>1, <1>2, <2>5, <2>6, PipeStays
  <2>8. Req' = q /\ Me' = Me /\ Req'.op = "dump" /\ fails' \in Nat
    <3>1. Req' = q /\ Me' = Me
        BY <2>3, <2>4, <2>5 DEF Req, Me
    <3> QED
        BY <1>0, <1>1, <2>3, <3>1 DEF CountType
  <2>9. OwnInv'
      BY <1>0, <1>1, <1>7, <2>8 DEF OwnInv, ByPosition
  <2>10. WorkInv' /\ FirstInv' /\ SecondInv'
      BY <1>1, <1>7, <2>8 DEF WorkInv, FirstInv, SecondInv
  <2> QED
      BY <1>3, <1>4, <2>7, <2>9, <2>10 DEF ReadInv
<1> QED
    BY <1>1, <1>5, <1>6, <1>7

LEMMA GiveBackReads ==
  ASSUME EepromInv, ControlInv, ReadInv, GiveBack
  PROVE  ReadInv'
<1>0. /\ TypeInv /\ ControlType /\ CountType /\ OwnInv /\ WritingInv /\ BytesInv /\ AnswerInv /\ PipeInv /\ RoomInv
      /\ losses \in Nat /\ fails \in Nat /\ todo # <<>> /\ Me \in Slaves /\ dev[Me] \in Interface
      /\ pc = "giveback" /\ Req.op \in {"leave", "dump"} /\ nackcnt = 0
  <2>1. todo # <<>> /\ pc = "giveback" /\ Req.op \in {"leave", "dump"}
      BY DEF EepromInv, PcInv, GiveBack
  <2> QED
      BY <2>1, TypesHere DEF ReadInv, OwnInv
<1>1. /\ pc' \in {"giveback", "call"} /\ todo' = IF pc' = "call" THEN Tail(todo) ELSE todo
      /\ UNCHANGED <<rom, esislave, esimap, answers, nackcnt, fails, expired>>
      /\ \E w \in Counters : Datagram(ToPdi, w)
    BY <1>0 DEF GiveBack, Retry
<1>2. PICK w \in Counters : Datagram(ToPdi, w)
    BY <1>1
<1>3. \A s \in Slaves : ToPdi[s] \in Interface /\ ToPdi[s].here = dev[s].here
    BY <1>0, WrittenAre
<1>4. /\ losses' \in Nat /\ losses' >= losses /\ (Everybody' => Everybody)
      /\ Everybody => (\A s \in Slaves \ {Me} : dev'[s] = dev[s]) /\ dev'[Me] \in {dev[Me], ToPdi[Me]}
    BY <1>0, <1>2, <1>3, DatagramAt
<1>5. (Base' => Base) /\ (Calm' => Calm) /\ (Clean' => Clean)
    BY <1>0, <1>1, <1>4, CalmerBefore
<1>6. (Base' => \A s \in Slaves \ {Me} : dev'[s] = dev[s]) /\ (Clean' => Base') /\ (Calm' => Base')
    BY <1>4, <1>5 DEF Base, Clean, Calm
<1>7. Calm' /\ dev'[Me].busy /\ dev'[Me].kind = "write" => dev'[Me].data = 1
  <2>1. ToPdi[Me].busy = dev[Me].busy /\ ToPdi[Me].kind = dev[Me].kind /\ ToPdi[Me].data = dev[Me].data
      BY <1>0 DEF ToPdi, Interface
  <2> QED
      BY <1>0, <1>4, <1>5, <2>1 DEF WritingInv, Writing, Calm, Base
<1>8. WritingInv' /\ BytesInv' /\ AnswerInv' /\ CountType'
  <2>1. Answers' = Answers
      BY <1>1 DEF Answers
  <2>2. WritingInv'
      BY <1>0, <1>5, <1>6, <1>7 DEF WritingInv, Writing
  <2> QED
      BY <1>0, <1>1, <1>5, <2>1, <2>2 DEF BytesInv, AnswerInv, CountType
<1>9. CASE pc' = "call"
  <2>1. PipeInv' /\ RoomInv'
      BY <1>0, <1>1, <1>5, <1>6, <1>9, PipeDropped
  <2>2. OwnInv' /\ WorkInv' /\ FirstInv' /\ SecondInv'
      BY <1>9 DEF OwnInv, WorkInv, FirstInv, SecondInv
  <2> QED
      BY <1>8, <2>1, <2>2 DEF ReadInv
<1>10. CASE pc' = "giveback"
  <2>1. Req' = Req /\ Me' = Me /\ todo' = todo /\ todo' \in Seq(Requests)
      BY <1>0, <1>1, <1>10 DEF Req, Me, TypeInv
  <2>2. PipeInv' /\ RoomInv'
      BY <1>0, <1>1, <1>5, <1>6, <2>1, PipeStays
  <2>3. OwnInv' /\ WorkInv' /\ FirstInv' /\ SecondInv'
      BY <1>0, <1>1, <1>10, <2>1 DEF OwnInv, WorkInv, FirstInv, SecondInv
  <2> QED
      BY <1>8, <2>2, <2>3 DEF ReadInv
<1> QED
    BY <1>1, <1>9, <1>10

(* A request begins; a byte that is in the cache is answered at once.      *)
LEMMA CallReads ==
  ASSUME EepromInv, ControlInv, ReadInv, Call
  PROVE  ReadInv'
<1>0. /\ TypeInv /\ CountType /\ WritingInv /\ BytesInv /\ AnswerInv /\ PipeInv /\ RoomInv /\ AnswersInv /\ CacheInv
      /\ todo # <<>> /\ pc = "call" /\ Me \in Slaves /\ Req \in Requests /\ fails \in Nat
  <2>1. todo # <<>> /\ pc = "call"
      BY DEF Call, Enter, Leave, siigetbyte, readeeprom1, readeeprom2, writeeeprom, esidump, CallAP, Begin
  <2> QED
      BY <2>1, TypesHere DEF ReadInv, EepromInv
<1>1. /\ UNCHANGED <<rom, dev, pdi, losses, fails, expired>> /\ nackcnt' = 0
      /\ \/ todo' = todo
         \/ todo' = Tail(todo) /\ pc' = "call" /\ Req.op # "first"
    BY DEF Call, Enter, Leave, siigetbyte, readeeprom1, readeeprom2, writeeeprom, esidump, CallAP, Begin, slaveVars
<1>2. (Base' <=> Base) /\ (Calm' <=> Calm) /\ (Clean' <=> Clean)
    BY <1>1 DEF Base, Calm, Clean, Everybody
<1>3. PipeInv' /\ RoomInv'
  <2>1. CASE todo' = todo
    <3>1. todo' \in Seq(Requests)
        BY <1>0, <2>1 DEF TypeInv
    <3> QED
        BY <1>0, <1>1, <1>2, <2>1, <3>1, PipeStays
  <2>2. CASE todo' = Tail(todo) /\ Req.op # "first"
      BY <1>0, <1>1, <1>2, <2>2, PipeDropped
  <2> QED
      BY <1>1, <2>1, <2>2
<1>4. WritingInv' /\ CountType'
    BY <1>0, <1>1, <1>2 DEF WritingInv, Writing, CountType
<1>5. pc' # "call" =>
        /\ todo' = todo /\ Req' = Req /\ Me' = Me /\ pc' \in {"force", "wait", "wait2", "giveback"}
        /\ Req.op = "second" => pc' = "wait2"
        /\ Req.op = "first" => pc' \in {"force", "wait"}
        /\ pc' = "wait2" => Req.op = "second"
        /\ pc' = "wait" /\ ~ByPosition => ~pdi[Me]
    BY <1>1 DEF Call, Enter, Leave, siigetbyte, readeeprom1, readeeprom2, writeeeprom, esidump, CallAP, Begin,
                Taken, Req, Me, ByPosition
<1>6. pc' # "call" => (ByPosition' <=> ByPosition)
    BY <1>5 DEF ByPosition
<1>7. OwnInv' /\ WorkInv' /\ FirstInv' /\ SecondInv'
  <2>1. OwnInv'
      BY <1>1, <1>5, <1>6 DEF OwnInv
  <2>2. WorkInv'
      BY <1>0, <1>1, <1>5 DEF WorkInv
  <2>3. FirstInv' /\ SecondInv'
      BY <1>5 DEF FirstInv, SecondInv
  <2> QED
      BY <2>1, <2>2, <2>3
<1>8. BytesInv'
  <2>1. CASE siigetbyte
    <3>1. esislave' = Me /\ esimap' = IF Me = esislave THEN esimap ELSE <<>>
        BY <2>1 DEF siigetbyte, FreshCache
    <3> QED
        BY <1>0, <1>2, <3>1 DEF BytesInv
  <2>2. CASE ~siigetbyte
    <3>1. UNCHANGED <<esislave, esimap>>
        BY <2>2 DEF Call, Enter, Leave, readeeprom1, readeeprom2, writeeeprom, esidump, CallAP
    <3> QED
        BY <1>0, <1>2, <3>1 DEF BytesInv
  <2> QED
      BY <2>1, <2>2
<1>9. AnswerInv'
  <2>1. CASE answers' = answers
    <3>1. Answers' = Answers
        BY <2>1 DEF Answers
    <3> QED
        BY <1>0, <1>1, <1>2, <3>1 DEF AnswerInv
  <2>2. CASE answers' # answers
    <3>1. /\ siigetbyte /\ Req.op = "byte" /\ Req.a \in DOMAIN FreshCache
          /\ answers' = <<[req |-> Req, val |-> FreshCache[Req.a], mine |-> ~pdi[Me]]>> \o answers
        BY <2>2 DEF Call, Enter, Leave, siigetbyte, readeeprom1, readeeprom2, writeeeprom, esidump, CallAP, Begin
    <3>2. Me = esislave /\ FreshCache = esimap
        BY <3>1 DEF FreshCache
    <3>3. FreshCache[Req.a] \in Values /\ FreshCache[Req.a][1] \in {0, Me}
        BY <1>0, <3>1, <3>2 DEF TypeInv, CacheInv
    <3>4. PICK r : r = [req |-> Req, val |-> FreshCache[Req.a], mine |-> ~pdi[Me]]
        OBVIOUS
    <3>5. r \in Results /\ OfOne(r.req, r.val[1]) /\ r.req = Req /\ r.val = FreshCache[Req.a]
        BY <1>0, <3>3, <3>4 DEF Results, OfOne, Me
    <3>6. Answers' = Answers \cup {r}
        BY <1>0, <1>1, <3>1, <3>4, <3>5, AnswerAdded
    <3>7. Calm => r.val = <<Req.s, Word(Req.a)>>
        BY <1>0, <3>1, <3>2, <3>5 DEF BytesInv, Me
    <3>8. /\ Calm => Good(r)
          /\ r.req.op = "byte"
        BY <3>1, <3>5, <3>7 DEF Good
    <3>9. Clean => Calm
        BY DEF Clean, Calm
    <3> QED
        BY <1>0, <1>1, <1>2, <3>6, <3>8, <3>9 DEF AnswerInv
  <2> QED
      BY <2>1, <2>2
<1> QED
    BY <1>3, <1>4, <1>7, <1>8, <1>9 DEF ReadInv

-----------------------------------------------------------------------------
(***************************************************************************)
(* The slaves: an order is carried out, and leaves its word, or is refused *)
(* and counted.                                                            *)
(***************************************************************************)
LEMMA VanishReads ==
  ASSUME EepromInv, ControlInv, ReadInv, NEW s \in Slaves, Vanish(s)
  PROVE  ReadInv'
<1>0. TypeInv /\ CountType /\ OwnInv /\ PipeInv /\ RoomInv /\ dev \in [Slaves -> Interface] /\ dev[s] \in Interface
    BY DEF EepromInv, ReadInv, TypeInv
<1>1. UNCHANGED <<todo, pc, nackcnt, pdi, fails, expired>>
    BY DEF Vanish
<1>2. ~dev'[s].here
    BY <1>0 DEF Vanish, Interface
<1>3. ~Base' /\ ~Calm' /\ ~Clean'
    BY <1>2 DEF Base, Calm, Clean, Everybody
<1>4. Req' = Req /\ Me' = Me /\ (Writes' <=> Writes) /\ (ByPosition' <=> ByPosition)
    BY <1>1 DEF Req, Me, Writes, ByPosition
<1>5. CountType' /\ OwnInv' /\ RoomInv'
    BY <1>0, <1>1, <1>4 DEF CountType, OwnInv, RoomInv
<1>6. PipeInv'
    BY <1>0, <1>1, <1>3 DEF PipeInv, ToFirst, Apart
<1>7. WorkInv' /\ FirstInv' /\ SecondInv' /\ WritingInv' /\ BytesInv' /\ AnswerInv'
    BY <1>3 DEF WorkInv, FirstInv, SecondInv, WritingInv, BytesInv, AnswerInv
<1> QED
    BY <1>5, <1>6, <1>7 DEF ReadInv

(* What a slave that settles does: its order is done, or refused.          *)
LEMMA SettleDoes ==
  ASSUME EepromInv, ReadInv, NEW s \in Slaves, Settle(s)
  PROVE  /\ dev[s].busy /\ ~dev'[s].busy /\ dev'[s].pdi = dev[s].pdi /\ dev'[s].data = dev[s].data
         /\ \A t \in Slaves : t # s => dev'[t] = dev[t]
         /\ \A t \in Slaves : dev'[t].here = dev[t].here
         /\ \/ /\ ~dev'[s].nack /\ fails' = fails
               /\ dev[s].kind = "read" => dev'[s].reg = dev[s].pend
               /\ rom' = IF dev[s].kind = "write"
                         THEN [rom EXCEPT ![s][dev[s].pend] = dev[s].data] ELSE rom
            \/ dev'[s].nack /\ fails' = fails + 1 /\ rom' = rom
<1>1. dev \in [Slaves -> Interface] /\ dev[s] \in Interface
    BY DEF EepromInv, TypeInv
<1> PICK d \in Interface : d = dev[s]
    BY <1>1
<1> DEFINE a == [d EXCEPT !.busy = FALSE, !.nack = FALSE, !.reg = IF d.kind = "read" THEN d.pend ELSE d.reg]
           b == [d EXCEPT !.busy = FALSE, !.nack = TRUE, !.err = TRUE]
<1>2. /\ d.busy
      /\ \/ /\ dev' = [dev EXCEPT ![s] = a] /\ fails' = fails
            /\ rom' = IF d.kind = "write" THEN [rom EXCEPT ![s][d.pend] = d.data] ELSE rom
         \/ dev' = [dev EXCEPT ![s] = b] /\ fails' = fails + 1 /\ rom' = rom
    BY <1>1 DEF Settle
<1>3. /\ ~a.busy /\ ~a.nack /\ a.pdi = d.pdi /\ a.data = d.data /\ a.here = d.here
      /\ d.kind = "read" => a.reg = d.pend
    BY DEF Interface
<1>4. ~b.busy /\ b.nack /\ b.pdi = d.pdi /\ b.data = d.data /\ b.here = d.here
    BY DEF Interface
<1> HIDE DEF a, b
<1>5. dev' = [dev EXCEPT ![s] = a] => dev'[s] = a /\ \A t \in Slaves : t # s => dev'[t] = dev[t]
    BY <1>1
<1>6. dev' = [dev EXCEPT ![s] = b] => dev'[s] = b /\ \A t \in Slaves : t # s => dev'[t] = dev[t]
    BY <1>1
<1>7. CASE /\ dev' = [dev EXCEPT ![s] = a] /\ fails' = fails
           /\ rom' = IF d.kind = "write" THEN [rom EXCEPT ![s][d.pend] = d.data] ELSE rom
    BY <1>2, <1>3, <1>5, <1>7
<1>8. CASE dev' = [dev EXCEPT ![s] = b] /\ fails' = fails + 1 /\ rom' = rom
    BY <1>2, <1>4, <1>6, <1>8
<1> QED
    BY <1>2, <1>7, <1>8

(* What is in an EEPROM stays, and what a slave was told to write gets     *)
(* there.                                                                  *)
LEMMA RomSettles ==
  ASSUME EepromInv, ReadInv, NEW s \in Slaves, Settle(s), Calm
  PROVE  /\ \A t \in Slaves : \A w \in 0 .. Words - 1 : rom[t][w] = 1 => rom'[t][w] = 1
         /\ Writing(s) /\ fails' = fails /\ dev[s].pend \in 0 .. Words - 1 => rom'[s][dev[s].pend] = 1
<1>1. rom \in [Slaves -> [0 .. Words - 1 -> 0 .. 2]] /\ WritingInv /\ fails \in Nat
    BY DEF EepromInv, ReadInv, TypeInv, CountType
<1> PICK p : p = dev[s].pend
    OBVIOUS
<1>2. CASE ~Writing(s) \/ fails' = fails + 1
  <2>1. rom' = rom /\ ~(Writing(s) /\ fails' = fails)
      BY <1>1, <1>2, SettleDoes DEF Writing
  <2> QED
      BY <2>1
<1>3. CASE Writing(s) /\ fails' = fails
  <2>1. dev[s].data = 1
      BY <1>1, <1>3 DEF WritingInv
  <2>2. rom' = [rom EXCEPT ![s][p] = 1]
      BY <1>1, <1>3, <2>1, SettleDoes DEF Writing
  <2>3. \A t \in Slaves : \A w \in 0 .. Words - 1 : rom'[t][w] = IF t = s /\ w = p THEN 1 ELSE rom[t][w]
      BY <1>1, <2>2
  <2> QED
      BY <2>3
<1> QED
    BY <1>2, <1>3, SettleDoes

LEMMA SettleReads ==
  ASSUME EepromInv, ControlInv, ReadInv, NEW s \in Slaves, Settle(s)
  PROVE  ReadInv'
<1>0. /\ TypeInv /\ CountType /\ OwnInv /\ WorkInv /\ FirstInv /\ SecondInv /\ PipeInv /\ RoomInv /\ WritingInv
      /\ BytesInv /\ AnswerInv /\ losses \in Nat /\ fails \in Nat /\ nackcnt \in Nat
    BY TypesHere DEF ReadInv
<1>1. UNCHANGED <<todo, pc, nackcnt, pdi, expired, losses, edat, estat, answers, esimap, esislave>>
    BY DEF Settle
<1>2. /\ dev[s].busy /\ ~dev'[s].busy /\ dev'[s].pdi = dev[s].pdi /\ dev'[s].data = dev[s].data
      /\ \A t \in Slaves : t # s => dev'[t] = dev[t]
      /\ \A t \in Slaves : dev'[t].here = dev[t].here
      /\ \/ /\ ~dev'[s].nack /\ fails' = fails
            /\ dev[s].kind = "read" => dev'[s].reg = dev[s].pend
            /\ rom' = IF dev[s].kind = "write"
                      THEN [rom EXCEPT ![s][dev[s].pend] = dev[s].data] ELSE rom
         \/ dev'[s].nack /\ fails' = fails + 1 /\ rom' = rom
    BY SettleDoes
<1>3. fails' \in Nat /\ fails' >= fails /\ (fails' = fails \/ fails' = fails + 1)
    BY <1>0, <1>2
<1>4. (Base' => Base) /\ (Calm' => Calm) /\ (Clean' => Clean)
  <2>1. Everybody' => Everybody
      BY <1>2 DEF Everybody
  <2> QED
      BY <1>0, <1>1, <1>3, <2>1, CalmerBefore
<1>5. Clean' => fails' = fails
  <2>1. Clean' => fails' = 0
      BY DEF Clean
  <2> QED
      BY <1>0, <1>3, <2>1
<1>6. Req' = Req /\ Me' = Me /\ (Writes' <=> Writes) /\ (ByPosition' <=> ByPosition)
    BY <1>1 DEF Req, Me, Writes, ByPosition
<1>7. CountType' /\ OwnInv' /\ RoomInv'
    BY <1>0, <1>1, <1>3, <1>6 DEF CountType, OwnInv, RoomInv
<1>8. ASSUME Clean', NEW t \in Slaves, NEW w, Primed(dev[t], w) PROVE Primed(dev'[t], w)
  <2>1. CASE t # s
      BY <1>2, <1>8, <2>1 DEF Primed
  <2>2. CASE t = s
    <3>1. fails' # fails + 1
        BY <1>0, <1>5, <1>8
    <3>2. dev[s].kind = "read" /\ dev[s].pend = w /\ dev'[s].reg = w
        BY <1>2, <1>8, <2>2, <3>1 DEF Primed
    <3> QED
        BY <1>2, <2>2, <3>2 DEF Primed
  <2> QED
      BY <2>1, <2>2
<1>9. PipeInv'
  <2> SUFFICES ASSUME NEW j \in 1 .. Len(todo), todo[j].op = "second"
               PROVE  ToFirst(j) \/ (Apart(1, j) /\ (Clean' => Primed(dev'[todo[j].s], Word(todo[j].a))))
      BY <1>1 DEF PipeInv, ToFirst, Apart
  <2>1. todo[j].s \in Slaves
      BY <1>0, EntryIs
  <2>2. ToFirst(j) \/ (Apart(1, j) /\ (Clean => Primed(dev[todo[j].s], Word(todo[j].a))))
      BY <1>0 DEF PipeInv
  <2> QED
      BY <1>4, <1>8, <2>1, <2>2
<1>10. ASSUME Calm'
       PROVE  /\ \A t \in Slaves : \A w \in 0 .. Words - 1 : rom[t][w] = 1 => rom'[t][w] = 1
              /\ Writing(s) /\ fails' = fails /\ dev[s].pend \in 0 .. Words - 1 => rom'[s][dev[s].pend] = 1
    BY <1>4, <1>10, RomSettles
<1>11. WritingInv' /\ BytesInv'
    BY <1>0, <1>1, <1>2, <1>4 DEF WritingInv, Writing, BytesInv
<1>12. AnswerInv'
  <2> SUFFICES ASSUME NEW r \in Answers
               PROVE  /\ Calm' /\ (r.req.op \in {"byte", "dump"} \/ (r.req.op = "readAP" /\ r.mine)) => Good(r)
                      /\ Clean' /\ r.req.op = "second" => Good(r)
                      /\ Calm' /\ (r.req.op = "write" \/ (r.req.op = "writeAP" /\ r.mine)) =>
                           /\ r.val[2] = Word(r.req.a) /\ Word(r.req.a) < Words
                           /\ rom'[r.req.s][Word(r.req.a)] = 1
    <3>1. Answers' = Answers
        BY <1>1 DEF Answers
    <3> QED
        BY <3>1 DEF AnswerInv, Good
  <2>1. r \in Results
      BY <1>0 DEF TypeInv, Answers, ToSet
  <2>2. r.req.s \in Slaves /\ Word(r.req.a) \in Nat
      BY <2>1 DEF Results, Requests, Word
  <2>3. Words \in Nat
      BY EepromAssumption DEF EepromAssumption
  <2>4. Word(r.req.a) < Words => Word(r.req.a) \in 0 .. Words - 1
      BY <2>2, <2>3
  <2>5. /\ Calm /\ (r.req.op \in {"byte", "dump"} \/ (r.req.op = "readAP" /\ r.mine)) => Good(r)
        /\ Clean /\ r.req.op = "second" => Good(r)
        /\ Calm /\ (r.req.op = "write" \/ (r.req.op = "writeAP" /\ r.mine)) =>
             /\ r.val[2] = Word(r.req.a) /\ Word(r.req.a) < Words
             /\ rom[r.req.s][Word(r.req.a)] = 1
      BY <1>0 DEF AnswerInv
  <2>6. Calm' /\ Word(r.req.a) < Words /\ rom[r.req.s][Word(r.req.a)] = 1 => rom'[r.req.s][Word(r.req.a)] = 1
      BY <1>10, <2>2, <2>4
  <2> QED
      BY <1>4, <2>5, <2>6
<1>13. SecondInv'
  <2>1. pc # "call" => Me \in Slaves
      BY <1>0, RequestIs DEF EepromInv, PcInv
  <2>2. pc # "call" /\ ~dev[Me].busy => ~dev'[Me].busy
      BY <1>2, <2>1
  <2> QED
      BY <1>0, <1>1, <1>4, <1>6, <2>2 DEF SecondInv, Right
<1>14. FirstInv'
  <2> SUFFICES ASSUME pc = "return", Req.op = "first", Clean' PROVE Primed(dev'[Me], Word(Req.a))
      BY <1>1, <1>6 DEF FirstInv
  <2>1. Me \in Slaves
      BY <1>0, RequestIs DEF EepromInv, PcInv
  <2> QED
      BY <1>0, <1>4, <1>8, <2>1 DEF FirstInv
<1>15. WorkInv'
  <2> SUFFICES ASSUME pc # "call", Req.op # "second", Calm', ~dev'[Me].pdi
               PROVE  /\ nackcnt <= fails' /\ (pc = "refused" => nackcnt < fails')
                      /\ pc \in {"clear", "data", "refused", "fetch"} => ~dev'[Me].busy
                      /\ pc = "command" => (dev'[Me].busy => Ordering') /\ (Writes => dev'[Me].data = 1)
                      /\ pc = "wait2" =>
                           IF dev'[Me].busy THEN Ordering' ELSE IF dev'[Me].nack THEN nackcnt < fails' ELSE Obeyed'
                      /\ pc = "fetch" => Obeyed' /\ (estat.r64 <=> Me \in Long)
                      /\ pc = "written" => Obeyed'
                      /\ pc = "return" /\ Req.op # "first" =>
                           Right /\ IF Writes THEN Obeyed' ELSE edat.width = Width(Me)
      BY <1>1, <1>6 DEF WorkInv, Right, Width
  <2>1. todo # <<>> /\ Me \in Slaves /\ Req.a \in Nat /\ Word(Req.a) \in Nat /\ Words \in Nat
      BY <1>0, RequestIs, EepromAssumption DEF EepromInv, PcInv, Word, EepromAssumption
  <2>2. Writes => Word(Req.a) \in 0 .. Words - 1
    <3>1. 1 \in 1 .. Len(todo) /\ todo[1] = Req
        BY <1>0, <2>1 DEF TypeInv, Req
    <3> QED
        BY <1>0, <2>1, <3>1 DEF RoomInv, Writes
  <2>3. Calm /\ ~dev[Me].pdi
      BY <1>2, <1>4, <2>1
  <2>4. /\ nackcnt <= fails /\ (pc = "refused" => nackcnt < fails)
        /\ pc \in {"clear", "data", "refused", "fetch"} => ~dev[Me].busy
        /\ pc = "command" => (dev[Me].busy => Ordering) /\ (Writes => dev[Me].data = 1)
        /\ pc = "wait2" =>
             IF dev[Me].busy THEN Ordering ELSE IF dev[Me].nack THEN nackcnt < fails ELSE Obeyed
        /\ pc = "fetch" => Obeyed /\ (estat.r64 <=> Me \in Long)
        /\ pc = "written" => Obeyed
        /\ pc = "return" /\ Req.op # "first" =>
             Right /\ IF Writes THEN Obeyed ELSE edat.width = Width(Me)
      BY <1>0, <2>3 DEF WorkInv
  <2>5. /\ Obeyed' <=> IF Writes THEN rom'[Me][Word(Req.a)] = 1 ELSE dev'[Me].reg = Word(Req.a)
        /\ Ordering' <=> (dev'[Me].pend = Word(Req.a) /\ dev'[Me].kind = IF Writes THEN "write" ELSE "read")
      BY <1>6 DEF Obeyed, Ordering
  <2>6. Writes /\ Obeyed => Obeyed'
      BY <1>10, <2>1, <2>2, <2>5 DEF Obeyed
  <2>7. nackcnt <= fails' /\ (nackcnt < fails => nackcnt < fails') /\ (fails' = fails + 1 => nackcnt < fails')
      BY <1>0, <1>3, <2>4
  <2>8. pc = "written" => Writes
      BY <1>0 DEF OwnInv
  <2>9. CASE Me # s
    <3>1. dev'[Me] = dev[Me]
        BY <1>2, <2>1, <2>9
    <3>2. Obeyed => Obeyed'
        BY <2>5, <2>6, <3>1 DEF Obeyed
    <3>3. Ordering' <=> Ordering
        BY <2>5, <3>1 DEF Ordering
    <3> QED
        BY <2>4, <2>7, <3>1, <3>2, <3>3
  <2>10. CASE Me = s
    <3>1. dev[Me].busy /\ ~dev'[Me].busy /\ dev'[Me].data = dev[Me].data
        BY <1>2, <2>10
    <3>2. IF dev'[Me].nack THEN fails' = fails + 1 ELSE fails' # fails + 1
        BY <1>0, <1>2, <2>10
    <3>3. pc = "wait2" /\ fails' # fails + 1 => Obeyed'
      <4> SUFFICES ASSUME pc = "wait2", fails' # fails + 1 PROVE Obeyed'
          OBVIOUS
      <4>1. Ordering /\ fails' = fails
          BY <1>3, <2>4, <3>1
      <4>2. CASE Writes
        <5>1. Writing(s) /\ dev[s].pend \in 0 .. Words - 1
            BY <2>2, <2>10, <3>1, <4>1, <4>2 DEF Ordering, Writing
        <5>2. rom'[s][dev[s].pend] = 1
            BY <1>10, <4>1, <5>1
        <5> QED
            BY <2>5, <2>10, <4>1, <4>2, <5>2 DEF Ordering
      <4>3. CASE ~Writes
        <5>1. dev[s].kind = "read" /\ dev[s].pend = Word(Req.a)
            BY <2>10, <4>1, <4>3 DEF Ordering
        <5>2. dev'[s].reg = dev[s].pend
            BY <1>2, <4>1, <5>1, <1>0
        <5> QED
            BY <2>5, <2>10, <4>3, <5>1, <5>2
      <4> QED
          BY <4>2, <4>3
    <3>4. pc = "wait2" => IF dev'[Me].busy THEN Ordering' ELSE IF dev'[Me].nack THEN nackcnt < fails' ELSE Obeyed'
        BY <2>7, <3>1, <3>2, <3>3
    <3>5. pc # "fetch" /\ (pc = "written" => Obeyed')
        BY <2>4, <2>6, <2>8, <3>1
    <3>6. pc = "return" /\ Req.op # "first" => Right /\ IF Writes THEN Obeyed' ELSE edat.width = Width(Me)
        BY <2>4, <2>6
    <3>7. pc = "command" => (dev'[Me].busy => Ordering') /\ (Writes => dev'[Me].data = 1)
        BY <2>4, <3>1
    <3> QED
        BY <2>7, <2>4, <3>1, <3>4, <3>5, <3>6, <3>7
  <2> QED
      BY <2>9, <2>10
<1> QED
    BY <1>7, <1>9, <1>11, <1>12, <1>13, <1>14, <1>15 DEF ReadInv

-----------------------------------------------------------------------------
LEMMA ReadBegins ==
  ASSUME Init
  PROVE  ReadInv
<1>1. /\ pc = "call" /\ todo \in Jobs /\ todo \in Seq(Requests) /\ esimap = <<>> /\ answers = <<>>
      /\ nackcnt = 0 /\ fails = 0 /\ expired = FALSE
    BY SlavesAre DEF Init
<1>2. \A s \in Slaves : ~dev[s].busy
    BY DEF Init
<1>3. CountType /\ OwnInv /\ WorkInv /\ FirstInv /\ SecondInv
    BY <1>1 DEF CountType, OwnInv, WorkInv, FirstInv, SecondInv
<1>4. WritingInv /\ BytesInv
    BY <1>1, <1>2 DEF WritingInv, Writing, BytesInv
<1>5. AnswerInv
    BY <1>1 DEF AnswerInv, Answers, ToSet
<1>6. RoomInv
    BY <1>1, ListsAssumption DEF ListsAssumption, RoomInv, Word
<1>7. PipeInv
  <2> SUFFICES ASSUME NEW j \in 1 .. Len(todo), todo[j].op = "second" PROVE ToFirst(j)
      BY DEF PipeInv
  <2>1. PICK i \in 1 .. j - 1 :
          todo[i] = [todo[j] EXCEPT !.op = "first"] /\ \A k \in i + 1 .. j - 1 : todo[k].s # todo[j].s
      BY <1>1, ListsAssumption DEF ListsAssumption
  <2>2. todo[j] \in Requests
      BY <1>1
  <2>3. todo[i].op = "first" /\ todo[i].s = todo[j].s /\ todo[i].a = todo[j].a
      BY <2>1, <2>2 DEF Requests
  <2> QED
      BY <2>1, <2>3 DEF ToFirst, Apart
<1> QED
    BY <1>3, <1>4, <1>5, <1>6, <1>7 DEF ReadInv

LEMMA ReadNext ==
  ASSUME EepromInv, ControlInv, ReadInv, [Next]_vars
  PROVE  ReadInv'
<1>1. CASE Master
  <2>1. pc # "call" /\ Transfer => ReadInv'
      BY ClearReads, DataReads, CommandReads, RestReads DEF Transfer
  <2> QED
      BY <1>1, <2>1, CallReads, PollReads, ForceReads, GiveBackReads, ReturnReads, DumpReads
         DEF Master, readeepromFP, writeeepromFP, readeepromAP, writeeepromAP
<1>2. CASE \E s \in Slaves : Settle(s) \/ Vanish(s)
    BY <1>2, SettleReads, VanishReads
<1>3. CASE UNCHANGED vars
  <2>1. /\ Req' = Req /\ Me' = Me /\ (Writes' <=> Writes) /\ (ByPosition' <=> ByPosition) /\ Answers' = Answers
        /\ (Base' <=> Base) /\ (Calm' <=> Calm) /\ (Clean' <=> Clean)
      BY <1>3 DEF vars, Req, Me, Writes, ByPosition, Answers, Base, Calm, Clean, Everybody
  <2>2. CountType' /\ OwnInv' /\ FirstInv' /\ SecondInv' /\ RoomInv' /\ WritingInv' /\ BytesInv'
      BY <1>3, <2>1 DEF vars, ReadInv, CountType, OwnInv, FirstInv, SecondInv, Right, RoomInv, WritingInv, Writing,
                        BytesInv
  <2>3. WorkInv'
      BY <1>3, <2>1 DEF vars, ReadInv, WorkInv, Ordering, Obeyed, Right, Width
  <2>4. PipeInv'
      BY <1>3, <2>1 DEF vars, ReadInv, PipeInv, ToFirst, Apart
  <2>5. AnswerInv'
      BY <1>3, <2>1 DEF vars, ReadInv, AnswerInv, Good
  <2> QED
      BY <2>2, <2>3, <2>4, <2>5 DEF ReadInv
<1> QED
    BY <1>1, <1>2, <1>3 DEF Next

(* The byte or the word the caller gets is the one at that address of that *)
(* slave's EEPROM, from the cache (ecx_siigetbyte), a read, the pipelined  *)
(* reads of the start-up (ecx_readeeprom1, ecx_readeeprom2) or a dump, and *)
(* a write that reports success has been done: for any slaves and lists of *)
(* requests, as long as the retries cover what is lost and refused.        *)
THEOREM AnswersRight == Spec => []AnswerIsRight
<1>1. Init => ControlInv /\ ReadInv
    BY ControlBegins, ReadBegins
<1>2. EepromInv /\ ControlInv /\ ReadInv /\ [Next]_vars => (ControlInv /\ ReadInv)'
    BY ControlNext, ReadNext
<1>3. ReadInv => AnswerIsRight
  <2> SUFFICES ASSUME ReadInv, Covered, NEW r \in Answers
               PROVE  /\ r.req.op \in {"byte", "second", "dump"} => r.val = <<r.req.s, Word(r.req.a)>>
                      /\ r.req.op = "readAP" /\ r.mine => r.val = <<r.req.s, Word(r.req.a)>>
                      /\ r.req.op = "write" \/ (r.req.op = "writeAP" /\ r.mine) =>
                           r.val[2] = Word(r.req.a) /\ rom[r.req.s][Word(r.req.a)] = 1
      BY DEF AnswerIsRight
  <2>1. fails \in Nat /\ AnswerInv
      BY DEF ReadInv, CountType
  <2>2. /\ losses <= Retries /\ ~expired /\ Everybody
        /\ fails < (IF \E x \in Answers : x.req.op = "second" THEN 1 ELSE MaxNack)
      BY DEF Covered
  <2>3. fails < MaxNack \/ fails = 0
      BY <2>1, <2>2
  <2>4. r.req.op = "second" => fails = 0
    <3> SUFFICES ASSUME r.req.op = "second" PROVE fails = 0
        OBVIOUS
    <3>1. \E x \in Answers : x.req.op = "second"
        OBVIOUS
    <3>2. fails < 1
        BY <2>2, <3>1
    <3> QED
        BY <2>1, <3>2
  <2>5. Calm /\ (r.req.op = "second" => Clean)
      BY <2>2, <2>3, <2>4 DEF Calm, Clean, Base
  <2> QED
      BY <2>1, <2>5 DEF AnswerInv, Good
<1> QED
    BY <1>1, <1>2, <1>3, EepromStaysRight, PTL DEF Spec

=============================================================================
