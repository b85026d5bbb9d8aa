------------------------------- MODULE Eeprom -------------------------------
(***************************************************************************)
(* The access to the slaves' EEPROM (SII) of the EtherCAT master (SOEM     *)
(* ec_main.c): the register protocol with its retries and time limits, the *)
(* pipelined identity reads of the start-up, the byte cache over it and    *)
(* the hand-over of the EEPROM between master and slave application (PDI). *)
(* One step is one datagram, or one step of a slave.  A datagram is done,  *)
(* lost before or after the slave, or comes back unanswered because the    *)
(* slave is gone.                                                          *)
(*                                                                         *)
(* The caller works through a list of requests [op, s, a]: "enter" and     *)
(* "leave" bracket an SII function, "byte" is ecx_siigetbyte, "first" and  *)
(* "second" are ecx_readeeprom1 and 2, "write" is ecx_writeeeprom, "dump"  *)
(* ecx_esidump; "readAP" and "writeAP" address a slave by its position s.  *)
(***************************************************************************)
EXTENDS Integers, Sequences, FiniteSets, SequencesExt, TLC

CONSTANTS
  Slaves,    \* the slaves, by their positions
  Long,      \* those that answer eight bytes at a time
  Words,     \* size of an EEPROM in words
  Erased,    \* the words that are still all ones
  DumpEnd,   \* EC_MAXEEPBUF in words
  Jobs,      \* the lists of requests considered
  Retries,   \* EC_DEFAULTRETRIES
  MaxNack,   \* transfers that fail (3 in the code)
  MaxFaults, \* datagrams lost and transfers the slave refuses (a bound)
  MayLeave   \* slaves that may drop out

Requests == [op : {"enter", "leave", "byte", "first", "second", "write", "dump", "readAP", "writeAP"},
             s : Slaves, a : Nat]

ASSUME EepromAssumption ==
  /\ Long \subseteq Slaves /\ MayLeave \subseteq Slaves
  /\ Slaves \subseteq Nat \ {0} /\ \A s \in Slaves : 1 .. s \subseteq Slaves
  /\ \A job \in Jobs : job \in Seq(Requests)
  /\ DumpEnd \in 0 .. Words - 2
  /\ Words \in Nat /\ Retries \in Nat /\ MaxNack \in Nat /\ MaxFaults \in Nat

(* Whoever gives the control back has looked at it before (the first line  *)
(* of every SII function); functions may call each other, but not a dump.  *)
ASSUME BracketsAssumption ==
  \A job \in Jobs : \A j \in 1 .. Len(job) : job[j].op = "leave" =>
    \E i \in 1 .. j - 1 : /\ job[i].op = "enter" /\ job[i].s = job[j].s
                         /\ \A k \in i + 1 .. j - 1 : job[k].op \notin {"enter", "dump"}

(* What is written lies within the EEPROM, and a pipelined read is begun    *)
(* and finished with nothing else at the slave in between (start-up in      *)
(* ec_config.c: the first reads of all slaves, then the second ones).       *)
ASSUME ListsAssumption ==
  \A job \in Jobs : \A j \in 1 .. Len(job) :
    /\ job[j].op \in {"write", "writeAP"} => job[j].a \div 2 < Words
    /\ job[j].op = "second" =>
         \E i \in 1 .. j - 1 : /\ job[i] = [job[j] EXCEPT !.op = "first"]
                              /\ \A k \in i + 1 .. j - 1 : job[k].s # job[j].s

VARIABLES
  rom,       \* the words in every EEPROM: 0 at first, 1 once written, and
             \* 2 with what the data register held before
  dev,       \* the EEPROM interface of every slave
  pdi,       \* slavelist[].eep_pdi
  esislave, esimap,   \* the cache: its slave and the bytes it holds
  todo,      \* requests not yet done
  eectl,     \* the control the SII function found
  pc,        \* where the request is
  tries,     \* cnt of the present retry loop
  nackcnt,
  estat,     \* the status last read
  edat,      \* the data read: words from, from + 1, ... of a slave, 0 for none
  answers,   \* what the caller got, latest first, and whether the EEPROM was the
             \* master's then
  losses, fails, expired   \* lost datagrams, refusals, and whether a time limit ran out

vars == <<rom, dev, pdi, esislave, esimap, todo, eectl, pc, tries, nackcnt, estat, edat,
          answers, losses, fails, expired>>
slaveVars == <<rom, dev>>
callVars == <<pdi, esislave, esimap, todo, eectl, answers>>

Zero == [of |-> 0, from |-> -1, width |-> 0]
Blank == [busy |-> FALSE, nack |-> FALSE, err |-> FALSE, r64 |-> FALSE]
Width(s) == IF s \in Long THEN 4 ELSE 2   \* words of one answer
Req == Head(todo)
Me == Req.s
Word(a) == a \div 2
ByPosition == Req.op \in {"readAP", "writeAP"}
Writes == Req.op \in {"write", "writeAP"}

(* A slave starts with its EEPROM in the hands of the master or of its     *)
(* application, idle, with an old address in its data register.            *)
Init ==
  /\ rom = [s \in Slaves |-> [w \in 0 .. Words - 1 |-> 0]]
  /\ pdi \in [Slaves -> BOOLEAN]
  /\ dev = [s \in Slaves |-> [here |-> TRUE, pdi |-> pdi[s], busy |-> FALSE, nack |-> FALSE,
                              err |-> FALSE, reg |-> 0, pend |-> 0, kind |-> "read", data |-> 2]]
  /\ esislave = 0 /\ esimap = <<>>
  /\ todo \in Jobs /\ eectl = FALSE /\ pc = "call" /\ tries = 0 /\ nackcnt = 0
  /\ estat = Blank /\ edat = Zero /\ answers = <<>>
  /\ losses = 0 /\ fails = 0 /\ expired = FALSE

(***************************************************************************)
(* The slave.                                                              *)
(***************************************************************************)
Settle(s) ==
  /\ dev[s].busy
  /\ \/ /\ dev' = [dev EXCEPT ![s].busy = FALSE, ![s].nack = FALSE,
                              ![s].reg = IF dev[s].kind = "read" THEN dev[s].pend ELSE @]
        /\ rom' = IF dev[s].kind = "write"
                  THEN [rom EXCEPT ![s][dev[s].pend] = dev[s].data] ELSE rom
        /\ UNCHANGED fails
     \/ /\ losses + fails < MaxFaults /\ fails' = fails + 1
        /\ dev' = [dev EXCEPT ![s].busy = FALSE, ![s].nack = TRUE, ![s].err = TRUE]
        /\ UNCHANGED rom
  /\ UNCHANGED <<pdi, esislave, esimap, todo, eectl, pc, tries, nackcnt, estat, edat, answers, losses, expired>>

Vanish(s) ==
  /\ s \in MayLeave /\ dev[s].here
  /\ dev' = [dev EXCEPT ![s].here = FALSE]
  /\ UNCHANGED <<rom, pdi, esislave, esimap, todo, eectl, pc, tries, nackcnt, estat, edat, answers, losses, fails, expired>>

(* Who a datagram reaches: the slave with the configured address, or the   *)
(* one that is at the position now.                                        *)
Reached ==
  {s \in Slaves : /\ dev[s].here
                  /\ IF ByPosition THEN Cardinality({r \in 1 .. s \cap Slaves : dev[r].here}) = Me
                     ELSE s = Me}
Heard == CHOOSE s \in Reached : TRUE

Done(written) == [s \in Slaves |-> IF s \in Reached THEN written[s] ELSE dev[s]]

(* A datagram that leaves the interface of the slave it reaches as written *)
(* says: the counter that comes back is 1, 0 with nobody there, -1 when it *)
(* is lost.                                                                *)
Counters == {-1, 0, 1}
Datagram(written, wkc) ==
  \/ /\ wkc = 1 /\ Reached # {} /\ dev' = Done(written) /\ UNCHANGED losses
  \/ /\ wkc = 0 /\ Reached = {} /\ UNCHANGED <<dev, losses>>
  \/ /\ wkc = -1 /\ losses + fails < MaxFaults /\ losses' = losses + 1
     /\ dev' \in {dev, Done(written)}

(* do write while (wkc <= 0 && cnt++ < EC_DEFAULTRETRIES): again, or on.   *)
Again(wkc) == wkc <= 0 /\ tries < Retries

Retry(written, wkc, next) ==
  /\ wkc \in Counters /\ Datagram(written, wkc)
  /\ IF Again(wkc) THEN pc' = pc /\ tries' = tries + 1 ELSE pc' = next /\ tries' = 0

(***************************************************************************)
(* ecx_siigetbyte: the cache belongs to one slave.                         *)
(***************************************************************************)
KeepCache == esimap   \* a mutant

FreshCache == IF Me = esislave THEN esimap ELSE <<>>

(* With the EEPROM in the hands of the application it is taken first       *)
(* (ecx_eeprom2master).                                                    *)
Begin(op) ==
  /\ pc = "call" /\ todo # <<>> /\ Req.op = op
  /\ tries' = 0 /\ nackcnt' = 0 /\ edat' = Zero /\ estat' = Blank
  /\ UNCHANGED <<slaveVars, pdi, losses, fails, expired>>

Taken == pc' = (IF pdi[Me] THEN "force" ELSE "wait")

Enter ==
  /\ Begin("enter") /\ eectl' = pdi[Me] /\ todo' = Tail(todo) /\ pc' = "call"
  /\ UNCHANGED <<esislave, esimap, answers>>

Leave ==
  /\ Begin("leave")
  /\ pc' = IF eectl /\ ~pdi[Me] THEN "giveback" ELSE "call"
  /\ todo' = IF eectl /\ ~pdi[Me] THEN todo ELSE Tail(todo)
  /\ UNCHANGED <<eectl, esislave, esimap, answers>>

siigetbyte ==
  /\ Begin("byte") /\ esislave' = Me /\ esimap' = FreshCache
  /\ IF Req.a \in DOMAIN FreshCache
     THEN /\ answers' = <<[req |-> Req, val |-> FreshCache[Req.a], mine |-> ~pdi[Me]]>> \o answers
          /\ todo' = Tail(todo) /\ pc' = "call"
     ELSE Taken /\ UNCHANGED <<answers, todo>>
  /\ UNCHANGED eectl

readeeprom1 == Begin("first") /\ Taken /\ UNCHANGED <<eectl, todo, esislave, esimap, answers>>

readeeprom2 ==
  Begin("second") /\ pc' = "wait2" /\ UNCHANGED <<eectl, todo, esislave, esimap, answers>>

writeeeprom == Begin("write") /\ Taken /\ UNCHANGED <<eectl, todo, esislave, esimap, answers>>

esidump ==
  /\ Begin("dump") /\ eectl' = pdi[Me] /\ Taken
  /\ UNCHANGED <<todo, esislave, esimap, answers>>

(* By position, nobody sees to the control.                                *)
CallAP ==
  /\ (Begin("readAP") \/ Begin("writeAP")) /\ pc' = "wait"
  /\ UNCHANGED <<eectl, todo, esislave, esimap, answers>>

Call == Enter \/ Leave \/ siigetbyte \/ readeeprom1 \/ readeeprom2 \/ writeeeprom \/ esidump \/ CallAP

ToMaster == [s \in Slaves |-> [dev[s] EXCEPT !.pdi = FALSE]]
ToPdi == [s \in Slaves |-> [dev[s] EXCEPT !.pdi = TRUE]]

(* ecx_eeprom2master: force it from the application, then take it.         *)
TakeByForce ==
  /\ pc = "force" /\ (\E w \in Counters : Retry(ToMaster, w, "take"))
  /\ UNCHANGED <<rom, callVars, nackcnt, estat, edat, fails, expired>>

Take ==
  /\ pc = "take" /\ (\E w \in Counters : Retry(ToMaster, w, "wait"))
  /\ pdi' = IF pc' = "wait" THEN [pdi EXCEPT ![Me] = FALSE] ELSE pdi
  /\ UNCHANGED <<rom, esislave, esimap, todo, eectl, answers, nackcnt, estat, edat, fails, expired>>

(* ecx_eeprom2pdi, at the end of an SII function.                          *)
GiveBackZero ==   \* a mutant: the register gets the value for the master
  /\ pc = "giveback" /\ (\E w \in Counters : Retry(ToMaster, w, "call"))
  /\ pdi' = IF pc' = "call" THEN [pdi EXCEPT ![Me] = TRUE] ELSE pdi
  /\ todo' = IF pc' = "call" THEN Tail(todo) ELSE todo
  /\ UNCHANGED <<rom, esislave, esimap, eectl, answers, nackcnt, estat, edat, fails, expired>>

GiveBack ==
  /\ pc = "giveback" /\ (\E w \in Counters : Retry(ToPdi, w, "call"))
  /\ pdi' = IF pc' = "call" THEN [pdi EXCEPT ![Me] = TRUE] ELSE pdi
  /\ todo' = IF pc' = "call" THEN Tail(todo) ELSE todo
  /\ UNCHANGED <<rom, esislave, esimap, eectl, answers, nackcnt, estat, edat, fails, expired>>

(***************************************************************************)
(* ecx_eeprom_waitnotbusyFP: read the status until the slave is not busy   *)
(* or the time is up.  A status that did not arrive counts as zero: when   *)
(* the time is up, as not busy.                                            *)
(***************************************************************************)
Status(s) == [busy |-> dev[s].busy, nack |-> dev[s].nack, err |-> dev[s].err, r64 |-> s \in Long]

Polled(ready, timeout) ==
  /\ \E wkc \in Counters :
       /\ Datagram(dev, wkc)
       /\ estat' = IF wkc = 1 THEN Status(Heard) ELSE Blank
       /\ LET waiting == wkc <= 0 \/ estat'.busy
          IN  \/ ~waiting /\ pc' = ready /\ UNCHANGED expired
              \/ waiting /\ pc' = pc /\ UNCHANGED expired
              \/ waiting /\ expired' = TRUE
                 /\ pc' = IF estat'.busy THEN timeout ELSE ready
  /\ tries' = 0
  /\ UNCHANGED <<rom, callVars, nackcnt, edat, fails>>

(* The loop condition: once more after a refusal.                          *)
RepeatAnyway(n) == IF n < MaxNack THEN "command" ELSE "return"   \* a mutant

Repeat(n) == IF n > 0 /\ n < MaxNack THEN (IF Writes THEN "data" ELSE "command") ELSE "return"

(* After the first wait; after the second, where ecx_readeeprom2 does not  *)
(* look at the refusal bit.                                                *)
AfterWait(e) == IF e.err THEN "clear" ELSE IF Writes THEN "data" ELSE "command"

AnyAnswer(e) == IF Writes THEN "written" ELSE "fetch"   \* a mutant

AfterWait2(e) == IF e.nack /\ Req.op # "second" THEN "refused"
                 ELSE IF Writes THEN "written" ELSE "fetch"

waitnotbusyFP ==
  \/ pc = "wait" /\ ~ByPosition /\ Polled(AfterWait(estat'), "return")
  \/ pc = "wait2" /\ ~ByPosition
     /\ Polled(AfterWait2(estat'), IF Req.op = "second" THEN "return" ELSE Repeat(nackcnt))

waitnotbusyAP ==
  \/ pc = "wait" /\ ByPosition /\ Polled(AfterWait(estat'), "return")
  \/ pc = "wait2" /\ ByPosition /\ Polled(AfterWait2(estat'), Repeat(nackcnt))

NoError == [s \in Slaves |-> [dev[s] EXCEPT !.err = FALSE, !.nack = FALSE]]
Clear ==
  /\ pc = "clear" /\ pc' = IF Writes THEN "data" ELSE "command"
  /\ \E wkc \in Counters : Datagram(NoError, wkc)
  /\ UNCHANGED <<rom, callVars, tries, nackcnt, estat, edat, fails, expired>>

(* A write: the word to write, then the command.                           *)
Given == [s \in Slaves |-> [dev[s] EXCEPT !.data = 1]]
WriteData ==
  /\ pc = "data" /\ (\E w \in Counters : Retry(Given, w, "command"))
  /\ UNCHANGED <<rom, callVars, nackcnt, estat, edat, fails, expired>>

(* The command does nothing while the slave is busy or the EEPROM is not   *)
(* the master's.  When no slave took it there is nothing to wait for, but  *)
(* a lost answer (-1) passes for taken.                                    *)
Ordered ==
  [s \in Slaves |->
     IF dev[s].busy \/ dev[s].pdi THEN dev[s]
     ELSE [dev[s] EXCEPT !.busy = TRUE, !.pend = Word(Req.a), !.kind = IF Writes THEN "write" ELSE "read"]]

Issued(wkc) ==
  IF Req.op = "first" THEN "return" ELSE IF wkc # 0 THEN "wait2" ELSE Repeat(nackcnt)

Command ==
  /\ pc = "command" /\ (\E w \in Counters : Retry(Ordered, w, Issued(w)))
  /\ UNCHANGED <<rom, callVars, nackcnt, estat, edat, fails, expired>>

Refused ==
  /\ pc = "refused" /\ nackcnt' = nackcnt + 1 /\ pc' = Repeat(nackcnt + 1)
  /\ UNCHANGED <<slaveVars, callVars, tries, estat, edat, losses, fails, expired>>

Answered == IF Req.op # "second" /\ estat.r64 THEN 4 ELSE 2

Fetch ==
  /\ pc = "fetch" /\ nackcnt' = 0
  /\ \E wkc \in Counters :
       /\ Datagram(dev, wkc)
       /\ edat' = IF wkc = 1 THEN [of |-> Heard, from |-> dev[Heard].reg, width |-> Answered] ELSE edat
       /\ IF Again(wkc) THEN pc' = pc /\ tries' = tries + 1 ELSE pc' = "return" /\ tries' = 0
  /\ UNCHANGED <<rom, callVars, estat, fails, expired>>

Written ==
  /\ pc = "written" /\ nackcnt' = 0 /\ pc' = "return"
  /\ edat' = [of |-> Me, from |-> Word(Req.a), width |-> 0]   \* rval = 1
  /\ UNCHANGED <<slaveVars, callVars, tries, estat, losses, fails, expired>>

(***************************************************************************)
(* The end of a request.  A byte goes to the cache with all its answer, by *)
(* the width the slave had at start-up.                                    *)
(***************************************************************************)
Value(k) == IF k < edat.width THEN <<edat.of, edat.from + k>> ELSE <<0, -1>>

Cached(a) == [b \in 2 * Word(a) .. 2 * (Word(a) + Width(Me)) - 1 |-> Value(Word(b) - Word(a))]

(* All of the new bytes, and the old ones at other addresses.              *)
Overlay(new, old) == [b \in DOMAIN new \cup DOMAIN old |-> IF b \in DOMAIN new THEN new[b] ELSE old[b]]

Got == CASE Req.op = "byte" -> Cached(Req.a)[Req.a]
         [] Req.op \in {"second", "readAP", "dump"} -> Value(0)
         [] Writes -> <<edat.of, edat.from>>
         [] Req.op = "first" -> <<0, -1>>

Return ==
  /\ pc = "return" /\ Req.op # "dump"
  /\ pc' = "call" /\ todo' = Tail(todo)
  /\ esimap' = IF Req.op = "byte" THEN Overlay(Cached(Req.a), esimap) ELSE esimap
  /\ answers' = <<[req |-> Req, val |-> Got, mine |-> ~pdi[Me]]>> \o answers
  /\ UNCHANGED <<slaveVars, pdi, esislave, eectl, tries, nackcnt, estat, edat, losses, fails, expired>>

(* One answer of the dump; it goes on up to the size of the buffer or to   *)
(* an answer that is all ones, then the control goes back.                 *)
NextAddress == Req.a + 2 * Width(Me)

DumpOn == Word(NextAddress) <= DumpEnd /\ ~(edat.width > 0 /\ {edat.from, edat.from + 1} \subseteq Erased)

DumpStep ==
  /\ pc = "return" /\ Req.op = "dump"
  /\ answers' = <<[req |-> Req, val |-> Got, mine |-> ~pdi[Me]]>> \o answers
  /\ IF DumpOn THEN todo' = <<[Req EXCEPT !.a = NextAddress]>> \o Tail(todo) /\ pc' = "wait"
     ELSE IF eectl /\ ~pdi[Me] THEN pc' = "giveback" /\ UNCHANGED todo
     ELSE pc' = "call" /\ todo' = Tail(todo)
  /\ nackcnt' = 0 /\ edat' = Zero
  /\ UNCHANGED <<slaveVars, pdi, esislave, esimap, eectl, tries, estat, losses, fails, expired>>

Transfer == Clear \/ WriteData \/ Command \/ Refused \/ Fetch \/ Written

readeepromFP == ~ByPosition /\ ~Writes /\ Transfer
writeeepromFP == Req.op = "write" /\ Transfer
readeepromAP == Req.op = "readAP" /\ Transfer
writeeepromAP == Req.op = "writeAP" /\ Transfer

Master ==
  \/ Call \/ waitnotbusyFP \/ waitnotbusyAP \/ TakeByForce \/ Take \/ GiveBack \/ Return \/ DumpStep
  \/ pc # "call" /\ (readeepromFP \/ writeeepromFP \/ readeepromAP \/ writeeepromAP)
Next == Master \/ (\E s \in Slaves : Settle(s) \/ Vanish(s))

Spec == Init /\ [][Next]_vars
FairSpec == Spec /\ WF_vars(Master) /\ \A s \in Slaves : WF_vars(Settle(s))

-----------------------------------------------------------------------------
(***************************************************************************)
(* Properties.                                                             *)
(***************************************************************************)
Answers == ToSet(answers)

(* What the retries are there to cover: no more datagrams lost than one    *)
(* retry loop repeats, no time limit passed, no slave gone, and fewer      *)
(* refusals than are tried again, none at all in the pipelined reads.      *)
Everybody == \A s \in Slaves : dev[s].here
Covered ==
  /\ losses <= Retries /\ ~expired /\ Everybody
  /\ fails < (IF \E r \in Answers : r.req.op = "second" THEN 1 ELSE MaxNack)

(* The byte the caller gets is the byte at that address of that slave's    *)
(* EEPROM, and a write that reports success has been done.  By position,   *)
(* only where the master had the control of the EEPROM.                    *)
AnswerIsRight ==
  Covered => \A r \in Answers :
    /\ r.req.op \in {"byte", "second", "dump"} => r.val = <<r.req.s, Word(r.req.a)>>
    /\ r.req.op = "readAP" /\ r.mine => r.val = <<r.req.s, Word(r.req.a)>>
    /\ r.req.op = "write" \/ (r.req.op = "writeAP" /\ r.mine) =>
         r.val[2] = Word(r.req.a) /\ rom[r.req.s][Word(r.req.a)] = 1

(* Whatever is lost, refused or gone: an answer never comes from another   *)
(* slave's EEPROM, at worst it is zero or a wrong word of the same slave,  *)
(* and only a slave that was to be written is.  By position, that takes    *)
(* slaves that all stay where they are.                                    *)
Asked == {r.req : r \in Answers} \cup {Head(q) : q \in {todo} \ {<<>>}}
StaysWithItsSlave ==
  /\ \A r \in Answers : r.req.op = "readAP" /\ Everybody => r.val[1] \in {0, r.req.s}
  /\ \A r \in Answers : r.req.op # "readAP" => r.val[1] \in {0, r.req.s}
  /\ \A s \in Slaves : (\E w \in 0 .. Words - 1 : rom[s][w] # 0) =>
       \E q \in Asked : \/ q.op = "write" /\ q.s = s
                        \/ q.op = "writeAP" /\ (Everybody => q.s = s)

(* An SII function and a dump leave the EEPROM with whom they found it, in *)
(* the master's books and, if the writes arrived, at the slave.            *)
ControlGivenBack ==
  [][todo # <<>> /\ Req.op \in {"leave", "dump"} /\ todo' = Tail(todo) =>
       /\ pdi'[Me] = eectl
       /\ Covered' => dev'[Me].pdi = pdi'[Me]]_vars

(* Every list of requests comes to its end, lost datagrams, slow slaves    *)
(* and slaves that are gone included, but for one case: after a refusal,   *)
(* the loop that sends the command again does not end with the time limit, *)
(* and goes on for as long as the slave stays silent.                      *)
RequestsEnd ==
  \/ <>(pc = "call" /\ todo = <<>>)
  \/ <>[](nackcnt > 0) /\ <>(expired \/ \E s \in Slaves : ~dev[s].here)
=============================================================================
