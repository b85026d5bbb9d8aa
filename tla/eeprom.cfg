\* Two slaves, one with long answers; two losses or refusals, one slave may go.
SPECIFICATION FairSpec
CONSTANTS
  Slaves = {1, 2}
  Long = {2}
  Words = 8
  DumpEnd = 4
  Erased <- MCErased
  Jobs <- MCJobs
  Retries = 1
  MaxNack = 2
  MaxFaults = 2
  MayLeave = {1}
INVARIANTS AnswerIsRight StaysWithItsSlave
PROPERTIES ControlGivenBack RequestsEnd
CHECK_DEADLOCK FALSE
