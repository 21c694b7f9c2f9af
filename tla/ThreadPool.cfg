\* The receiving pool of libupnp, with the smallest ratio of jobs to threads.
SPECIFICATION FairSpec
CONSTANTS
  Main = Main  NoJob = NoJob
  w1 = w1  w2 = w2  w3 = w3  w4 = w4
  mini = mini  ssdp = ssdp  http = http  found = found
  Worker = {w1, w2, w3, w4}
  Job = {mini, ssdp, http, found}
  Lasting = {mini}
  Priority <- PriorityDef
  Adds <- AddsDef
  MinThreads = 1
  MaxThreads = 2
  JobsPerThread = 0
INVARIANTS CountsExact JobsOnce ThreadsBounded
CHECK_DEADLOCK FALSE
PROPERTIES JobsEnd CallsReturn
