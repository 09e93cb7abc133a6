SPECIFICATION Spec
CONSTANTS
  Word = 64
  MaxRate = 2
  Fade = 4
  Leftover = {63}
  MaxFds = 1
  Interval = 3
  MaxPoll = 1
  MaxWait = 1
  MaxNow = 6
  MaxEvents = 1
CHECK_DEADLOCK FALSE
INVARIANTS CpuInRange RateRecovers SampleLag
