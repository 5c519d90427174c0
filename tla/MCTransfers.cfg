SPECIFICATION FairSpec
CONSTANTS
  q1 = q1
  q2 = q2
  q3 = q3
  g1 = g1
  g2 = g2
  Requests = {q1, q2, q3}
  Gateways = {g1, g2}
  Home <- HomeOfThree
  KeyOf <- KeyOfThree
  NoKey = NoKey
  References = {"t1", "t2"}
  NoRef = "none"
  MaxSoapAttempts = 2
  MaxReferenceAttempts = 2
  CommitFates = {"committed", "rolled back"}
  MaxFaults = 1
INVARIANTS
  OneTransferPerKey
  ClosedWhenFinal
  LineTellsExchange
  ToldAsRecorded
PROPERTIES
  TerminalIsFinal
  TransferSettles
CHECK_DEADLOCK FALSE
