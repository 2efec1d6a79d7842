SPECIFICATION FairSpec
CONSTANTS
  Senders = {s1}
  MaxSends = 2
  MaxFrames = 1
  MaxOps = 1
  HasPower = TRUE
  QueueLen = 1
INVARIANT TxResultIsOwn
INVARIANT RadioListens
INVARIANT DriverInv
PROPERTY OnlyOwnFrameOnAir
PROPERTY RxServed
PROPERTY SendReturns
