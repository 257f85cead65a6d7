SPECIFICATION Spec
CONSTANTS
  Messages <- MCMessages
  Tails <- MCTails
  MaxChain = 3
INVARIANTS EncodersFit DecodersRecover ChainArrives SignaturesVerify
CHECK_DEADLOCK FALSE
