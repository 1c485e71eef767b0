SPECIFICATION Spec
CONSTANTS
  Word = 16
  P = 13
  G = 2
  Byte = 4
  Delta = 185
  Cipher <- MCCipher
  Decipher <- MCDecipher
  MaxLength = 20
  Ten = 2
  SW <- MCSW
  MsgHeartbeat = 100
  ClientUid = 3
  PrivateKeys = {0, 5, 15}
  Letters <- MCLetters
  Sends = 1
INVARIANT NeverClosedByMessages
CHECK_DEADLOCK FALSE
