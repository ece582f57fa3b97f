CONSTANTS
  MaxAuthAttempts = 6
  MaxNonceUses = 3
  MaxNonces = 6
  NoSession = NoSession
SPECIFICATION DigestSpec
INVARIANT AtMostFourSends
PROPERTY NoReplayedHeader
