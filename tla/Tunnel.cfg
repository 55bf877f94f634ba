SPECIFICATION Spec
CONSTANTS
    BLOCK = 3
    WORD = 2
    IVLength = 2
    Addresses <- MCAddresses
    Payload <- MCPayload
INVARIANTS TypeOK KeysInOrder KeyUsedOnce StaysInBuffer Deciphered HeaderUnderstood
CHECK_DEADLOCK FALSE
