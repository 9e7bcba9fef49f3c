CONSTANTS
    a1 = a1
    a2 = a2
    AppThreads = {a1, a2}
    MaxLength = 5
    Packets <- MCPackets
    HeaderSize = 1
    SuffixSize = 1
    AnswerSizes = {2, 3}
    MaxPacket = 8
    NameLimit = 4
    JumpLimit = 2
SPECIFICATION Spec
INVARIANTS
    QuietAfterStop
    NameIsBounded
    AnswersTheQuestion
