CONSTANTS
    SEQMOD = 8
    Pnbufs = 2
    Senders = {"a"}
    Losable = {"DATA", "ACK", "NAK", "XMT_RESET", "ACK_RESET", "REQ_RESET"}
    Patient = FALSE
    MaxLosses = 3
    MaxSend = 9
    MaxResets = 1
    QueueSize = 1
SPECIFICATION Spec
INVARIANTS PacketTypeOK InOrder FreedIsGiven NAKedIsHeld
CHECK_DEADLOCK FALSE
