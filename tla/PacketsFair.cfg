CONSTANTS
    SEQMOD = 8
    Pnbufs = 2
    Senders = {"a"}
    Losable = {"DATA", "ACK", "NAK", "TIMEOUT", "XMT_RESET", "ACK_RESET", "REQ_RESET"}
    Patient = TRUE
    MaxLosses = 3
    MaxSend = 3
    MaxResets = 0
    QueueSize = 1
SPECIFICATION FairSpec
PROPERTIES AllGiven
CHECK_DEADLOCK FALSE
