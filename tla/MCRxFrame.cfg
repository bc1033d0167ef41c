CONSTANTS
    SeqLength = 4
    Self = self
    Master = a2
    a1 = a1
    a2 = a2
    Station = {a1, a2, a3}
    Frames <- MCFrames
    HostNameMax = 64
    EtherMax = 1518
    MaxOut = 16
    None = None
SPECIFICATION Spec
INVARIANTS
    TypeOK
    InStep
    Understood
    Delivered
    OverrunOnlyBeyond
    BlocksFreed
PROPERTY
    FramesEnd
