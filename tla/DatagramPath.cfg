SPECIFICATION PathSpec
CONSTANTS
    MaxInstruction = 4
    Payloads = {1, 2}
    SeenCap = 2
    MaxSent = 2
    MaxOpened = 6
INVARIANTS PathTypeOK AssembledIsSent CompleteIsDelivered SizeIsHeld ReplaysAreOld
PROPERTIES EchoesMoveForward
CHECK_DEADLOCK FALSE
