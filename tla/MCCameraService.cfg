SPECIFICATION Spec
CONSTANTS
    ch1 = ch1
    ch2 = ch2
    Status = {"closed", "opened", "other"}
    Channel = {ch1, ch2}
    Main = Main
    NULL = NULL
SYMMETRY MCSymmetry
INVARIANTS
    TypeOK
    OneAtATime
    SlotHoldsCommand
    OpenAsConfigured
