SPECIFICATION FairSpec
CONSTANTS
    ch1 = ch1
    ch2 = ch2
    Status = {"closed", "opened"}
    Channel = {ch1}
    Main = Main
    NULL = NULL
PROPERTY Reconnects
