SPECIFICATION Spec
CONSTANTS
    N = 2
    Clients = {k1}
    Free = Free
    Modes = {"conflict"}
    MaxCrashes = 0
    Offered = {"run", "attack"}
PROPERTY FrozenNeverResumes
