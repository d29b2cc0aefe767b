CONSTANTS
    tick = tick
    daemon = daemon
    v1 = v1
    v2 = v2
    NoEntry = NoEntry
    NoFile = NoFile
    NoHeld = NoHeld
    NoAsk = NoAsk
    Agents <- MCAgents
    Daemons <- MCDaemons
    Contents <- MCContents
    Files <- MCFiles
    Parkings = {"no", "until"}
SPECIFICATION Spec
PROPERTY ManualKillsNothing
