SPECIFICATION FairSpec
CONSTANTS
    Threads = {t1, t2}
    Devices = {d1}
    NoThread = NoThread
    NoDevice = NoDevice
    Actions = {notepad}
    Notepad = notepad
    NoAction = NoAction
    MaxFaults = 1
INVARIANTS DataSurvives StartsOnlyAllowed
PROPERTIES ConfigurationKept RemainsAuthority AgentComesUp
