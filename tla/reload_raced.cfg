SPECIFICATION Spec
CONSTANTS
    good = good
    noparser = noparser
    none = none
    some = some
    control = control
    Bodies <- MCBodies
    Files <- MCFiles
    NoFile = NoFile
    Roots <- MCRoots
    WorkingDirs <- MCWorkingDirs
    Printable = {none, some}
    Globs = {""}
    Keys <- MCKeys
    Definitions <- MCDefinitions
    Startable <- MCStartable
    Mortal <- MCMortal
    KeywordLists = {none, some, control}
    NoKeywords = none
    Threads <- MCThreads
    Nobody = Nobody
    Slots = {s1, s2, s3}
    NoSlot = NoSlot
    Handlers = {h1, h2}
    Main = Main
    Signal = Signal
    Offered <- Submitted
    Seeds <- RuntimeSeeds
    NoRuntime = NoRuntime
    MaxSaves = 2
    MaxBoots = 1
INVARIANT
    SavedIsRunning
CHECK_DEADLOCK FALSE
