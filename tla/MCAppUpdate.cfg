SPECIFICATION MachineSpec
CONSTANTS
    p1 = p1
    p2 = p2
    exe = exe
    lib = lib
    extra = extra
    Procs <- TwoProcs
    Files <- ThreeFiles
    Exe = exe
    Versions <- FourVersions
    Base = 1
    Package <- Packages
    Broken <- SecondBroken
    Absent = Absent
    Torn = Torn
    KeepBackups = 1
    UserStarts = TRUE
    MaxRuns = 4
    MaxCrashes = 1
    MaxFaults = 1
    Exercises <- MCExercises
    OctetMax = 3
    SampleSpace = 256
    ReceiptBytes = 1
    Pids <- TwoPids
    MaxChanges = 2
    MaxVisits = 2
    MaxHappenings = 5
    MaxLetters = 1
    MaxClicks = 1
    Tables <- MCTables
    Searches <- MCSearches
    RowHeight = 2
    Overscan = 1
    ViewportHeight = 3
    va = va
    vb = vb
    Videos = {va, vb}
    NoVideo = NoVideo
    Lengths <- MCLengths
    Slots = {0}
    SeekPlaces = {1, 2}
    MaxOpenings = 2
    MaxExports = 2
    MaxGestures = 3
    ClipLength = 64
    Widths = {2, 4}
    MaxZoom = 16
    MinGap = 1
    ThumbWidth = 2
    NiceTicks = {1, 2, 5, 10, 15, 30}
    NiceThumbs = {1, 2, 5, 10}
    Interval = 2
    Seconds = {1, 2}
    MaxTime = 6
    pa = pa
    pb = pb
    Plugins = {pa, pb}
    GlobalSlots = 2
    PluginSlots = 2
    MaxLoads = 2
    MaxDocuments = 3
    MaxMessages = 3
    NoBridge = NoBridge
    NoDocument = NoDocument
SYMMETRY Symmetry
INVARIANTS UpdaterInv DesktopRight
PROPERTIES RecordedIsWhole NeverDowngrades
