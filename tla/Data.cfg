\* Pictures, and what is kept, each by itself: memory, order, files, encodings and what
\* filters make of them; database, dashboards, sessions, configuration.
SPECIFICATION DataSpec
CONSTANTS
    WriterKinds = {"jpeg", "extpipe", "plugin", "gwavi", "avi", "gstreamer", "newsource", "pixelflood", "pipewire", "loopback"}
    MaxWriterFrame = 3
    MaxHanded = 2
    MjpegParts = 3
    MjpegSizes = {0, 2}
    MaxMjpegPiece = 5
    MjpegLimit = 9
    PxCommands = 4
    PxClients <- MCPxClients
    PxBuffer = 9
    ViewClients = {"v1", "v2"}
    ViewSources = 2
    GridCells = 2
    MaxViewTime = 2
    DelayViewers = {"v1"}
    DelayLengths <- MCDelayLengths
    MaxDelayFrame = 4
    Takers = {"k1", "k2"}
    TakerKinds = {"viewer", "recorder", "trigger", "delayed", "turned"}
    CameraEncodings = {"jpeg", "raw"}
    MaxScene = 2
    Columns = 3
    Rows = 3
    Scenes <- MCScenes
    FilterLists <- MCFilterLists
    MaxPictures = 3
    VncClients = {c1, c2}
    VncColumns = 2
    VncRows = 2
    VncContents <- MCVncContents
    MaxVncUpdates = 2
    MaxArchiveFiles = 2
    DashTabs = {"t1", "t2", "t3"}
    DashServers = {"s1", "s2"}
    DashServerOf <- MCDashServerOf
    DashIds = {"cam"}
    MaxDashRows = 2
    Browsers = {"b1", "b2"}
    WebUsers = {alice}
    CookieAge = 1
    MaxWebTime = 2
    ConfigNames <- MCConfigNames
    MaxConfigured = 3
    StreamKinds = {"mjpeg", "mpng", "theora", "png", "jpg", "file", "fs-db"}
    MaxStreamFrame = 2
    MaxStreamParts = 4
    LcdClients = {"k1", "k2"}
    LcdScreens = {"s", "t"}
    LcdWidgets = {"w"}
    MaxLcdScreens = 2
    MaxLcdWidgets = 1
    Ticks = 3
    MaxTick = 42
    ControlKinds = {"none", "software", "v4l"}
    ControlValues = {0, 37449, 65536, 70000}
    RangeMin <- MCRangeMin
    RangeMax = 4
    Directions = {0, 1}
INVARIANTS WriterSound  PxInOrder  DerivedSound  FiltersSound
INVARIANTS LcdSound    DashboardEntries SessionsKept ConfigOrder
INVARIANTS RestSound StatsSound
CHECK_DEADLOCK FALSE
