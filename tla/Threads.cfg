\* Threads that serve, take or store something, each by itself: threads, descriptors and
\* users of a source are given back; they go on after failures; servers end.
SPECIFICATION ThreadsSpec
CONSTANTS
    Clients = {c1, c2}
    Tls = TRUE
    Main = Main
    None = None
    RtspConnections = 2
    RtspDescriptors = 2
    PixelProtocols = {"tcp", "udp bin", "udp txt"}
    PixelServers = 3
    PixelClients = 3
    MaxFfFrame = 3
    MaxFfHanded = 2
    MaxFfFiles = 2
    GrabKinds = {"jpeg", "png", "bmp", "filesystem", "ffmpeg", "gstreamer", "v4l", "mjpeg", "libcamera", "pipewire", "plugin"}
    Pages = {b1, b2}
    Publishers = {p1, p2}
    Peers = {k1}
    MaxNotices = 3
INVARIANTS ServerInv ResourcesReturned  PixelThreadsOwned  
 
PROPERTIES ServersEnd FfCatchesUp 
CHECK_DEADLOCK FALSE
