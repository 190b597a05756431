\* Is a picture of a MJPEG camera shown?
SPECIFICATION MjpegSpec
CONSTANTS
    MjpegParts = 2
    MjpegSizes = {1, 2}
    MaxMjpegPiece = 5
    MjpegLimit = 20
PROPERTY MjpegShown
CHECK_DEADLOCK FALSE
