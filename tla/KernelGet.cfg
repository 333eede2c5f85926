SPECIFICATION Spec
CONSTANTS
    g1 = g1
    g2 = g2
    file = file
    video = video
    song = song
    Get = {g1, g2}
    Object = {file, video, song}
    Size <- MCSize
    Cut = {file, video}
    ChunkSize = 2
    Media = {video, song}
    Enc = {file}
    Ranges <- MCRanges
    MaxGet = 1
    MaxRouter = 1
    Placed <- MCPlaced
    MaxLost = 1
    Word = 8
    None = None
INVARIANTS NoAbort StreamsInOrder RangeServed RouterAccount
PROPERTIES EveryGetAnswered GetService
CHECK_DEADLOCK FALSE
