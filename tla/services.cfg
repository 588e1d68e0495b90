\* A pool with more users than connections, two goroutines on one connection, two
\* operations on a database that comes and goes; three wheels of three slots;
\* files of one line; blocks of 16 bytes and copies of at most 8; frames of at
\* most 3 bytes; lines of replies of at most 16 characters.
SPECIFICATION ServicesSpec
CONSTANTS
  Users = {u1, u2, u3}
  MaxActive = 2
  MaxIdle = 1
  Wait = TRUE
  Testing = TRUE
  MaxGets = 1
  Busy = {u1}
  MaxCmds = 2
  MaxPush = 2
  Muxers = {m1, m2}
  MaxSends = 2
  Ops = {o1, o2}
  OpCap = 1
  ReconnLimit = 1
  MaxLinks = 4
  SlotCnt = 3
  LevelCnt = 4
  Jobs = {j1}
  MaxTicks = 45
  MaxFileCount = 2
  MaxFileSize = 1
  MaxLines = 5
  MaxDays = 2
  MaxStarts = 2
  MaxBlockSize = 16
  InputMargin = 3
  MinMatch = 2
  MaxCopy = 8
  Copy1Lens = 3
  Copy1Offsets = 6
  LitShort = 4
  ByteSize = 8
  TableSize = 5
  SkipUnit = 4
  Buffered = TRUE
  SnapInputs <- Data
  Radix = 4
  LenBytes = 2
  MaxPacketSize = 3
  FrameMessages <- Messages
  MaxFrames = 2
  Replies <- Answers
  SentCommands <- Sent
  MaxReplies = 2
  MaxNesting = 2
  LineRoom = 16
  Structs <- SavedStructs
  Pushes <- Notices
  IntBits = 8
  MaxSaves = 3
INVARIANTS ActiveExact CleanIdle MuxOwnReply  TwExact LogKept
INVARIANTS SnappyStream FramesIntact RespIntact RepliesKept
PROPERTIES GetReturns
