\* Every kind of field, values at the limits of the scaled words.
SPECIFICATION CodecSpec
CONSTANTS
  GroupBits = 5
  WordBits = 12
  HalfBits = 6
  MaxMarshalSize = 1000
  BitmapTags = 2
  MaxCalls = 3
  MsgType <- FullType
  OldType <- OlderType
  FieldValues <- Values
  OneofValues <- OneofChoices
  ExtValues <- ExtChoices
  Samples <- OtherMessages
INVARIANTS WireRoundTrip MergeIsConcat UnknownKept TextRoundTrip JsonRoundTrip
CHECK_DEADLOCK FALSE
