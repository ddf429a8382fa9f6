SPECIFICATION CodecsSpec
CONSTANTS
  Width = 5
  MaxOptions = 8
  ByteMax = 15
  BodyMax = 48
  BodyMin = 30
  PacketMax = 3
  EthLen = 1
  UdpLen = 1
  NoPacket = NoPacket
  Malformed = Malformed
  Frames <- MCFrames
  Responses <- MCResponses
  SubnetArgs <- AllSubnets
  AddressArgs <- AllOctets
  MacArgs <- AllMacs
  MessageArgs <- CutPieces
  VectorArgs <- Vectors
  FrameArgs <- SendArgs
  AcctArgs <- AcctCalls
  LineArgs <- Lines
  EntryArgs <- KeysAndValues
  CommandArgs <- CommandLines
  LogArgs <- LogCalls
  DataArgs <- DataSeqs
  QuotedArgs <- QuotedSeqs
  MaxStack = 3
  MaxAttributes = 6
  RadByteMax = 255
INVARIANT RequestAsMeant
INVARIANT ResponseAsBuilt
INVARIANT RangeIsInterval
INVARIANT AddressTextRoundTrip
INVARIANT AppendInPieces
INVARIANT DigestIsMD5
INVARIANT ChecksumVerifies
INVARIANT AcctAccepted
INVARIANT LineAccepted
INVARIANT DumpReadBack
INVARIANT OptionsAsMeant
INVARIANT MessageNamed
INVARIANT EncodingRoundTrip
