SPECIFICATION StoresSpec
CONSTANTS
  \* Notify
  Users = {1, 2, 3}
  Keys = {11, 12, 13}
  NoName = 0
  \* Channels
  Servers = {"A", "B"}
  Chans = {"c"}
  ChatUsers = {"r1", "r2", "op"}
  Home <- MCHome
  Level <- MCLevel
  Muzzled = {}
  BadNames = {}
  AllowNewChannels = TRUE
  Unreachable = {"r2"}
  MaxWire = 2
  MaxLinks = 2
  \* Ignores
  IgnoreNames = {"me", "a", "b", "x"}
  KnownNames = {"me", "a", "b"}
  OwnName = "me"
  \* Share
  Sharers = {"c", "d"}
  Songs = {"s", "b"}
  Texts = {"t", "u"}
  PlainNames = {"p"}
  Blocked = {"b"}
  CanIdentify = {"c"}
  FileCerts <- MCFileCerts
  SongCerts <- MCSongCerts
  Raw <- MCRaw
  MinCertDate = 1
  SongCertTimeout = 1
  MaxSharedFiles = 1
  ParseResult = TRUE
  CounterSize = 4
  Objects = {1, 2, 3}
  MaxNow = 2
  \* Sockets
  Socks = {"s1", "s2"}
  TableSize = 3
  Ports = {1}
  Peers = {"q"}
  \* Certs
  Fields = 2
  CertTexts <- MCCertTexts
  CertIds = {"s"}
  Versions = {0, 1}
  \* Command
  Char <- MCChar
  TextArg <- MCTextArg
  BinaryArg <- MCBinaryArg
  Numeral <- MCNumeral
  MaxArgs = 3
  SizeMod = 30
  Wild = Wild
INVARIANTS
  NotifySound
  ChannelsSound
  RostersAgree
  IgnoresSound
  ShareSound
  SocketsSound
  FitsAndReadsBack
