SPECIFICATION DnsSpec
CONSTANTS
  Names <- MCNames
  Wild = Wild
  NoAddress = NoAddress
  NoName = NoName
  max_retry = 5
PROPERTIES
  ImplementsResolver
  LookupEnds
