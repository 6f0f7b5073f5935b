SPECIFICATION Spec
CONSTANTS
  Names = {"eth", "lo", "wlan"}
  Kind <- MCKind
  ByName <- MCByName
  Preferences <- MCPreferences
  StaticConfigurations <- MCStaticConfigurations
  Leases <- MCLeases
  Reports <- MCReports
  MaxLeases = 2
  MaxRecords = 2
  Broadcast = 7
  DhcpConfigurations <- MCDhcpConfigurations
  RawLeases <- MCRawLeases
  DnsRecords <- MCDnsRecords
  Timeout = 2
  OutputLimit = 1
  MaxOutput = 2
INVARIANTS AddressingKept ConfigurationsSound
PROPERTY CallsKept
CHECK_DEADLOCK FALSE
