\* Search, load, compile, record, generate, replay.
SPECIFICATION SafetySpec
CONSTANTS
  Names <- NameSet
  Root <- RootName
  Begins <- Beginnings
  DotEnv = ".env"
  DotSsh = ".ssh"
  IdRsa = "id_rsa"
  PemNames = {"key.pem"}
  CredentialLike <- Credentials
  PrefixLength = 4
  PathLength = 5
  MandatoryPrograms <- ShellPrograms
  Depth = 3
  Layouts <- SomeLayouts
  Replacements <- SomeReplacements
  Acts <- SomeActs
  MaxRules = 2
  MaxActs = 3
INVARIANTS
  TypeOK
  DiscoveredIsNearest
  
  GeneratedStaysClose
  CredentialsStayOut
  
  SyncPermitsWhatPolicyAllows
PROPERTIES
  RelearningTakesNothingBack
CHECK_DEADLOCK FALSE
