SPECIFICATION FairSpec
CONSTANTS
  Payloads <- MCPayloads
  Hellos <- MCHellos
  FixedLen = 2
  NoName = NoName
INVARIANTS NoOverread NameInside FindsName
PROPERTY Terminates
