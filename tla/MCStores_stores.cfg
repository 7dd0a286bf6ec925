SPECIFICATION MCSpec
CONSTANTS
  Items <- MCItems
  Clients = {"c1", "c2"}
  MaxVersion <- MCMaxVersion
  MaxCommands = 3
  MaxNodes = 2
  Permissions <- MCPermissions
  Names = {x, y}
  DirectoryFaults = {}
  Values = {x, y}
  Contents = {x, y}
  Roles = {"admin"}
  Groups = {1, 2}
  GroupKeys <- MCGroupKeys
  UserKey = 5
  TenantKey = 8
  CommonKey = 9
  TheTenant = 10
  CommonTenant = 11
  TenantGroup = 12
  Codes <- MCCodes
  RotateBy <- MCRotateBy
  Format <- MCFormat
  StartMonth <- MCStartMonth
  ReferenceYear <- MCReferenceYear
  Callers = {"c1", "c2"}
  Days <- MCDays
  MonthLength = 2
  MaxIssued = 2
  SequenceFaults = {}
SYMMETRY names
INVARIANTS CreateNeverReplaces DeletesOnlyMark TreeIsWellFounded AncestorsAreParents
INVARIANTS GroupsSurvive AutoGroupsAgree  FormattedIsUnique
PROPERTIES ReplacedAsAllowed
CHECK_DEADLOCK FALSE
