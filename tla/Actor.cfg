SPECIFICATION MCSpec
CONSTANTS
  a1 = a1
  a2 = a2
  area = area
  None = None
  Actors = {a1, a2}
  Places = {}
  Global = None
  Rules = "iwd2"
  Duration = 2
  MaxTicks = 1
  MaxQueue = 3
  Scripts <- TalkScripts
  Orders <- Walk
  Scenes <- TalkScenes
  TicksPerSec = 2
  Menu <- MCMenu
  Repeated <- MCRepeated
  MaxEffects = 3
  MaxTime = 5
  Quivers <- MCQuivers
  Weapons <- MCWeapons
  Packs <- MCPacks
  Items <- MCItems
  Supply <- MCSupply
  Wanting <- MCWanting
  MaxStack = 2
INVARIANTS RespondsFreely PartyNeverAborts  NothingVanishes
PROPERTIES DialogSparesSpells PlanescapeKeepsTheRest InTheirTime NobodyLeftOut RefreshSetsRight
VIEW ActorView
