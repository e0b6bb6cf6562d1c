SPECIFICATION Spec
CONSTANTS
  level = level
  menu = menu
  unknown = unknown
  engine = engine
  hero = hero
  tune = tune
  title = title
  logo = logo
  missing = missing
  nHero = nHero
  nTune = nTune
  nLogo = nLogo
  texture = texture
  sound = sound
  NoName = NoName
  NoAsset = NoAsset
  NoGroup = NoGroup
  Assets <- MCAssets
  Names <- MCNames
  Classes <- MCClasses
  Name <- MCName
  Class <- MCClass
  Groups <- MCGroups
  DefaultGroup = engine
  Manifest <- MCManifest
  MaxRefs = 2
  Reload = TRUE
INVARIANTS CompleteMeansQuiet LookupReturnsLoaded LastCommandDecides
PROPERTIES QueueStableWhileLoading NoneWaitsForEver ImplementsStore
