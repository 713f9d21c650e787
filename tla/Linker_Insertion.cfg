\* Definitions that arrive in any order.
CONSTANTS
  Parts = {"linker"}
  Texts <- TokenTexts
  TOKEN_MEM = 1
  Files <- FilesToRead
  MAX_DEFS = 2
  MAX_USES = 2
  MAX_WORDS = 3
  ADDR_MEM_SIZE = 3
  MaxModules = 3
  Sources <- DefSources
SPECIFICATION LSpec
INVARIANT
  DefinitionsFound
