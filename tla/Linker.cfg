\* Files of up to seven characters, for tokens that outgrow two characters
\* twice; files of one module or two with up to three words, of which every
\* prefix and every single damage is read; up to three modules linked in
\* three words of memory, definitions in any order.
CONSTANTS
  Parts = {"tokens", "reader", "linker"}
  Texts <- TokenTexts
  TOKEN_MEM = 2
  Files <- FilesToRead
  MAX_DEFS = 2
  MAX_USES = 2
  MAX_WORDS = 3
  ADDR_MEM_SIZE = 3
  MaxModules = 3
  Sources <- AllSources
SPECIFICATION LSpec
INVARIANTS
  TokensAreLocated
  ReadsWhatWasWritten
  MemoryMapIsLinked
  NoSymbolLost
  ModesAgree
  UsesAccounted
