CONSTANTS
  Indexes = {0, 1}
  Custom = {1}
  MaxEvents = 5
  MaxTexts = 6
  JsonTexts = {103, 106}
  Words = {"", " ", "a", "b", "m", "n", "u", "x", "yes", "no", "admin", "viewer", "Admin", "other",
           "openai", "anthropic", "openai_chat_completions", "anthropic_messages",
           "https://host", "relative"}
  Bootstrap <- MCBootstrap
  Catalogs <- MCCatalogs
  Requests <- MCRequests
  MaxFacts = 3

SPECIFICATION MCSpec

\* Streams and runs end.
CHECK_DEADLOCK FALSE
INVARIANTS
  StreamsSound
  ConversationKept
  CostsSound
PROPERTIES
  RulesSound
