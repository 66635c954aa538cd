CONSTANTS
  Elements = {e1, e2, e3, e4}
  HeadSlot = head
  NULL = null
SPECIFICATION FairSpec
INVARIANTS
  TypeOK
  LinksAgree
  NoUseAfterFree
PROPERTIES
  CleanupEnds
  CleanupCompletes
  ImplementsSequence
