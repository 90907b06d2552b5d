SPECIFICATION Spec
CHECK_DEADLOCK FALSE
INVARIANT TypeOK JumpsFresh LutFollowsTlb SumsTrue OperandsCurrent MemoryCurrent EntryLoads
PROPERTIES KeepsSaves FlashReadsBack KeepsFlow
