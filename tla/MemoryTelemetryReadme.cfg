SPECIFICATION MemorySpec
CONSTANTS
    Modules = {1}
    Chips = {11}
INVARIANTS ReadIsCurrent
