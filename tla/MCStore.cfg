\* state, blocks, transactions, tries, indexes, filters and the encoding
CONSTANTS
    r1 = r1
    r2 = r2
SPECIFICATION Spec
INVARIANTS  SearchSound FiltersSound StateSound BuildSound TrieSound EncodingSound
CHECK_DEADLOCK FALSE
