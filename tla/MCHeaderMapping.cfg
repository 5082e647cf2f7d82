SPECIFICATION Spec
CONSTANTS
  Blocks = 4
  MaxBuilds = 2
INVARIANTS TypeOK MappingIsValid ReadsBack
