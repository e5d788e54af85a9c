\* An article loses a tag.
CONSTANTS
  r1 = r1
  r2 = r2
  Authors = {"u"}
  Admin = "adm"
  Tags = {"t"}
  Reqs = {r1, r2}
  NoDoc = NoDoc
  NoField = NoField
  Nobody = Nobody
  MaxPins = 1
  MaxArticles = 1
  Seeds <- MCSeeds
SPECIFICATION ArtSpec
SYMMETRY Symmetric
INVARIANT TagsShown
CHECK_DEADLOCK FALSE
