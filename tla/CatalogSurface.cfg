SPECIFICATION Spec
CONSTANTS
  Names <- MCNames
  Fields = {"field"}
  Cursors = {"c1", "c2"}
  Offers <- MCOffers
  MaxRedeploys = 1
  First = "first"
  None = "none"
INVARIANTS TypeOK NothingLost
PROPERTIES CatalogComplete WalkEnds
