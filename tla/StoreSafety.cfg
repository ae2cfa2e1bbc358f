CONSTANTS
  Groups = {g1, g2}
  Prints = {p1, p2}
  None = None
  Torn = Torn
SYMMETRY Symmetry
SPECIFICATION StoreSpec
INVARIANTS StoreTypeOK OwnPrints Saved NeverTorn AuthIdFresh
