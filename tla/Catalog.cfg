SPECIFICATION CatalogSpec
CONSTANTS
  r1 = r1
  r2 = r2
  o1 = o1
  o2 = o2
  Requests = {r1, r2}
  Orders = {o1, o2}
  MaxContent = 3
  MaxStock = 1
  MaxCounter = 2
SYMMETRY Symmetry
INVARIANTS
  EffectiveIsVetted
  CounterStraysForAReason
