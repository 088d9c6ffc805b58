SPECIFICATION AccessSpec
CONSTANTS
  Objects = {o1, o2, o3}
  Impls = {i1, i2, i3}
  Keys = {k1, k2}
  v1 = v1
  v2 = v2
  Values = {v1, v2}
  TypeOf <- MCTypeOf
  False = v1
INVARIANT OneOwner
INVARIANT PointersHold
PROPERTY ImplementsOptionsValue
SYMMETRY Symmetry
