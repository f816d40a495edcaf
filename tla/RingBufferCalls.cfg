\* Three cells: the smallest capacity with a first, a middle and a last cell.
CONSTANTS
  N = 3
  Item = {zero, one, two}
  zero = zero
  one = one
  two = two
  Zero = zero
SPECIFICATION Spec
INVARIANTS TypeOK FullHasEqualIndices FillIsTheLoop
PROPERTY DequeSpec
