SPECIFICATION Spec
CONSTANTS
  Pages = {p1, p2, p3}
  MaxPages = 3
INVARIANTS TypeOK CountsAreTrue AllReturned
