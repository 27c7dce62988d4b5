SPECIFICATION SaveSpec
CONSTANTS
  Areas = {a1, a2}
  Names = {n1}
  Quick = Quick
  None = None
  MaxId = 2
  MaxChanges = 1
INVARIANTS LocationsLead
