\* Two Contours in namespaces of their own.
SPECIFICATION SafetySpec

CONSTANTS
  a = a
  b = b
  n1 = n1
  n2 = n2
  None = None
  Foreign = Foreign
  Contours = {a, b}
  NameOf <- OwnNames
  Home <- Elsewhere
  Namespaces = {n1, n2}
  CoreNamespaces = {}
  PreExisting = {}
  Managed <- OneOfEach
  Revs = {"v1"}
  Specs <- SpecsApart
  Manifest <- Apart
  Limits <- Calm2
  InformersKeepUp = TRUE
  Tamperable = {}
  Resyncing = FALSE

INVARIANTS
  NoOrphans

\* With the budgets spent and every Contour settled nothing is left to do.
CHECK_DEADLOCK FALSE
