\* Liveness without a resync: two rivals of one name for a namespace, one of which lives
\* in it, a fault, a crash, and a Deployment that is changed, removed or replaced.
SPECIFICATION Spec

CONSTANTS
  a = a
  b = b
  n1 = n1
  n2 = n2
  None = None
  Foreign = Foreign
  Contours = {a, b}
  NameOf <- SameName
  Home <- BInN1
  Namespaces = {n1}
  CoreNamespaces = {}
  PreExisting = {}
  Managed <- TwoWorkloads
  Revs = {"v1"}
  Specs <- SpecsInN1
  Manifest <- InN1
  Limits <- AdversityLive
  InformersKeepUp = TRUE
  Tamperable = {"deployment"}
  Resyncing = FALSE

INVARIANTS
  ExclusiveTenancy

PROPERTIES
  DeletionCompletes
  Convergence
  Quiescence

\* With the budgets spent and every Contour settled nothing is left to do.
CHECK_DEADLOCK FALSE
