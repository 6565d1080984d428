\* The informers lag behind while a workload and an RBAC object are changed, removed or
\* replaced. The resync period is what makes up for it.
SPECIFICATION Spec

CONSTANTS
  a = a
  b = b
  n1 = n1
  n2 = n2
  None = None
  Foreign = Foreign
  Contours = {a}
  NameOf <- OwnNames
  Home <- Elsewhere
  Namespaces = {n1}
  CoreNamespaces = {}
  PreExisting = {}
  Managed <- RoleAndDeployment
  Revs = {"v1"}
  Specs <- SpecsInN1
  Manifest <- InN1
  Limits <- AdversityLag
  InformersKeepUp = FALSE
  Tamperable = {"deployment", "controllerRole"}
  Resyncing = TRUE

PROPERTIES
  CreatesOnlyWhileFinalized
  StrangersKept
  Convergence

\* With the budgets spent and every Contour settled nothing is left to do.
CHECK_DEADLOCK FALSE
