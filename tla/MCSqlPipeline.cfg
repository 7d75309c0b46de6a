SPECIFICATION Spec
CONSTANTS
  Tables = {invoices, suppliers}
  DefaultTable = erp_records
INVARIANTS
  TypeOK
  RefusedForOffencesOnly
  FirstLookDecides
  OfflineErrorHasCause
PROPERTIES
  ImplementsQueryPath
