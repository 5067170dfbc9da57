\* Three processes over three steps of the clock; four stores and three faults: a crash
\* that leaves a temporary file, a cleanup that fails, and a store after each; three
\* replacements beside or after each other, one load and one fault: two first ones that both
\* make a key, three that share a temporary file, or one that is cut short, one that meets
\* what it left, and one that goes through; two transactions and four faults: a step that
\* fails and all of the rollback.
CONSTANTS
  Processes = {service, successor, probe}
  Nobody = Nobody
  MaxCounter = 3
  MaxStores = 4
  MaxStoreFaults = 3
  MaxRequests = 3
  MaxReads = 1
  MaxRequestFaults = 1
  MaxTransactions = 2
  MaxOperationFaults = 4
SPECIFICATION FilesSpec
SYMMETRY Symmetry
INVARIANTS
  UsedOnce
  PreferenceSound
  RepositorySound
  AllOrNothing
PROPERTIES
  ImplementsPreference
  StaysReadable
CHECK_DEADLOCK FALSE
