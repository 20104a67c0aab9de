SPECIFICATION Spec
CONSTANTS
  NoDoc = NoDoc
  NoOrder = NoOrder
  Editable <- Edited
  FormKeys <- NewId
  FormNames <- OneName
  InitialDocs <- Radios
  MaxEdits = 2
  MaxConns = 2
  MaxOut = 1
CHECK_DEADLOCK FALSE
INVARIANTS
  KeysStayUnique
  InStepWhenQuiet
  LastSaveStands
PROPERTIES
  FormEditsItsEntry
  MoveExchangesRows
