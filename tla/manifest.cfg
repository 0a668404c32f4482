\* Two updaters of one file of two documents, two changes of their targets.
SPECIFICATION Spec
CONSTANTS
  Updaters = {u1, u2}
  NoOne = NoOne
  Layouts <- SomeLayouts
  Texts <- SomeTexts
  Tags <- SomeTags
  MaxEdits = 2
INVARIANTS
  TypeOK
  HandoversAreEdits
PROPERTIES
  UpdateIsExact
  NewestIsWritten
  Settles
