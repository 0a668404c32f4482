\* A key is added to a mapping and to the last mapping in it.
SPECIFICATION Spec
CONSTANTS
  Updaters = {u1}
  NoOne = NoOne
  Layouts <- NestedLayouts
  Texts <- NestedTexts
  Tags <- SomeTags
  MaxEdits = 0
PROPERTIES
  UpdateIsExact
