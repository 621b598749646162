SPECIFICATION Spec
CONSTANTS
  Procs <- MCProcs
  Names <- MCNames
  Depth = 3
  Ids = {1, 2, 3, 4, 5, 6, 7, 8, 9, 10, 11, 12, 13, 14, 15, 16}
  Texts = {"", "a", "b", "c"}
  Nil = Nil
  Root <- MCRoot
  Scenes <- MCScenes
INVARIANT
  LinkFallsBack
