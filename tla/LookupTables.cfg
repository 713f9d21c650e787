\* One use of any scheduler suffices.
SPECIFICATION Spec
INVARIANTS
  FunctionsAreLocated
