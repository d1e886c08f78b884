CONSTANT Programs <- ProgramsC
SPECIFICATION Spec
INVARIANT AcceptsConformingData
CHECK_DEADLOCK FALSE
