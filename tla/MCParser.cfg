SPECIFICATION Spec
CONSTANT Inputs <- MCInputs
INVARIANTS ParserOK ReadRight
PROPERTIES NothingDropped TokenReportedOnce Termination
CHECK_DEADLOCK FALSE
