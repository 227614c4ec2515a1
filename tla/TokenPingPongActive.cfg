SPECIFICATION Spec
CONSTANT Runs = 5
INVARIANT ActiveTokenIsActive
