SPECIFICATION Spec
INVARIANT ReadyMeansPopulated
