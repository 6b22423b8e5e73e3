CONSTANT Subjects <- MCSubjects
SPECIFICATION Spec
INVARIANTS Reducible NeverStuck BlocksKept FlowPreserved RoundsAgree
PROPERTY Finishes
