SPECIFICATION Spec
CONSTANTS
  Texts = {t1, t2}
  Original = t1
  Absent = absent
  Torn = torn
  MaxCommits = 2
INVARIANTS TypeOK ValidatedIsRecoverable ValidatedWasMinted
