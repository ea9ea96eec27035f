\* One exam whose answers may arrive after the submission.
SPECIFICATION Spec
CONSTANTS
    s1 = s1
    s2 = s2
    q1 = q1
    q2 = q2
    p1 = p1
    p2 = p2
    None = None
    Questions = {q1, q2}
    Sessions = {s1, s2}
    Selections <- MCSelections
    Requests = {p1, p2}
    Environments <- MCLate
    MaxMail = 2
    MaxGraded = 2
PROPERTIES
    AnswersLocked
\* Exams end.
CHECK_DEADLOCK FALSE
