----------------------------- MODULE MCExamSession -----------------------------
\* ExamSession with a drill of one question, a test of two, and two exams.
EXTENDS ExamSession, TLC

CONSTANTS s1, s2, q1, q2, p1, p2

MCSelections == {{q1}, {q1, q2}}

MCOrderly(exams, slots) == [exams |-> exams, slots |-> slots, late |-> FALSE, faults |-> FALSE]

\* One exam, one submission at a time.
MCSingle == {MCOrderly({s}, {p}) : s \in Sessions, p \in Requests}

\* Answers may change while the submission is on its way.
MCLate == {[single EXCEPT !.late = TRUE] : single \in MCSingle}

\* Two exams one after the other and overlapping, in order; one exam with
\* failures; one exam with late answers.
MCEnvironments ==
    {MCOrderly(Sessions, {p}) : p \in Requests}
        \cup {MCOrderly(Sessions, Requests)}
        \cup {[single EXCEPT !.faults = TRUE] : single \in MCSingle}
        \cup MCLate

MCSymmetry == Permutations(Sessions) \cup Permutations(Requests)
================================================================================
