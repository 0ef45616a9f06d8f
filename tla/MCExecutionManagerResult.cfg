CONSTANTS
    Turns = {t1, t2}
    Resumes = {s1}
    Mutations = {m1}
    Runs = {r1, r2, r3}
    None = None

SPECIFICATION Spec

INVARIANT ResultMeansReleased
