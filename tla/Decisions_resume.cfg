SPECIFICATION Spec
CONSTANTS
    d1 = d1  d2 = d2  k1 = k1  i1 = i1  root = root
    None = None
    Cards = {d1, d2}
    Kids = {k1}
    Invocations = {i1}
    Root = root
PROPERTIES
    ResumeHasTurn
