SPECIFICATION Spec
CONSTANTS
    Sessions = {s1, s2}
    Extras = {x1}
    Runs = {b1, b2}
    MaxVersion = 2
    Gone = Gone
    Absent = Absent
    None = None
SYMMETRY Alike
INVARIANT EvidenceHeld
 
 
CHECK_DEADLOCK FALSE
