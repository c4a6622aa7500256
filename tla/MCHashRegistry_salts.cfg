SPECIFICATION Spec
CONSTANTS
    MaxArchives = 3
    Sweeps = {s1, s2}
    s1 = s1  s2 = s2
SYMMETRY Symmetry
INVARIANT IncsAreSalted
