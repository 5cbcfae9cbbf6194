SPECIFICATION DependenciesSpec
CONSTANTS
    Node = {n1, n2, n3}
    Adder = {e1, e2}
    MaxAdds = 3
SYMMETRY Symmetry
CHECK_DEADLOCK FALSE
INVARIANT DependenciesAcyclic
