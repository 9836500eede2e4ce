CONSTANTS
    Poison = Poison
    Node = {h1, h2, n1, n2, n3}
    Heads = {h1, h2}
SPECIFICATION Spec
PROPERTY ImplementsSequences
