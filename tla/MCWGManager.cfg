CONSTANTS
    maxHost = 4
    Keys = {k1, k2}
    MeshIPs = {m1}
    NoMesh = NoMesh
SPECIFICATION Spec
SYMMETRY KeySymmetry
INVARIANTS PoolMatchesPeers MemoryMatchesDevice MeshKnown AnswersSurviveRestart
PROPERTY NoAddressTaken
