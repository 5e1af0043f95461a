SPECIFICATION Spec
CONSTANTS
    None = None
    Codes = {scan, key, ip}
    Nodes = {n1, n2, n3}
    MaxInflight = 2
INVARIANT WorkerRearmed
