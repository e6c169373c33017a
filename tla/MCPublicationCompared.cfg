SPECIFICATION Spec
CONSTANTS
    p1 = p1
    p2 = p2
    a = a
    b = b
    Nobody = Nobody
    Publishers = {p1, p2}
    Reports = {a, b}
    Compares <- MCCompares
    BatchSize = 1
    IndexAttempts = 2
    Kinds = {"telemetry-gas"}
    MaxChanges = 1
    MaxFaults = 1
INVARIANTS ComparisonsFollow
