CONSTANTS
    Process = {p1, p2, p3}
    Name = {Slashed, Underscored}
    Path = {"a_b.ron"}
    PathOf <- SharedPath
    Layout = {u32, u64}
    Absent = absent
    Empty = empty
    NoConfig = noconfig
    MaxCrashes = 1
    MaxDestroys = 2
SPECIFICATION RegistrySpec
INVARIANTS HandlesAgree EmptyIsUnderway
PROPERTIES WrittenOnce
SYMMETRY Interchangeable
