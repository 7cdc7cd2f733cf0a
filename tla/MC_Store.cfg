SPECIFICATION Spec
CONSTANTS
    None = None
    Generation = {g1, g2, g3}
    Key = {k1, k2}
    Worker = {w1}
    MaxDamage = 1
    MaxRetiredDamaged = 1
INVARIANTS
    TypeOK
    GenerationExists
PROPERTIES
    SnapshotNeverLost
    RetiredNeverWritten
SYMMETRY Identifiers
