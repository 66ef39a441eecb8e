CONSTANTS
    serve = serve  cli = cli  s = s
    e1 = e1  e2 = e2  k1 = k1  k2 = k2
    Procs <- MCProcs
    Runtime = serve
    Readers <- MCProcs
    Streams <- MCStreams
    Evidence <- MCEvidence
    Requests <- Contended
    RotateAt = 1
    Unlinks = TRUE
    MaxCrashes = 1
SPECIFICATION Spec
INVARIANTS
    TypeOK
    VouchedDurable
    EvidenceKept
    Reopens
    CacheFaithful
PROPERTIES
    MarkersRepaired
    ImplementsLog
