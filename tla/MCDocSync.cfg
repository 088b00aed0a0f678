\* One process at a time, or two trackers and the hook at the same time.
SPECIFICATION PatientSpec
CONSTANTS
    schema = schema
    dockerfile = dockerfile
    databaseMd = databaseMd
    architectureMd = architectureMd
    Files = {schema, dockerfile, databaseMd, architectureMd}
    Hidden = {dockerfile}
    Domains = {"database", "architecture"}
    Doc <- MCDoc
    Impact <- MCImpact
    Trackers = {t1, t2}
    StateFile = StateFile
    TrackFile = TrackFile
    NoFile = NoFile
    Empty = Empty
    Garbage = Garbage
    MaxVersion <- MCMaxVersion
    MaxCommits <- MCMaxCommits
INVARIANTS
    NothingMissed
    OnlyCommittedMissed
    AcknowledgedContent
PROPERTIES
    SettlesUncommitted
