\* One process at a time; two edits of each file, two commits at any point.
SPECIFICATION PatientSpec
CONSTANTS
    schema = schema
    dockerfile = dockerfile
    databaseMd = databaseMd
    architectureMd = architectureMd
    Files = {schema, databaseMd}
    Hidden = {}
    Domains = {"database"}
    Doc <- MCDoc
    Impact <- MCImpact
    Trackers = {t1}
    StateFile = StateFile
    TrackFile = TrackFile
    NoFile = NoFile
    Empty = Empty
    Garbage = Garbage
    MaxVersion <- MCOneEdit
    MaxCommits <- MCMaxCommits
PROPERTIES
    GateSettles
