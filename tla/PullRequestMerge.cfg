SPECIFICATION BoundedSpec
CONSTANTS
    Calls = {c1}
    Commits = {m0, h1, h2}
    Base = m0
    Flags = {"thread"}
    EndKinds = {"success", "failed"}
    ReviewStates = {"APPROVED", "CHANGES_REQUESTED"}
    MaxReviews = 2
    MaxAttempts = 2
    Logins = {ann, bob}
    Author = ann
    Bots = {}
    Denylist = {}
    Apps = {}
    Allowlist = {}
    Fixers = {}
    Checks = {ci}
    Required = {ci}
    Policy <- DefaultPolicy
    NoCall = NoCall
    NoPin = NoPin
    Gone = Gone
INVARIANTS
    MergeIsJustified
PROPERTIES
    OnlyMergedBranchesGo
    SentIsAudited
CHECK_DEADLOCK FALSE
