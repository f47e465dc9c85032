\* One run of every driver: its pipeline, its poller and Coolify's webhooks.
CONSTANTS
    Runs = {r1}
    Handlers = {h1}
    Drivers = {"coolify", "ecr-release", "ssh-build", "simulate"}
    Commits = {c1}
    ErrorTexts = {"exit 1"}
    NoCommit = NoCommit
    NoError = NoError
    NoRun = NoRun
    MaxMisses = 2
    MaxRestarts = 1
SPECIFICATION FairSpec
INVARIANTS TypeOK SuccessIsEarned OpenIsTended
PROPERTIES ImplementsLifecycle RunsClose
CHECK_DEADLOCK FALSE
