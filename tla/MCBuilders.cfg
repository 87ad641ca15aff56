SPECIFICATION MCSpec
CONSTANTS
    DataKeys = {"aps", "image-url", "id"}
    MaxSettings = 5
    CustomUrls <- MCCustomUrls
    Durations = {"short"}
INVARIANTS
    SilentHasNoAlert
    NoCredentialInTheClear
PROPERTY FieldsReachTheServices
