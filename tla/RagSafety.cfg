SPECIFICATION Spec
CONSTANTS
    Urls = {u1, u2}
    Adopted = {u1}
    Texts = {1, 2}
    BatchSize = 1
    RemovalFloor = 1
    MaxDeletePct = 50
    AdditiveOnly = FALSE
    Enumerates = TRUE
    MayHide = TRUE
    MaySkip = TRUE
    MayFailUpload = TRUE
    MayAnswerEmpty = TRUE
    MayFailEmbed = TRUE
    MayDie = TRUE
    MaxChanges = 1
    MaxUploads = 2
INVARIANTS TypeOK StateDescribesVault
PROPERTIES RemovedOnPurpose
