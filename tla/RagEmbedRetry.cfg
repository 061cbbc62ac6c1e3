SPECIFICATION Spec
CONSTANTS
    Urls = {u1, u2}
    Adopted = {}
    Texts = {1, 2}
    BatchSize = 2
    RemovalFloor = 3
    MaxDeletePct = 50
    AdditiveOnly = FALSE
    Enumerates = TRUE
    MayHide = FALSE
    MaySkip = FALSE
    MayFailUpload = FALSE
    MayAnswerEmpty = FALSE
    MayFailEmbed = TRUE
    MayDie = FALSE
    MaxChanges = 1
    MaxUploads = 3
INVARIANTS AppliedIsServed
