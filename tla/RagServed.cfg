SPECIFICATION FairSpec
CONSTANTS
    Urls = {u1, u2}
    Adopted = {}
    Texts = {1, 2}
    BatchSize = 1
    RemovalFloor = 3
    MaxDeletePct = 50
    AdditiveOnly = FALSE
    Enumerates = TRUE
    MayHide = FALSE
    MaySkip = TRUE
    MayFailUpload = TRUE
    MayAnswerEmpty = FALSE
    MayFailEmbed = FALSE
    MayDie = FALSE
    MaxChanges = 2
    MaxUploads = 3
 
PROPERTIES CorpusConverges
