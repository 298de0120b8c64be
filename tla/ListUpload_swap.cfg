SPECIFICATION FairSpec
CONSTANTS
    Members <- Users
    Uploads = {u1, u2}
    PutMax = 1
    ChunkSize = 1
INVARIANTS TypeOK UploadInv NoStraySession
PROPERTIES ListsAreSwapped UploadsReturn
CHECK_DEADLOCK FALSE
