SPECIFICATION Spec
CONSTANTS
    MaxItems = 2
    MaxPosts = 1
    Kinds = {"fileDown", "fileUp", "dirDown", "dirUp"}
    Requests = {"connect", "sudoOn", "sudoOff", "list", "mkdir", "remove", "rename", "chmod", "syncListing"}
    Chunks = 2
    Retries = 1
PROPERTIES
    CloseEnds
    JobsSpec
CHECK_DEADLOCK FALSE
