SPECIFICATION FairSpec
CONSTANTS
    w1 = w1  w2 = w2  w3 = w3  a = a  b = b  x = x  y = y  z = z
    Workers = {w1, w2}
    Tenants = {a, b}
    Names = {x, y, z}
    Stored <- UnsharedStored
    MaxModels = 1
    MaxVersion = 2
    Padding = {FALSE, TRUE}
    BlobOptional = TRUE
    Unloadable = {y}


PROPERTIES Promised ReplacedOnlyByRacingLoad RequestAnswered
