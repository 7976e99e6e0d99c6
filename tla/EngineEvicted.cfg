SPECIFICATION Spec
CONSTANTS
    w1 = w1  w2 = w2  w3 = w3  a = a  b = b  x = x  y = y  z = z
    Workers = {w1, w2}
    Tenants = {a, b}
    Names = {x, y, z}
    Stored <- UnsharedStored
    MaxModels = 1
    MaxVersion = 1
    Padding = {FALSE}
    BlobOptional = FALSE
    Unloadable = {}

INVARIANTS NotFoundOnlyIfNotLoaded
