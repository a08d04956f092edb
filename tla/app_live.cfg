SPECIFICATION FairSpec
CONSTANTS
    Droplets = {d1}
    Created <- Any
    Scales = {0, 2}
    Names = {0, 1}
    Hash <- Distinct
    Requests = {r1}
    Kinds = {"stop", "deploy", "scale", "bind", "delete", "droplet"}
    MaxOps = 1
    MaxCrashes = 0
    None = None
    d1 = d1
CHECK_DEADLOCK FALSE

PROPERTY AppConverges
