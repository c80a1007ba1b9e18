SPECIFICATION FileSpec
CONSTANTS
    Kit = kit
    Others = {sample}
    BlockSize = 3
    GroupSize = 2
    KitSize = 3
    Values = {v1, v2}
    Default = v1
    Missing = Missing
    Factory = Factory
    Nothing = Nothing
    MaxTransfers = 1
    MaxGroups = 3
    MaxRefusals = 1
INVARIANT
    AckMeansSuccess
