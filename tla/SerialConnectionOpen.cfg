CONSTANT StackFrames = 5
SPECIFICATION FairSpec
PROPERTY ConnectEnds
