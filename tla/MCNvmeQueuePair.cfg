SPECIFICATION FairSpec
CONSTANTS
    QueueLen = 3
    Command = {a, b, c}
    BatchMax = 2
 
PROPERTIES  BatchReturns
