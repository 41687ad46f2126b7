SPECIFICATION FairSpec
CONSTANT MaxTries = 1
PROPERTY UnreachedIsRetriggered
