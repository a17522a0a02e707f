SPECIFICATION FairSpec
PROPERTY GameGoesOn
