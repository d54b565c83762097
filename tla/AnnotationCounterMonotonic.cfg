CONSTANT IntWidth = 6
SPECIFICATION Spec
PROPERTY BumpIncreasesCounter
