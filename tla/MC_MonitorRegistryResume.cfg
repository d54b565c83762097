CONSTANTS
    r1 = r1
    m1 = m1
    m2 = m2
    m3 = m3
    Resources <- MCResources
    Monitors <- MCMonitors

SPECIFICATION Spec
PROPERTY PausedResourceResumes
