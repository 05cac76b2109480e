\* Rows of faces of 16 columns, as on the device, all filter lengths.
CONSTANTS
    Lanes = 8
    Faces <- MCFaces
    Jobs <- MCJobs
SPECIFICATION Spec
INVARIANTS
    Exact
    Convolved
