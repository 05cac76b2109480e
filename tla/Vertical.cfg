\* All filter lengths; the sum in a tile of its own, over the base or over the
\* first input.
CONSTANT Jobs <- MCJobs
SPECIFICATION Spec
INVARIANT Exact
