---------------------------- MODULE MCGfvomsSync ----------------------------
EXTENDS GfvomsSync

CONSTANTS p1, p2, v1, v2

MCProcs1 == {p1}

MCProcs2 == {p1, p2}

MCVOs == {v1, v2}

=============================================================================
