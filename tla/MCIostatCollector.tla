-------------------------- MODULE MCIostatCollector --------------------------
(* Model-checking instances of IostatCollector, all of the gfmd role (one  *)
(* column, ntran).                                                         *)
EXTENDS IostatCollector

MCItems == {"ntran"}

\* Two counter directories, so the group key is a descriptor, one entity
\* name in each.
MCDirs == {"d1", "d2"}
MCDirOrder == <<"d1", "d2">>
MCEnts == {"e1"}

\* One counter directory holding two entity names.
MCDirs1 == {"d1"}
MCDirOrder1 == <<"d1">>
MCEnts2 == {"e1", "e2"}

=============================================================================
