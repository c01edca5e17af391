---------------------------- MODULE MCIostatModule ----------------------------
(* A gfsd with two counter directories of one entity each: the four labels *)
(* rcount, wcount, rbytes, wbytes and N = 4 * (2 + 1) = 12 descriptors,    *)
(* the group key among them, so that a refresh that raises moves the       *)
(* refresh point past directory and group descriptors of every label.      *)
EXTENDS IostatModule

MCServer == "gfsd"

MCListing == <<"iostat-gfsd-h1", "iostat-gfsd-h2">>

MCServerEntries == {"iostat-gfsd-h1", "iostat-gfsd-h2"}

MCGroup == "iostat-gfsd"

MCEnts == {"e1"}

=============================================================================
