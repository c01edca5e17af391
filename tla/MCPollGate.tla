----------------------------- MODULE MCPollGate -----------------------------
(* A gfsd counter directory holding two entries of the server and one of   *)
(* another: N = 4 labels * (2 directories + group) = 12 descriptors.       *)
EXTENDS PollGate

MCServer == "gfsd"

MCListing == <<"iostat-gfsd-h1", "iostat-gfmd", "iostat-gfsd-h2">>

MCServerEntries == {"iostat-gfsd-h1", "iostat-gfsd-h2"}

MCGroup == "iostat-gfsd"

=============================================================================
