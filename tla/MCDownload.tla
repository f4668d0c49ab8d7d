----------------------------- MODULE MCDownload -----------------------------
(* Two builds of an archive with a common beginning, one longer; a page    *)
(* that is no archive and goes over the ceiling; a file of another host's. *)
EXTENDS Download

MCBlocks   == 1..4
MCVendors  == {<<1, 2>>, <<1, 3, 2>>, <<4, 1, 3, 2>>}
MCArchives == MCVendors \cup {<<4>>, <<1, 2, 1, 2, 1>>}
MCCap      == 3

=============================================================================
