----------------------------- MODULE MCDownload -----------------------------
(* Two clients download an LFS file whose pointer is shorter than its      *)
(* object, or a file of two bytes and an empty one.                        *)
EXTENDS Download

MCLFSBlob == <<"lfs">>
MCLFSListed == <<1>>
MCLFSLength == <<2>>

MCBlobs == <<"text", "empty">>
MCSizes == <<2, 0>>

Symmetry == Permutations(Client)
=============================================================================
