---------------------------- MODULE MCFileSystem ----------------------------
(* FileSystem with the sizes of the code: two files of at most 1024 bytes    *)
(* each, on five sectors.                                                    *)
EXTENDS FileSystem
=============================================================================
