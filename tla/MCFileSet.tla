----------------------------- MODULE MCFileSet -----------------------------
(* Two parsers and one resolver over small files, one of them empty and one *)
(* with the negative size AddFile clips.                                    *)
EXTENDS FileSet

MCSizes == {-1, 0, 2}
=============================================================================
