--------------------------- MODULE MCFileBrowsing ---------------------------
(* A root that holds a file and an empty folder; a listing of the folder counts more. *)
EXTENDS FileBrowsing

MCKids == [d \in Dirs |-> IF d = "root" THEN {"sub", "readme"} ELSE {}]
MCSize == [d \in Dirs |-> IF d = "root" THEN 1 ELSE 2]
=============================================================================
