------------------------------ MODULE MCPaths ------------------------------
(* All work trees, files and attached directories of a small tree, with    *)
(* directories called .git and modules at any place in them.               *)
EXTENDS Roots
=============================================================================
