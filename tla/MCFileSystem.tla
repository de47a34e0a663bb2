---------------------------- MODULE MCFileSystem -----------------------------
(* Instances of FileSystem for TLC. *)
EXTENDS FileSystem

MCPaths == {<<"a">>, <<"d">>, <<"d", "a">>}
MCFilePaths == {<<"a">>, <<"d", "a">>}
MCDirPaths == {<<"d">>}
MCOpenPaths == {<<"a">>}
MCOffsets == {0}
=============================================================================
