----------------------------- MODULE MCTransfer -----------------------------
(* An instance of Transfer for TLC: a symbol map, the sources as a list or *)
(* as an archive, sources.json and a file to be copied.                    *)
EXTENDS Transfer

ListOrArchive ==
  {<<"lines", sources, "lines", "file">> : sources \in {"list", "archive"}}
=============================================================================
