------------------------- MODULE DocumentsRefinement -------------------------
(***************************************************************************)
(* Documents beside its neighbour: of the file it keeps papers for it      *)
(* knows what FileShell says (which Casework implements).                  *)
(***************************************************************************)
EXTENDS Documents

Shell == INSTANCE FileShell WITH
           status <- fileStatus, deleted <- fileDeleted, version <- fileVersion,
           asked <- requests, sent <- Len(pins)

\* A submission that pins documents is one the file takes: it is of a draft, or
\* some section is being corrected when it lands, although only the version and
\* the status it read are asked again.
KeepsToTheFile == Shell!Spec

=============================================================================
