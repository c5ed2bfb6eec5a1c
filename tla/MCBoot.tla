------------------------------- MODULE MCBoot -------------------------------
(***************************************************************************)
(* Boot on small archives: programs of one and two blocks, files that      *)
(* cannot be run, empty files, and content that looks like an archive's.   *)
(***************************************************************************)
EXTENDS Boot

Content(size, like, blocks) == [size |-> size, like |-> like, blocks |-> blocks]

MCContents ==
  { Content(0, "text", 0), Content(1, "header", 0), Content(8, "zeros", 0),
    Content(9, "header", 0), Content(9, "object", 0),
    Content(9, "executable", 1), Content(16, "executable", 2) }

MCMcp == <<1, 0>>
=============================================================================
