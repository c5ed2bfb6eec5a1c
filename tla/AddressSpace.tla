---------------------------- MODULE AddressSpace ----------------------------
(***************************************************************************)
(* What the paging code promises: virtual pages, each backed by a frame of *)
(* its own or by none.  Pages get frames one at a time; the pages of user  *)
(* space lose theirs all at once.                                          *)
(***************************************************************************)
CONSTANTS
  Pages,      \* the virtual pages
  UserPages,  \* those of user space
  Frames,     \* the blocks of physical memory
  NoFrame

VARIABLE mapping  \* mapping[p]: the frame behind page p, or NoFrame

Init == mapping = [p \in Pages |-> NoFrame]

Map(p, f) ==
  /\ mapping[p] = NoFrame
  /\ \A q \in Pages : mapping[q] # f
  /\ mapping' = [mapping EXCEPT ![p] = f]

UnmapUser ==
  mapping' = [p \in Pages |-> IF p \in UserPages THEN NoFrame ELSE mapping[p]]

Next == (\E p \in Pages, f \in Frames : Map(p, f)) \/ UnmapUser

Spec == Init /\ [][Next]_mapping
=============================================================================
