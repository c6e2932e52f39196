----------------------------- MODULE FileStore ------------------------------
(***************************************************************************)
(* What private file storage promises to those who upload, list and read   *)
(* files.  Whoever was told that their file is stored has it for good: it  *)
(* was listed together with its content and loses neither.  A file whose   *)
(* uploader was told nothing, or was told of an error, may be listed and   *)
(* may have lost its content, or never had it.  Archiving a file or the    *)
(* record it belongs to hides it and takes nothing away.                   *)
(***************************************************************************)
CONSTANT File

VARIABLES
  listed,    \* files that a record names
  readable,  \* of those, the files whose content can be read
  answered   \* of those, the files whose uploader was told so

Init == listed = {} /\ readable = {} /\ answered = {}

Add(f) ==
  /\ f \notin listed
  /\ listed' = listed \cup {f}
  /\ \/ readable' = readable \cup {f} /\ answered' = answered \cup {f}
     \/ readable' = readable \cup {f} /\ answered' = answered
     \/ UNCHANGED <<readable, answered>>

Lose(f) ==
  /\ f \in readable \ answered
  /\ readable' = readable \ {f}
  /\ UNCHANGED <<listed, answered>>

Next == \E f \in File : Add(f) \/ Lose(f)

Spec == Init /\ [][Next]_<<listed, readable, answered>>
=============================================================================
