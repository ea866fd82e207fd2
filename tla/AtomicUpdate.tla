----------------------------- MODULE AtomicUpdate ------------------------------
(***************************************************************************)
(* What the multi-file transaction promises its caller: a set of files is  *)
(* changed from old to new contents as one.  While an update is open the   *)
(* files may be seen in any mixture; it ends with all of them old, or it   *)
(* is decided with all of them new, and a decided update stays so.         *)
(***************************************************************************)
CONSTANT File   \* the files of the change set

VARIABLES status,  \* "rest", "open" or "decided"
          view     \* view[f]: "old" or "new", the contents of f seen on disk

All(v) == [f \in File |-> v]

Init == status = "rest" /\ view = All("old")

\* A change set: what the files hold is now old.
Propose == status = "rest" /\ view' = All("old") /\ UNCHANGED status

Open == status = "rest" /\ view = All("old") /\ status' = "open" /\ UNCHANGED view

Write == status = "open" /\ view' \in [File -> {"old", "new"}] /\ UNCHANGED status

Decide == status = "open" /\ view = All("new") /\ status' = "decided" /\ UNCHANGED view

Close ==
  /\ \/ status = "open" /\ view = All("old")
     \/ status = "decided" /\ view = All("new")
  /\ status' = "rest" /\ UNCHANGED view

Next == Propose \/ Open \/ Write \/ Decide \/ Close

Spec == Init /\ [][Next]_<<status, view>>

================================================================================
