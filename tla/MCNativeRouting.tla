--------------------------- MODULE MCNativeRouting ---------------------------
(***************************************************************************)
(* Instances of NativeRouting for TLC.  Three seat settings: none of       *)
(* Claude, Fable as Planner and Opus as Planner; the last two share their  *)
(* policy texts, as build_policy names the launcher and not the model.     *)
(***************************************************************************)
EXTENDS NativeRouting, TLC

CONSTANTS plain, fable, opus, python3, python, m1, m2, t

MCMode == [s \in Seats |-> IF s = plain THEN m1 ELSE m2]
MCUsage == [s \in Seats |-> m1]
Planner(model) == [seat |-> "planner", model |-> model, launcher |-> python3]
MCClaude ==
    [s \in Seats |-> CASE s = plain -> NoClaude
                       [] s = fable -> Planner("fable")
                       [] s = opus -> Planner("opus")]

\* A boolean feature; a table with a text, a control and a launcher of the user.
MCFirst ==
    {[feature |-> "scalar", mode |-> "missing", usage |-> "missing",
      controls |-> "missing", mcp |-> [l \in Launcher |-> "missing"]],
     [feature |-> "table", mode |-> t, usage |-> "missing",
      controls |-> "other", mcp |-> [l \in Launcher |-> "off"]]}

\* One command beside another, or edits beside one command.
MCCounts == {<<0, 1>>, <<1, 0>>, <<2, 0>>}

\* Processes are only compared with each other.
Processes == Permutations(Proc)

=============================================================================
