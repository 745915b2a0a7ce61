---------------------------- MODULE MCDecisions ----------------------------
(***************************************************************************)
(* Instances of Decisions.                                                 *)
(***************************************************************************)
EXTENDS Decisions

CONSTANTS a1, a2

Type ==
  [issue  |-> "create_issue", renamed |-> "create_issue", shut |-> "close_issue",
   merge  |-> "merge_pr",     ask     |-> "ask_user",     amend |-> "amend_charter"]

TypesOf == [p \in Payloads |-> Type[p]]
KeysOf  == [p \in Payloads |-> IF Type[p] \in Internal THEN None ELSE p]

Titles  == {"issue", "renamed"}
Retitle == [p \in Payloads |-> IF p \in Titles THEN Payloads \cap (Titles \ {p}) ELSE {}]
NoEdits == [p \in Payloads |-> {}]

Conf(mode, can) == [mode |-> mode, can |-> can]

Changing  == {Conf("propose", Flags), Conf("semi_auto", {"can_merge"}), Conf("dry_run", Flags)}
Every     == {Conf("disabled", Flags), Conf("propose", Flags), Conf("semi_auto", Flags),
              Conf("full_auto", {"can_create_issues"})}
=============================================================================
