------------------------------ MODULE MCStartup ------------------------------
(***************************************************************************)
(* Files and environments for TLC.                                         *)
(***************************************************************************)
EXTENDS Startup

Only(p, row) == [q \in ID |-> IF q = p THEN row ELSE NoRow]
PrivateModeRow(base, tier, typed) ==
  [base |-> base, tier |-> tier, typed |-> typed, bundle |-> "none", useProxy |-> FALSE]
PPQRow(tier, bundle) ==
  [base |-> "direct", tier |-> tier, typed |-> TRUE, bundle |-> bundle, useProxy |-> TRUE]

MCFiles ==
  {[rows |-> Only("privatemode", PrivateModeRow("direct", tier, typed)), sound |-> TRUE] :
     tier \in {"encrypted", "confidential"}, typed \in BOOLEAN}
  \cup {[rows |-> [Only("privatemode", PrivateModeRow("none", "plaintext", TRUE))
                     EXCEPT !["ppq"] = PPQRow("encrypted", "legacy")], sound |-> TRUE],
        [rows |-> Only("other", PrivateModeRow("direct", "confidential", TRUE)), sound |-> TRUE],
        [rows |-> Only("ppq", PPQRow("encrypted", "own")), sound |-> FALSE]}

MCEnvironments ==
  {e \in [privatemode : {"none", "direct", "local"}, ppq : {"none", "direct", "local"},
          key : BOOLEAN, manage : BOOLEAN] :
     /\ e.privatemode # "none" => e.key /\ e.manage
     /\ ~e.manage => e.key
     /\ e.ppq # "none" => e.privatemode = "none"}

MCAdminRows == {PrivateModeRow("direct", "confidential", TRUE)}

=============================================================================
