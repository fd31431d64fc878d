-------------------------- MODULE MCConfigEditing ---------------------------
(* Configs told apart by their limit, one of them invalid, in commits      *)
(* without files.                                                          *)
EXTENDS ConfigEditing

MCNumbered(n) == [presets |-> <<>>, adhoc |-> TRUE, maxFiles |-> n, maxBytes |-> 0]

(* Two presets whose ids differ in nothing but blanks *)
MCInvalid == [MCNumbered(3) EXCEPT
                !.presets = <<[id |-> "a", criteria |-> {}], [id |-> "a ", criteria |-> {}]>>]

MCTrimSpace(text) == IF text = "a " THEN "a" ELSE text

MCConfig == {MCNumbered(1), MCNumbered(2), MCInvalid}
MCInitial == MCNumbered(1)
MCTree == {{}}
=============================================================================
