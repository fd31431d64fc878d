---------------------------- MODULE MCSelection -----------------------------
(* Two files, one of them in LFS; configs with a preset, which forbid      *)
(* ad-hoc criteria and limit the number of files, or limit the bytes to    *)
(* what is only exceeded with the size of the file in LFS, and one that is *)
(* not valid.                                                              *)
EXTENDS Selection, TLC

MCFile(path, extensions, listed, size) ==
  [path |-> path, extensions |-> extensions, listed |-> listed, size |-> size]

MCManual == MCFile(<<"docs", "user, manual">>, <<"tar", "gz">>, 1, 3)
MCReadme == MCFile(<<"readme">>, <<"md">>, 1, 1)

MCTree == {{MCManual, MCReadme}, {MCReadme}}

MCText(text) == [text |-> text, blank |-> FALSE, odd |-> FALSE, files |-> {}]
MCGlob(text, files) == [MCText(text) EXCEPT !.files = files]

MCBlank(value) == [value EXCEPT !.blank = TRUE]

MCBelow(prefixes) == [NoCriteria EXCEPT !.prefixes = prefixes]

(* A glob with a comma, and what it is split into *)
MCComma == MCGlob(<<"docs", "user, manual.*">>, {MCManual})
MCHalves == {MCGlob(<<"docs", "user">>, {}), MCBlank(MCGlob(<<"manual.*">>, {}))}
MCParts(value) == IF value = MCComma THEN MCHalves ELSE {value}

MCTrimSpace(text) == IF text = "docs " THEN "docs" ELSE text

MCPresets(criteria) == <<[id |-> "docs", criteria |-> criteria]>>

MCStrict == [presets |-> MCPresets(MCBelow({MCText(<<"", "docs", "">>),
                                            MCText(<<"readme">>)})),
             adhoc |-> FALSE, maxFiles |-> 1, maxBytes |-> 0]

(* The blanks around one prefix are lost on the filter, not on the clause. *)
MCOpen == [presets |-> MCPresets(MCBelow({MCText(<<"docs">>),
                                          MCBlank(MCText(<<"readme">>))})),
           adhoc |-> TRUE, maxFiles |-> 0, maxBytes |-> 2]

(* Two presets whose ids differ in nothing but blanks *)
MCInvalid == [MCOpen EXCEPT !.presets = @ \o <<[id |-> "docs ", criteria |-> NoCriteria]>>]

MCConfig == {MCStrict, MCOpen, MCInvalid}

MCWish == {[preset |-> "docs", adhoc |-> NoCriteria],
           [preset |-> "", adhoc |-> [NoCriteria EXCEPT !.include = {MCComma}]]}

Symmetry == Permutations(Visitor)
=============================================================================
