------------------------------- MODULE Filter -------------------------------
(***************************************************************************)
(* Which files criteria select (src/internal/filter/criteria.go), and the  *)
(* WHERE clause that TreeDB.Search makes of the same criteria to list      *)
(* candidates (src/internal/cache/tree_db.go).                             *)
(*                                                                         *)
(* A file is the sequence of the segments of its path and the sequence of  *)
(* its extensions: a.tar.gz has <<"tar", "gz">>.  A value in the list of a *)
(* criterion is what somebody wrote: its text without the blanks around    *)
(* it, of which blank says whether there are any.  The text of a glob or a *)
(* prefix is split at its slashes, odd says whether there are backslashes  *)
(* in it; an extension may leave out its dot.  The files of a glob are     *)
(* those that it matches.                                                  *)
(***************************************************************************)
EXTENDS Integers, Sequences, FiniteSets, SequencesExt

NoCriteria == [include |-> {}, exclude |-> {}, extensions |-> {}, prefixes |-> {}]

(* The lists are appended to each other. *)
Merge(base, adhoc) == [list \in DOMAIN base |-> base[list] \cup adhoc[list]]

IsZero(criteria) == criteria = NoCriteria
-----------------------------------------------------------------------------
(* The compiled filter *)

(* normalizePath: the path below the root that a text names *)
Clean(text) ==
  LET Step(path, segment) ==
        CASE segment \in {"", "."} -> path
          [] segment = ".." -> SubSeq(path, 1, Len(path) - 1)
          [] OTHER -> Append(path, segment)
  IN FoldLeft(Step, <<>>, text)

(* What is empty when it has been cleaned is no criterion. *)
Globs(list) == {glob \in list : Clean(glob.text) # <<>>}
PathPrefixes(criteria) == {Clean(p.text) : p \in criteria.prefixes} \ {<<>>}
Extensions(criteria) == {e.text : e \in criteria.extensions} \ {<<>>}

(* path.Ext has the last extension only. *)
LastExtension(file) ==
  IF file.extensions = <<>> THEN <<>> ELSE <<Last(file.extensions)>>

(* Every list that is not empty has to have something for the file. *)
Match(criteria, file) ==
  /\ Globs(criteria.include) # {} =>
       \E glob \in Globs(criteria.include) : file \in glob.files
  /\ \A glob \in Globs(criteria.exclude) : file \notin glob.files
  /\ Extensions(criteria) # {} => LastExtension(file) \in Extensions(criteria)
  /\ PathPrefixes(criteria) # {} =>
       \E prefix \in PathPrefixes(criteria) : IsPrefix(prefix, file.path)
-----------------------------------------------------------------------------
(* The WHERE clause *)

(* strings.Trim(p, "/") *)
TrimSlashes(text) ==
  LET named == {i \in DOMAIN text : text[i] # ""}
  IN IF named = {} THEN <<>>
     ELSE SubSeq(text, CHOOSE i \in named : \A j \in named : i <= j,
                       CHOOSE i \in named : \A j \in named : i >= j)

(* What the clause takes literally: no path and no extension is like that. *)
Literal(value) == value.blank \/ value.odd

WherePrefix(criteria, file) ==
  LET given == {p \in criteria.prefixes : Literal(p) \/ TrimSlashes(p.text) # <<>>}
  IN given # {} =>
       \E p \in given : ~Literal(p) /\ IsPrefix(TrimSlashes(p.text), file.path)

(* An empty extension becomes ".", in which no path ends. *)
WhereExtension(criteria, file) ==
  criteria.extensions # {} =>
    \E e \in criteria.extensions :
      ~Literal(e) /\ e.text # <<>> /\ IsSuffix(e.text, file.extensions)

Where(criteria, file) ==
  WherePrefix(criteria, file) /\ WhereExtension(criteria, file)

(* Criteria in the form that the filter cleans them to, but for slashes    *)
(* around a prefix: of these the clause loses no file.                     *)
Tidy(criteria) ==
  /\ \A p \in criteria.prefixes :
       ~Literal(p) /\ TrimSlashes(p.text) = Clean(p.text)
  /\ \A e \in criteria.extensions : ~Literal(e) /\ e.text # <<>>

(* What a listing of these files comes to *)
Select(criteria, files) ==
  {file \in files : Where(criteria, file) /\ Match(criteria, file)}
=============================================================================
