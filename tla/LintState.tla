------------------------------ MODULE LintState ------------------------------
(***************************************************************************)
(* What of cpplint.py decides whether an error is shown: the filters, the  *)
(* NOLINT comments, the verbosity, and the CPPLINT.cfg files that change   *)
(* them for a file.                                                        *)
(***************************************************************************)
EXTENDS Integers, FiniteSets, SequencesExt

CONSTANTS
  Categories,  \* the categories of errors
  Prefixed,    \* for the name of each filter, the categories that start with it
  CategoryOf,  \* for each category, what is before its slash
  CfgFiles     \* for each directory that has a CPPLINT.cfg, a sequence of names,
               \* the options in it

----------------------------------------------------------------------------
(* Filters.  A filter is a sign, "none" if it has none, and a name.         *)

AllFilters == [sign : {"+", "-", "none"}, name : DOMAIN Prefixed]

\* Fault: any filter is accepted.
IsAnyFilter(filter) == filter.sign \in {"+", "-", "none"}

IsFilter(filter) == filter.sign \in {"+", "-"}

\* The last filter that matches counts.
IsFiltered(filters, category) ==
  LET last == SelectLastInSeq(filters, LAMBDA filter : category \in Prefixed[filter.name])
  IN  last # 0 /\ filters[last].sign = "-"

\* IsErrorSuppressedByNolint.  A NOLINT comment suppresses a category, or "all",
\* on a line.
IsSuppressed(error, suppressions, global_suppressions) ==
  \/ error.category \in global_suppressions
  \/ \E category \in {error.category, "all"} :
       [category |-> category, linenum |-> error.linenum] \in suppressions

\* Fault: NOLINTNEXTLINE is taken for NOLINT.
NolintSuppressionsHere(line, linenum) ==
  IF line.nolint \in Categories \cup {"all"}
  THEN {[category |-> line.nolint, linenum |-> linenum]} ELSE {}

\* ParseNolintSuppressions of one line.
NolintSuppressions(line, linenum) ==
  IF line.nolint \in Categories \cup {"all"}
  THEN {[category |-> line.nolint, linenum |-> IF line.nextline THEN linenum + 1 ELSE linenum]}
  ELSE {}

\* Neither a category nor one of _LEGACY_ERROR_CATEGORIES.
NolintErrors(line, linenum) ==
  IF line.nolint = "unknown"
  THEN {[category |-> "readability/nolint", confidence |-> 5, linenum |-> linenum]}
  ELSE {}

----------------------------------------------------------------------------
(* CPPLINT.cfg.                                                             *)

\* The search goes from the directory of the file up to the root: it does not go on
\* above the directory of the first n names of a path.
StopsAt(path, n) ==
  LET dir == SubSeq(path, 1, n)
  IN  /\ dir \in DOMAIN CfgFiles
      /\ \/ ~CfgFiles[dir].readable
         \/ \E option \in ToSet(CfgFiles[dir].options) : option.name = "set noparent"

IsRead(path, n) ==
  /\ SubSeq(path, 1, n) \in DOMAIN CfgFiles /\ CfgFiles[SubSeq(path, 1, n)].readable
  /\ \A m \in n + 1 .. Len(path) - 1 : ~StopsAt(path, m)

\* The options in the order they are read, from the innermost directory on, each with
\* the name of the file or directory that is under the directory of its file.
OptionsAt(path, n) ==
  LET options == CfgFiles[SubSeq(path, 1, n)].options
  IN  IF IsRead(path, n)
      THEN [i \in DOMAIN options |-> [option |-> options[i], base_name |-> path[n + 1]]]
      ELSE <<>>

OptionsRead(path) == FlattenSeq([k \in 1 .. Len(path) |-> OptionsAt(path, Len(path) - k)])

\* A CPPLINT.cfg is read line by line, and the value of "filter" is split at commas.
ASSUME CfgAssumption ==
  \A dir \in DOMAIN CfgFiles :
    LET options == CfgFiles[dir].options
    IN  /\ options \in Seq(ToSet(options))
        /\ \A option \in ToSet(options) : option.name = "filter"
              => option.filters \in Seq(AllFilters)

\* No CPPLINT.cfg tells the line length.
NoLength == 0

\* The line length and the filters of all of them; no filters are those of an option
\* that is none.  The first "exclude_files" that matches ends it.
ReadCfgs(path) ==
  LET all == OptionsRead(path)
      exclusion == SelectInSeq(all, LAMBDA o : /\ o.option.name = "exclude_files"
                                               /\ o.base_name \in o.option.matched)
      applied == IF exclusion = 0 THEN all ELSE SubSeq(all, 1, exclusion - 1)
      last == SelectLastInSeq(applied, LAMBDA o : o.option.name = "linelength")
  IN  [excluded |-> exclusion # 0,
       line_length |-> IF last = 0 THEN NoLength ELSE applied[last].option.value,
       cfg_filters |-> [i \in DOMAIN applied |->
                          LET option == applied[i].option
                          IN  IF option.name = "filter" THEN option.filters ELSE <<>>]]

\* Fault: the top-level directory has the last word.
FiltersOfTopLevel(cfg_filters) == FlattenSeq(cfg_filters)

\* "in reverse order (top-level directory config options having the least
\* priority)".
FiltersOf(cfg_filters) == FlattenSeq(Reverse(cfg_filters))

=============================================================================
