----------------------------- MODULE IncludeState -----------------------------
(***************************************************************************)
(* _IncludeState of cpplint.py, which remembers the #includes of a file    *)
(* across its #ifs, and what is made of it: the checks of one #include     *)
(* line and of all of them at the end of the file.                         *)
(***************************************************************************)
EXTENDS Integers, FiniteSets, SequencesExt

CONSTANTS
  Names,          \* what may be written in an #include
  ModuleHeaders,  \* the files of the same module that can be opened: a function
                  \* from their names to the names they include
  OwnNames        \* the names that contain or are contained in the one of the
                  \* header that belongs to the file

_INITIAL_SECTION == 0
_MY_H_SECTION == 1
_C_SECTION == 2
_CPP_SECTION == 3
_OTHER_H_SECTION == 4

\* base and dir compare the header with the file, path orders the canonical
\* paths, and foreign_cc is a .cc file of another package.
HeaderFiles ==
  [name : Names, is_system : BOOLEAN, is_cpp : BOOLEAN,
   base : {"same", "related", "other"}, dir : {"same", "other"},
   path : Nat \ {0}, third_party : BOOLEAN, foreign_cc : BOOLEAN]

\* include_list holds a set of names for each #if, #else or #elif seen, last_header
\* the path of the last header in order, 0 for the empty name.
NoIncludes == [include_list |-> <<{}>>, section |-> _INITIAL_SECTION, last_header |-> 0]

Included(state) == UNION ToSet(state.include_list)

----------------------------------------------------------------------------

\* Fault: only the names of the last list are found.
FindHeaderInLast(state, name) == name \in Last(state.include_list)

FindHeader(state, name) == name \in Included(state)

\* After #if, #else, #elif and #endif: "we never pop from the include list".
ResetSection(state, directive) ==
  [section |-> _INITIAL_SECTION, last_header |-> 0,
   include_list |-> CASE directive = "if" -> Append(state.include_list, {})
                      [] directive = "else" -> Append(Front(state.include_list), {})
                      [] OTHER -> state.include_list]

\* _ClassifyInclude.
ClassifyInclude(header) ==
  IF header.is_system THEN IF header.is_cpp THEN "C++ system" ELSE "C system"
  ELSE IF header.base = "same" /\ header.dir = "same" THEN "likely my"
  ELSE IF header.base \in {"same", "related"} THEN "possible my"
  ELSE "other"

IsOutOfOrder(section, type) ==
  \/ type = "C system" /\ section > _C_SECTION
  \/ type = "C++ system" /\ section > _CPP_SECTION

\* Fault: a header this file may implement puts the section back.
SectionAfterAnyMyHeader(section, type) ==
  IF IsOutOfOrder(section, type) THEN section
  ELSE CASE type = "C system" -> _C_SECTION
         [] type = "C++ system" -> _CPP_SECTION
         [] type \in {"likely my", "possible my"} -> _MY_H_SECTION
         [] OTHER -> _OTHER_H_SECTION

\* CheckNextIncludeOrder: the section once a header of the type was seen.
SectionAfter(section, type) ==
  IF IsOutOfOrder(section, type) THEN section
  ELSE CASE type = "C system" -> _C_SECTION
         [] type = "C++ system" -> _CPP_SECTION
         [] type \in {"likely my", "possible my"} /\ section <= _MY_H_SECTION -> _MY_H_SECTION
         [] OTHER -> _OTHER_H_SECTION

\* Fault: headers of different sections are compared.
HeaderBeforeInAnySection(state, header) ==
  IF IsOutOfOrder(state.section, ClassifyInclude(header)) THEN 0 ELSE state.last_header

\* The path to compare with: none when the section changes or the header is out
\* of order.
HeaderBefore(state, header) ==
  LET type == ClassifyInclude(header) IN
  IF IsOutOfOrder(state.section, type) \/ SectionAfter(state.section, type) # state.section
  THEN 0 ELSE state.last_header

\* The errors CheckIncludeLine has for an #include, after_include telling
\* whether the line before is one, too.
IncludeErrors(state, header, after_include) ==
  IF FindHeader(state, header.name) THEN {"already included"}
  ELSE IF header.foreign_cc THEN {"do not include"}
  ELSE IF header.third_party THEN {}
  ELSE (IF IsOutOfOrder(state.section, ClassifyInclude(header)) THEN {"order"} ELSE {})
       \cup (IF after_include /\ HeaderBefore(state, header) > header.path
             THEN {"alpha"} ELSE {})

\* What CheckIncludeLine makes of the state.
AddInclude(state, header) ==
  IF FindHeader(state, header.name) \/ header.foreign_cc \/ header.third_party THEN state
  ELSE [include_list |-> Append(Front(state.include_list),
                                Last(state.include_list) \cup {header.name}),
        section |-> SectionAfter(state.section, ClassifyInclude(header)),
        last_header |-> header.path]

----------------------------------------------------------------------------
(* At the end of the file.                                                  *)

\* UpdateIncludeState for each of the headers of the module that could be opened.
UpdateIncludeState(include_dict, opened) ==
  include_dict \cup UNION {ModuleHeaders[name] : name \in opened}

\* Fault: the headers of the module are followed, the file's own are not.
MissingFromModule(state, required, is_cc) ==
  LET opened == Included(state) \cap DOMAIN ModuleHeaders
  IN  IF is_cc /\ opened = {} THEN {}
      ELSE required \ UNION {ModuleHeaders[name] : name \in opened}

\* Fault: a source file is asked for headers though none of its own was found.
MissingFromAnyFile(state, required, is_cc) ==
  required \ UpdateIncludeState(Included(state), Included(state) \cap DOMAIN ModuleHeaders)

\* CheckForIncludeWhatYouUse of a file that uses what is in the required
\* headers: those in the headers of its module (FilesBelongToSameModule) count.
MissingIncludes(state, required, is_cc) ==
  LET opened == Included(state) \cap DOMAIN ModuleHeaders
  IN  IF is_cc /\ opened = {} THEN {}
      ELSE required \ UpdateIncludeState(Included(state), opened)

\* CheckHeaderFileIncluded of a source file whose header exists.
LacksItsHeader(state) == Included(state) \cap OwnNames = {}

=============================================================================
