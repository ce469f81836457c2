--------------------------- MODULE LintedFileProofs ---------------------------
(***************************************************************************)
(* What is reported about the #includes and the functions of a file, for   *)
(* files and headers of any kind and number and #ifs nested to any depth,  *)
(* what the passes over its text leave of it, for lines of any length, and *)
(* where the expressions in what is left end.                              *)
(***************************************************************************)
EXTENDS LintedFile, LintText, Induction

IncludeStates ==
  [include_list : Seq(SUBSET Names) \ {<<>>}, section : 0 .. 4, last_header : Nat]

FunctionStates == [in_a_function : BOOLEAN, lines_in_function : Nat, is_test : BOOLEAN]

TypeInv ==
  /\ include_state \in IncludeStates /\ function_state \in FunctionStates
  /\ linenum \in Nat /\ started \in Nat
  /\ branch \in Seq(Nat) /\ since \in Seq(HeaderFiles)
  /\ seen \subseteq [header : HeaderFiles, branch : Seq(Nat)]

\* The lists of included names without the last, and the last replaced.
LEMMA FrontOfLists ==
  ASSUME NEW T, NEW s \in Seq(T), s # <<>>
  PROVE  /\ Front(s) \in Seq(T) /\ Len(Front(s)) = Len(s) - 1
         /\ \A i \in 1 .. Len(s) - 1 : Front(s)[i] = s[i]
         /\ Last(s) \in T /\ Len(s) \in Nat \ {0}
<1>1. Len(s) \in Nat \ {0} /\ \A i \in 1 .. Len(s) : s[i] \in T
  OBVIOUS
<1>2. \A i \in 1 .. Len(s) - 1 : s[i] \in T
  BY <1>1
<1>3. /\ SubSeq(s, 1, Len(s) - 1) \in Seq(T) /\ Len(SubSeq(s, 1, Len(s) - 1)) = Len(s) - 1
      /\ \A i \in 1 .. Len(s) - 1 : SubSeq(s, 1, Len(s) - 1)[i] = s[i]
  <2> DEFINE n == Len(s) - 1
  <2>1. 1 \in Int /\ n \in Int
    BY <1>1
  <2>2. /\ SubSeq(s, 1, n) \in Seq(T)
        /\ Len(SubSeq(s, 1, n)) = IF 1 <= n THEN n - 1 + 1 ELSE 0
        /\ \A i \in 1 .. n - 1 + 1 : SubSeq(s, 1, n)[i] = s[1 + i - 1]
    BY <1>2, <2>1, SubSeqProperties
  <2>3. n - 1 + 1 = n /\ n \in Nat /\ \A i \in 1 .. n : 1 + i - 1 = i
    BY <1>1
  <2> HIDE DEF n
  <2>4. Len(SubSeq(s, 1, n)) = n
    BY <2>2, <2>3
  <2>5. \A i \in 1 .. n : SubSeq(s, 1, n)[i] = s[i]
    BY <2>2, <2>3
  <2>6. QED
    BY <2>2, <2>4, <2>5 DEF n
<1>4. QED
  BY <1>1, <1>3 DEF Front, Last

\* A sequence that grows and its front.
LEMMA FrontOfAppend ==
  ASSUME NEW T, NEW s \in Seq(T), NEW x \in T
  PROVE  /\ Append(s, x) \in Seq(T) /\ Front(Append(s, x)) = s
         /\ ToSet(Append(s, x)) = ToSet(s) \cup {x}
<1> DEFINE longer == Append(s, x)
<1>1. /\ longer \in Seq(T) /\ longer # <<>> /\ Len(longer) = Len(s) + 1 /\ Len(s) \in Nat
      /\ \A i \in 1 .. Len(s) : longer[i] = s[i]
      /\ longer[Len(s) + 1] = x
  OBVIOUS
<1> HIDE DEF longer
<1>2. /\ Front(longer) \in Seq(T) /\ Len(Front(longer)) = Len(longer) - 1
      /\ \A i \in 1 .. Len(longer) - 1 : Front(longer)[i] = longer[i]
  BY <1>1, FrontOfLists
<1>3. Front(longer) = s
  BY <1>1, <1>2, SeqEqual
<1>4. ToSet(longer) = ToSet(s) \cup {x}
  BY <1>1 DEF ToSet
<1>5. QED
  BY <1>1, <1>3, <1>4 DEF longer

\* A directive puts the order of headers back.
LEMMA ResetType ==
  ASSUME NEW state \in IncludeStates, NEW directive
  PROVE  ResetSection(state, directive) \in IncludeStates
<1> DEFINE lists == state.include_list
           next == CASE directive = "if" -> Append(lists, {})
                     [] directive = "else" -> Append(Front(lists), {})
                     [] OTHER -> lists
<1>1. lists \in Seq(SUBSET Names) \ {<<>>}
  BY DEF IncludeStates
<1>2. Front(lists) \in Seq(SUBSET Names)
  BY <1>1, FrontOfLists
<1>3. next \in Seq(SUBSET Names) \ {<<>>}
  <2>1. \A s \in Seq(SUBSET Names) : Append(s, {}) \in Seq(SUBSET Names) \ {<<>>}
    OBVIOUS
  <2> HIDE DEF lists
  <2>2. QED
    BY <1>1, <1>2, <2>1
<1>4. ResetSection(state, directive) = [section |-> 0, last_header |-> 0, include_list |-> next]
  BY DEF ResetSection, _INITIAL_SECTION
<1> HIDE DEF next
<1>5. QED
  BY <1>3, <1>4 DEF IncludeStates

\* Each header leaves the order in one of its five sections.
LEMMA SectionType ==
  ASSUME NEW section \in 0 .. 4, NEW type
  PROVE  SectionAfter(section, type) \in 0 .. 4
<1>1. SectionAfter(section, type) \in {section, 1, 2, 3, 4}
  BY DEF SectionAfter, IsOutOfOrder, _MY_H_SECTION, _C_SECTION, _CPP_SECTION, _OTHER_H_SECTION
<1>2. QED
  BY <1>1

\* An #include that counts adds its header's name to the last list.
LEMMA AddIncludeType ==
  ASSUME NEW state \in IncludeStates, NEW header \in HeaderFiles
  PROVE  AddInclude(state, header) \in IncludeStates
<1> DEFINE lists == state.include_list
           next == Append(Front(lists), Last(lists) \cup {header.name})
<1>1. lists \in Seq(SUBSET Names) \ {<<>>} /\ state.section \in 0 .. 4
  BY DEF IncludeStates
<1>2. Front(lists) \in Seq(SUBSET Names) /\ Last(lists) \in SUBSET Names
  BY <1>1, FrontOfLists
<1>3. header.name \in Names /\ header.path \in Nat
  BY DEF HeaderFiles
<1>4. next \in Seq(SUBSET Names) \ {<<>>}
  <2>1. \A s \in Seq(SUBSET Names), x \in SUBSET Names :
          Append(s, x) \in Seq(SUBSET Names) \ {<<>>}
    OBVIOUS
  <2> HIDE DEF lists
  <2>2. Last(lists) \cup {header.name} \in SUBSET Names
    BY <1>2, <1>3
  <2>3. QED
    BY <1>2, <2>1, <2>2
<1>5. SectionAfter(state.section, ClassifyInclude(header)) \in 0 .. 4
  BY <1>1, SectionType
<1>6. AddInclude(state, header) = state \/
      AddInclude(state, header)
        = [include_list |-> next, section |-> SectionAfter(state.section, ClassifyInclude(header)),
           last_header |-> header.path]
  BY DEF AddInclude
<1> HIDE DEF next
<1>7. QED
  BY <1>3, <1>4, <1>5, <1>6 DEF IncludeStates

\* Each line leaves the state of functions in its types.
LEMMA FunctionType ==
  ASSUME NEW state \in FunctionStates, NEW line
  PROVE  FunctionStateAfter(state, line) \in FunctionStates
<1>1. /\ Begin(state, FALSE) \in FunctionStates /\ Begin(state, TRUE) \in FunctionStates
      /\ [state EXCEPT !.in_a_function = FALSE] \in FunctionStates
      /\ [state EXCEPT !.lines_in_function = @ + 1] \in FunctionStates
  <2>1. \A is_test \in BOOLEAN : Begin(state, is_test) \in FunctionStates
    BY DEF FunctionStates, Begin
  <2>2. [state EXCEPT !.in_a_function = FALSE] \in FunctionStates
    BY DEF FunctionStates
  <2>3. [state EXCEPT !.lines_in_function = @ + 1] \in FunctionStates
    BY DEF FunctionStates
  <2>4. QED
    BY <2>1, <2>2, <2>3
<1>2. FunctionStateAfter(state, line)
        \in {Begin(state, FALSE), Begin(state, TRUE), [state EXCEPT !.in_a_function = FALSE], state,
             [state EXCEPT !.lines_in_function = @ + 1]}
  BY DEF FunctionStateAfter
<1>3. QED
  BY <1>1, <1>2

\* The open branches start at lines that have been read.
LEMMA BranchType ==
  ASSUME NEW directive, branch \in Seq(Nat), linenum' \in Nat
  PROVE  BranchAfter(directive) \in Seq(Nat)
<1>1. branch # <<>> => Front(branch) \in Seq(Nat)
  BY FrontOfLists
<1>2. QED
  BY <1>1 DEF BranchAfter

\* Types: before the first line.
LEMMA InitTypes == Init => TypeInv
<1> SUFFICES ASSUME Init PROVE TypeInv
  OBVIOUS
<1>1. NoIncludes \in IncludeStates
  <2>1. <<{}>> \in Seq(SUBSET Names) \ {<<>>}
    OBVIOUS
  <2>2. QED
    BY <2>1 DEF NoIncludes, IncludeStates, _INITIAL_SECTION
<1>2. NoFunction \in FunctionStates
  BY DEF NoFunction, FunctionStates
<1>3. QED
  BY <1>1, <1>2 DEF Init, TypeInv

\* Types: each line and the end of the file.
LEMMA NextTypes == TypeInv /\ [Next]_vars => TypeInv'
<1> SUFFICES ASSUME TypeInv, [Next]_vars PROVE TypeInv'
  OBVIOUS
<1>1. ASSUME NEW line, NEW errors, CheckLine(line, errors)
      PROVE  /\ linenum' = linenum + 1 /\ linenum' \in Nat /\ started' \in Nat
             /\ function_state' \in FunctionStates
  BY <1>1, FunctionType DEF TypeInv, CheckLine
<1>2. ASSUME NEW line \in Lines, Include(line) PROVE TypeInv'
  <2>1. line.header \in HeaderFiles
    BY <1>2, LinesAssumption DEF Include
  <2>2. CheckLine(line, IncludeErrors(include_state, line.header, line_before.kind = "include"))
    BY <1>2 DEF Include
  <2>3. include_state' \in IncludeStates
    BY <1>2, <2>1, AddIncludeType DEF TypeInv, Include
  <2>4. /\ branch' = branch /\ since' \in {since, Append(since, line.header)}
        /\ seen' = seen \cup {[header |-> line.header, branch |-> branch]}
    BY <1>2 DEF Include
  <2>5. since' \in Seq(HeaderFiles)
    BY <2>1, <2>4 DEF TypeInv
  <2>6. QED
    BY <1>1, <2>1, <2>2, <2>3, <2>4, <2>5 DEF TypeInv
<1>3. ASSUME NEW line \in Lines, Directive(line) PROVE TypeInv'
  <2>1. /\ CheckLine(line, {}) /\ include_state' = ResetSection(include_state, line.kind)
        /\ branch' = BranchAfter(line.kind) /\ since' = <<>> /\ seen' = seen
    BY <1>3 DEF Directive
  <2>2. include_state' \in IncludeStates
    BY <2>1, ResetType DEF TypeInv
  <2>3. branch' \in Seq(Nat)
    BY <1>1, <2>1, BranchType DEF TypeInv
  <2>4. QED
    BY <1>1, <2>1, <2>2, <2>3 DEF TypeInv
<1>4. ASSUME NEW line \in Lines, OtherLine(line) PROVE TypeInv'
  <2>1. CheckLine(line, {}) /\ UNCHANGED <<include_state, branch, seen, since>>
    BY <1>4 DEF OtherLine
  <2>2. QED
    BY <1>1, <2>1 DEF TypeInv
<1>5. ASSUME NEW required, NEW header_exists, EndOfFile(required, header_exists) PROVE TypeInv'
  BY <1>5 DEF EndOfFile, history, TypeInv
<1>6. CASE UNCHANGED vars
  BY <1>6 DEF vars, checks, history, TypeInv
<1>7. QED
  BY <1>2, <1>3, <1>4, <1>5, <1>6 DEF Next

\* The types of the variables, for any lines.
LEMMA TypeInvHolds == Spec => []TypeInv
<1>1. QED
  BY InitTypes, NextTypes, PTL DEF Spec

\* What holds of any file holds of those that the preprocessor accepts.
LEMMA LegalFilesAreFiles == LegalSpec => Spec
<1>1. LegalNext => Next
  BY DEF LegalNext, Next
<1>2. QED
  BY <1>1, PTL DEF Spec, LegalSpec

----------------------------------------------------------------------------
(* What has been included whatever branches are taken.                      *)

Counts(header) == ~header.third_party /\ ~header.foreign_cc

\* The names of all lists but the last, which an #else empties.
KeptByElse(state) == UNION ToSet(Front(state.include_list))

\* Branches start at lines that have been read.
BranchInv ==
  /\ \A i \in DOMAIN branch : branch[i] <= linenum
  /\ \A s \in seen : \A i \in DOMAIN s.branch : s.branch[i] <= linenum

\* A header included at a line that whatever branches are taken was read before the
\* next one can be found, and an #else of an #if inside of its branch keeps it.
IncludedInv ==
  \A s \in seen : Counts(s.header) /\ IsPrefix(s.branch, branch) =>
    /\ FindHeader(include_state, s.header.name)
    /\ Len(s.branch) < Len(branch) => s.header.name \in KeptByElse(include_state)

\* Prefixes of branches, position by position.
LEMMA PrefixOf ==
  ASSUME NEW s \in Seq(Nat), NEW t \in Seq(Nat)
  PROVE  IsPrefix(s, t) <=> Len(s) <= Len(t) /\ \A i \in 1 .. Len(s) : s[i] = t[i]
<1>1. SubSeq(s, 1, Len(s)) = s
  BY SubSeqFull
<1>2. ASSUME Len(s) <= Len(t)
      PROVE  /\ SubSeq(t, 1, Len(s)) \in Seq(Nat) /\ Len(SubSeq(t, 1, Len(s))) = Len(s)
             /\ \A i \in 1 .. Len(s) : SubSeq(t, 1, Len(s))[i] = t[i]
  <2> DEFINE n == Len(s)
  <2>1. 1 \in Int /\ n \in Int /\ n \in Nat /\ \A i \in 1 .. n : t[i] \in Nat
    BY <1>2
  <2>2. /\ SubSeq(t, 1, n) \in Seq(Nat)
        /\ Len(SubSeq(t, 1, n)) = IF 1 <= n THEN n - 1 + 1 ELSE 0
        /\ \A i \in 1 .. n - 1 + 1 : SubSeq(t, 1, n)[i] = t[1 + i - 1]
    BY <2>1, SubSeqProperties
  <2>3. n - 1 + 1 = n /\ (~(1 <= n) => n = 0) /\ \A i \in 1 .. n : 1 + i - 1 = i
    BY <2>1
  <2> HIDE DEF n
  <2>4. Len(SubSeq(t, 1, n)) = n /\ \A i \in 1 .. n : SubSeq(t, 1, n)[i] = t[i]
    BY <2>2, <2>3
  <2>5. QED
    BY <2>2, <2>4 DEF n
<1>3. ASSUME Len(s) <= Len(t), \A i \in 1 .. Len(s) : s[i] = t[i]
      PROVE  SubSeq(t, 1, Len(s)) = s
  BY <1>2, <1>3, SeqEqual
<1>4. QED
  BY <1>1, <1>2, <1>3 DEF IsPrefix

\* An #if hides nothing, and what was included before it survives its #else.
LEMMA IfKeeps ==
  ASSUME NEW state \in IncludeStates
  PROVE  LET next == ResetSection(state, "if")
         IN  Included(state) \subseteq KeptByElse(next) /\ Included(state) \subseteq Included(next)
<1> DEFINE lists == state.include_list
           next == ResetSection(state, "if")
<1>1. lists \in Seq(SUBSET Names)
  BY DEF IncludeStates
<1>2. next.include_list = Append(lists, {})
  BY DEF ResetSection
<1> HIDE DEF lists, next
<1>3. Front(Append(lists, {})) = lists /\ ToSet(Append(lists, {})) = ToSet(lists) \cup {{}}
  <2>1. {} \in SUBSET Names
    OBVIOUS
  <2>2. QED
    BY <1>1, <2>1, FrontOfAppend
<1>4. QED
  BY <1>2, <1>3 DEF next, lists, Included, KeptByElse

\* An #else empties the last list only.
LEMMA ElseKeeps ==
  ASSUME NEW state \in IncludeStates
  PROVE  LET next == ResetSection(state, "else")
         IN  KeptByElse(next) = KeptByElse(state) /\ KeptByElse(state) \subseteq Included(next)
<1> DEFINE lists == state.include_list
           next == ResetSection(state, "else")
           front == Front(lists)
<1>1. lists \in Seq(SUBSET Names) \ {<<>>}
  BY DEF IncludeStates
<1>2. next.include_list = Append(front, {})
  BY DEF ResetSection
<1>3. front \in Seq(SUBSET Names)
  BY <1>1, FrontOfLists
<1> HIDE DEF front, next
<1>4. Front(Append(front, {})) = front /\ ToSet(Append(front, {})) = ToSet(front) \cup {{}}
  <2>1. {} \in SUBSET Names
    OBVIOUS
  <2>2. QED
    BY <1>3, <2>1, FrontOfAppend
<1>5. QED
  BY <1>2, <1>4 DEF next, front, Included, KeptByElse

\* What an #else keeps can be found.
LEMMA KeptIsIncluded ==
  ASSUME NEW state \in IncludeStates
  PROVE  KeptByElse(state) \subseteq Included(state)
<1> DEFINE lists == state.include_list
<1>1. lists \in Seq(SUBSET Names) \ {<<>>}
  BY DEF IncludeStates
<1> HIDE DEF lists
<1>2. ToSet(Front(lists)) \subseteq ToSet(lists)
  <2>1. /\ Len(Front(lists)) = Len(lists) - 1 /\ Front(lists) \in Seq(SUBSET Names)
        /\ \A i \in 1 .. Len(lists) - 1 : Front(lists)[i] = lists[i]
        /\ Len(lists) \in Nat \ {0}
    BY <1>1, FrontOfLists
  <2>2. QED
    BY <1>1, <2>1 DEF ToSet
<1>3. QED
  BY <1>2 DEF lists, Included, KeptByElse

\* An #include adds a name, if it counts, and takes none away.
LEMMA AddIncludeKeeps ==
  ASSUME NEW state \in IncludeStates, NEW header \in HeaderFiles
  PROVE  LET next == AddInclude(state, header)
         IN  /\ Included(state) \subseteq Included(next)
             /\ KeptByElse(state) \subseteq KeptByElse(next)
             /\ Counts(header) => FindHeader(next, header.name)
<1> DEFINE lists == state.include_list
           front == Front(lists)
           last == Last(lists)
           more == last \cup {header.name}
           next == AddInclude(state, header)
<1>1. lists \in Seq(SUBSET Names) \ {<<>>}
  BY DEF IncludeStates
<1>2. /\ front \in Seq(SUBSET Names) /\ Len(front) = Len(lists) - 1 /\ Len(lists) \in Nat \ {0}
      /\ last \in SUBSET Names /\ \A i \in 1 .. Len(lists) - 1 : front[i] = lists[i]
  BY <1>1, FrontOfLists
<1>3. more \in SUBSET Names
  BY <1>2 DEF HeaderFiles
<1>4. \/ next = state /\ (Counts(header) => FindHeader(state, header.name))
      \/ next.include_list = Append(front, more)
  BY DEF AddInclude, Counts
<1>5. lists[Len(lists)] = last
  BY DEF Last
<1> HIDE DEF lists, front, last, more, next
<1>6. CASE next = state /\ (Counts(header) => FindHeader(state, header.name))
  BY <1>6 DEF next
<1>7. CASE next.include_list = Append(front, more)
  <2>1. Front(Append(front, more)) = front /\ ToSet(Append(front, more)) = ToSet(front) \cup {more}
    BY <1>2, <1>3, FrontOfAppend
  <2>2. ToSet(lists) = ToSet(front) \cup {last}
    BY <1>1, <1>2, <1>5 DEF ToSet
  <2>3. header.name \in more /\ last \subseteq more
    BY DEF more
  <2>4. FindHeader(next, header.name)
    BY <1>7, <2>1, <2>3 DEF FindHeader, Included
  <2>5. Included(state) \subseteq Included(next)
    BY <1>7, <2>1, <2>2, <2>3 DEF Included, lists
  <2>6. KeptByElse(state) \subseteq KeptByElse(next)
    BY <1>7, <2>1 DEF KeptByElse, front, lists
  <2>7. QED
    BY <2>4, <2>5, <2>6 DEF next
<1>8. QED
  BY <1>4, <1>6, <1>7

\* A branch that a new one starts in, or that another is left for.
LEMMA PrefixOfAppend ==
  ASSUME NEW s \in Seq(Nat), NEW t \in Seq(Nat), NEW l \in Nat, \A i \in DOMAIN s : s[i] < l,
         IsPrefix(s, Append(t, l))
  PROVE  IsPrefix(s, t) /\ Len(s) < Len(Append(t, l))
<1> DEFINE longer == Append(t, l)
<1>1. /\ longer \in Seq(Nat) /\ Len(longer) = Len(t) + 1 /\ longer[Len(t) + 1] = l
      /\ \A i \in 1 .. Len(t) : longer[i] = t[i]
      /\ Len(s) \in Nat /\ Len(t) \in Nat /\ \A i \in 1 .. Len(s) : s[i] < l /\ s[i] \in Nat
  OBVIOUS
<1> HIDE DEF longer
<1>2. Len(s) <= Len(t) + 1 /\ \A i \in 1 .. Len(s) : s[i] = longer[i]
  BY <1>1, PrefixOf DEF longer
<1>3. Len(s) # Len(t) + 1
  <2> SUFFICES ASSUME Len(s) = Len(t) + 1 PROVE FALSE
    OBVIOUS
  <2>1. Len(t) + 1 \in 1 .. Len(s)
    BY <1>1
  <2>2. s[Len(t) + 1] = l /\ s[Len(t) + 1] < l
    BY <1>1, <1>2, <2>1
  <2>3. QED
    BY <2>2
<1>4. Len(s) <= Len(t)
  BY <1>1, <1>2, <1>3
<1>5. \A i \in 1 .. Len(s) : s[i] = t[i]
  BY <1>1, <1>2, <1>4
<1>6. IsPrefix(s, t)
  BY <1>4, <1>5, PrefixOf
<1>7. QED
  BY <1>1, <1>4, <1>6 DEF longer

\* What is in the branch around an #if is in its branches, and not at their end.
LEMMA PrefixOfFront ==
  ASSUME NEW s \in Seq(Nat), NEW t \in Seq(Nat), t # <<>>, IsPrefix(s, Front(t))
  PROVE  IsPrefix(s, t) /\ Len(s) < Len(t)
<1>1. /\ Front(t) \in Seq(Nat) /\ Len(Front(t)) = Len(t) - 1 /\ Len(t) \in Nat \ {0}
      /\ \A i \in 1 .. Len(t) - 1 : Front(t)[i] = t[i]
  BY FrontOfLists
<1>2. Len(s) <= Len(t) - 1 /\ \A i \in 1 .. Len(s) : s[i] = Front(t)[i]
  BY <1>1, PrefixOf
<1>3. Len(s) \in Nat
  OBVIOUS
<1>4. Len(s) < Len(t) /\ \A i \in 1 .. Len(s) : s[i] = t[i]
  <2>1. Len(s) < Len(t)
    BY <1>1, <1>2, <1>3
  <2>2. \A i \in 1 .. Len(s) : i \in 1 .. Len(t) - 1
    BY <1>1, <1>2, <1>3
  <2> QED
    BY <1>1, <1>2, <2>1, <2>2
<1>5. QED
  BY <1>1, <1>3, <1>4, PrefixOf, SMTT(30)

\* Branches start at lines that have been read: each line.
LEMMA BranchNext == TypeInv /\ BranchInv /\ [Next]_vars => BranchInv'
<1> SUFFICES ASSUME TypeInv, BranchInv, [Next]_vars PROVE BranchInv'
  OBVIOUS
<1> USE DEF BranchInv
<1>1. linenum \in Nat /\ branch \in Seq(Nat)
      /\ seen \subseteq [header : HeaderFiles, branch : Seq(Nat)]
  BY DEF TypeInv
<1>2. ASSUME linenum' = linenum + 1, branch' = branch,
             \A s \in seen' : s \in seen \/ s.branch = branch
      PROVE  BranchInv'
  <2>1. \A i \in DOMAIN branch : branch[i] \in Nat
    BY <1>1
  <2>2. \A s \in seen : \A i \in DOMAIN s.branch : s.branch[i] \in Nat
    BY <1>1
  <2>3. \A x \in Nat : x <= linenum => x <= linenum'
    BY <1>1, <1>2
  <2>4. QED
    BY <1>2, <2>1, <2>2, <2>3
<1>3. ASSUME NEW line \in Lines, Include(line) PROVE BranchInv'
  <2>1. /\ linenum' = linenum + 1 /\ branch' = branch
        /\ seen' = seen \cup {[header |-> line.header, branch |-> branch]}
    BY <1>3 DEF Include, CheckLine
  <2>2. QED
    BY <1>2, <2>1
<1>4. ASSUME NEW line \in Lines, OtherLine(line) PROVE BranchInv'
  BY <1>2, <1>4 DEF OtherLine, CheckLine
<1>5. ASSUME NEW line \in Lines, Directive(line) PROVE BranchInv'
  <2>1. linenum' = linenum + 1 /\ seen' = seen /\ branch' = BranchAfter(line.kind)
    BY <1>5 DEF Directive, CheckLine
  <2>2. \A s \in seen : \A i \in DOMAIN s.branch : s.branch[i] <= linenum'
    <3>1. \A s \in seen : \A i \in DOMAIN s.branch : s.branch[i] \in Nat
      BY <1>1
    <3>2. QED
      BY <1>1, <2>1, <3>1
  <2>3. ASSUME NEW t \in Seq(Nat), \A i \in DOMAIN t : t[i] <= linenum
        PROVE  \A i \in DOMAIN Append(t, linenum') : Append(t, linenum')[i] <= linenum'
    <3>1. linenum' \in Nat /\ \A i \in 1 .. Len(t) : t[i] \in Nat /\ t[i] <= linenum
      BY <1>1, <2>1, <2>3
    <3>2. \A i \in 1 .. Len(t) + 1 :
            Append(t, linenum')[i] = IF i <= Len(t) THEN t[i] ELSE linenum'
      BY <3>1
    <3>3. DOMAIN Append(t, linenum') = 1 .. Len(t) + 1 /\ Len(t) \in Nat
      BY <3>1
    <3>4. QED
      BY <1>1, <2>1, <3>1, <3>2, <3>3
  <2>4. branch # <<>> => /\ Front(branch) \in Seq(Nat)
                        /\ \A i \in DOMAIN Front(branch) : Front(branch)[i] <= linenum
    <3> SUFFICES ASSUME branch # <<>>
                 PROVE  Front(branch) \in Seq(Nat)
                        /\ \A i \in DOMAIN Front(branch) : Front(branch)[i] <= linenum
      OBVIOUS
    <3>1. /\ Front(branch) \in Seq(Nat) /\ Len(Front(branch)) = Len(branch) - 1
          /\ Len(branch) \in Nat \ {0} /\ \A i \in 1 .. Len(branch) - 1 : Front(branch)[i] = branch[i]
      BY <1>1, FrontOfLists
    <3>2. DOMAIN Front(branch) = 1 .. Len(branch) - 1 /\ DOMAIN branch = 1 .. Len(branch)
      BY <1>1, <3>1
    <3>3. QED
      BY <3>1, <3>2
  <2>5. \A i \in DOMAIN branch : branch[i] \in Nat
    BY <1>1
  <2>6. \/ branch' = branch
        \/ branch' = Append(branch, linenum')
        \/ branch # <<>> /\ branch' = Append(Front(branch), linenum')
        \/ branch # <<>> /\ branch' = Front(branch)
    BY <2>1 DEF BranchAfter
  <2>7. \A i \in DOMAIN branch' : branch'[i] <= linenum'
    <3>1. CASE branch' = branch
      BY <1>1, <2>1, <2>5, <3>1
    <3>2. CASE branch' = Append(branch, linenum')
      BY <1>1, <2>3, <3>2
    <3>3. CASE branch # <<>> /\ branch' = Append(Front(branch), linenum')
      BY <2>3, <2>4, <3>3
    <3>4. CASE branch # <<>> /\ branch' = Front(branch)
      <4>1. \A i \in DOMAIN branch' : branch'[i] \in Nat /\ branch'[i] <= linenum
        BY <2>4, <3>4
      <4>2. QED
        BY <1>1, <2>1, <4>1
    <3>5. QED
      BY <2>6, <3>1, <3>2, <3>3, <3>4
  <2>8. QED
    BY <2>1, <2>2, <2>7
<1>6. ASSUME NEW required, NEW header_exists, EndOfFile(required, header_exists) PROVE BranchInv'
  BY <1>6 DEF EndOfFile, history
<1>7. CASE UNCHANGED vars
  BY <1>7 DEF vars, checks, history
<1>8. QED
  BY <1>3, <1>4, <1>5, <1>6, <1>7 DEF Next

\* Included headers: before the first line.
LEMMA InitIncluded == Init => BranchInv /\ IncludedInv
BY DEF Init, BranchInv, IncludedInv

\* A directive of a legal file: each header that counts in the branch after it counted
\* in the one before it, and in the lists that it keeps.
LEMMA DirectiveIncluded ==
  ASSUME TypeInv, BranchInv, IncludedInv, NEW line \in Lines, Legal(line), Directive(line)
  PROVE  IncludedInv'
<1>1. /\ linenum' = linenum + 1 /\ linenum' \in Nat /\ seen' = seen
      /\ include_state' = ResetSection(include_state, line.kind)
      /\ branch' = BranchAfter(line.kind)
      /\ line.kind \in {"if", "else", "endif"}
  BY DEF Directive, CheckLine, TypeInv
<1>2. include_state \in IncludeStates /\ branch \in Seq(Nat)
  BY DEF TypeInv
<1>3. line.kind # "if" => branch # <<>>
  BY <1>1 DEF Legal
<1> SUFFICES ASSUME NEW s \in seen, Counts(s.header), IsPrefix(s.branch, branch')
             PROVE  /\ FindHeader(include_state', s.header.name)
                    /\ Len(s.branch) < Len(branch') => s.header.name \in KeptByElse(include_state')
  BY <1>1 DEF IncludedInv
<1>4. s.branch \in Seq(Nat) /\ \A i \in DOMAIN s.branch : s.branch[i] < linenum'
  <2>1. s.branch \in Seq(Nat) /\ linenum \in Nat
    BY DEF TypeInv
  <2>2. \A i \in DOMAIN s.branch : s.branch[i] \in Nat /\ s.branch[i] <= linenum
    BY <2>1 DEF BranchInv
  <2>3. QED
    BY <1>1, <2>1, <2>2
<1>5. CASE line.kind = "if"
  <2>1. branch' = Append(branch, linenum')
    BY <1>1, <1>5 DEF BranchAfter
  <2>2. IsPrefix(s.branch, branch)
    BY <1>1, <1>2, <1>4, <2>1, PrefixOfAppend
  <2>3. s.header.name \in Included(include_state)
    BY <2>2 DEF IncludedInv, FindHeader
  <2>4. QED
    BY <1>1, <1>2, <1>5, <2>3, IfKeeps DEF FindHeader
<1>6. CASE line.kind = "else"
  <2>1. branch' = Append(Front(branch), linenum') /\ Front(branch) \in Seq(Nat)
    BY <1>1, <1>2, <1>3, <1>6, FrontOfLists DEF BranchAfter
  <2>2. IsPrefix(s.branch, Front(branch))
    BY <1>1, <1>4, <2>1, PrefixOfAppend
  <2>3. IsPrefix(s.branch, branch) /\ Len(s.branch) < Len(branch)
    BY <1>2, <1>3, <1>4, <1>6, <2>2, PrefixOfFront
  <2>4. s.header.name \in KeptByElse(include_state)
    BY <2>3 DEF IncludedInv
  <2>5. QED
    BY <1>1, <1>2, <1>6, <2>4, ElseKeeps DEF FindHeader
<1>7. CASE line.kind = "endif"
  <2>1. branch' = Front(branch)
    BY <1>1, <1>3, <1>7 DEF BranchAfter
  <2>2. IsPrefix(s.branch, branch) /\ Len(s.branch) < Len(branch)
    BY <1>2, <1>3, <1>4, <1>7, <2>1, PrefixOfFront
  <2>3. include_state'.include_list = include_state.include_list
    BY <1>1, <1>7 DEF ResetSection
  <2>4. FindHeader(include_state, s.header.name) /\ s.header.name \in KeptByElse(include_state)
    BY <2>2 DEF IncludedInv
  <2>5. QED
    BY <2>3, <2>4 DEF FindHeader, Included, KeptByElse
<1>8. QED
  BY <1>1, <1>5, <1>6, <1>7

\* Included headers: an #include adds its own and forgets none.
LEMMA IncludeIncluded ==
  ASSUME TypeInv, IncludedInv, NEW line \in Lines, Include(line)
  PROVE  IncludedInv'
<1>1. /\ include_state' = AddInclude(include_state, line.header) /\ branch' = branch
      /\ seen' = seen \cup {[header |-> line.header, branch |-> branch]}
  BY DEF Include
<1>2. line.header \in HeaderFiles /\ include_state \in IncludeStates /\ branch \in Seq(Nat)
  BY LinesAssumption DEF Include, TypeInv
<1>3. /\ Included(include_state) \subseteq Included(include_state')
      /\ KeptByElse(include_state) \subseteq KeptByElse(include_state')
      /\ Counts(line.header) => FindHeader(include_state', line.header.name)
  BY <1>1, <1>2, AddIncludeKeeps
<1> SUFFICES ASSUME NEW s \in seen', Counts(s.header), IsPrefix(s.branch, branch')
             PROVE  /\ FindHeader(include_state', s.header.name)
                    /\ Len(s.branch) < Len(branch') => s.header.name \in KeptByElse(include_state')
  BY DEF IncludedInv
<1>4. CASE s \in seen
  BY <1>1, <1>3, <1>4 DEF IncludedInv, FindHeader
<1>5. CASE s = [header |-> line.header, branch |-> branch]
  <2>1. Len(branch) \in Nat /\ ~(Len(s.branch) < Len(branch'))
    BY <1>1, <1>2, <1>5
  <2>2. QED
    BY <1>3, <1>5, <2>1
<1>6. QED
  BY <1>1, <1>4, <1>5

IncludesInv == TypeInv /\ BranchInv /\ IncludedInv

\* Included headers: any legal file.
LEMMA IncludesInvHolds == LegalSpec => []IncludesInv
<1>1. Init => IncludesInv
  BY InitTypes, InitIncluded DEF IncludesInv
<1>2. IncludesInv /\ [LegalNext]_vars => IncludesInv'
  <2> SUFFICES ASSUME IncludesInv, [LegalNext]_vars PROVE IncludesInv'
    OBVIOUS
  <2>1. [Next]_vars
    BY DEF LegalNext, Next
  <2>2. TypeInv' /\ BranchInv'
    BY <2>1, NextTypes, BranchNext DEF IncludesInv
  <2>3. ASSUME NEW line \in Lines, Legal(line), Include(line) PROVE IncludedInv'
    BY <2>3, IncludeIncluded DEF IncludesInv
  <2>4. ASSUME NEW line \in Lines, Legal(line), Directive(line) PROVE IncludedInv'
    BY <2>4, DirectiveIncluded DEF IncludesInv
  <2>5. ASSUME UNCHANGED <<include_state, branch, seen>> PROVE IncludedInv'
    BY <2>5 DEF IncludesInv, IncludedInv
  <2>6. ASSUME NEW line \in Lines, OtherLine(line) PROVE IncludedInv'
    BY <2>5, <2>6 DEF OtherLine
  <2>7. ASSUME NEW required, NEW header_exists, EndOfFile(required, header_exists)
        PROVE  IncludedInv'
    BY <2>5, <2>7 DEF EndOfFile, history
  <2>8. ASSUME UNCHANGED vars PROVE IncludedInv'
    BY <2>5, <2>8 DEF vars, checks, history
  <2>9. ASSUME LegalNext PROVE IncludedInv'
    <3>1. CASE \E line \in Lines : Legal(line) /\ (Include(line) \/ Directive(line) \/ OtherLine(line))
      BY <2>3, <2>4, <2>6, <3>1
    <3>2. CASE \E required \in SUBSET StdNames, header_exists \in BOOLEAN :
                 EndOfFile(required, header_exists)
      BY <2>7, <3>2
    <3>3. QED
      BY <2>9, <3>1, <3>2 DEF LegalNext
  <2>10. IncludedInv'
    BY <2>8, <2>9
  <2>11. QED
    BY <2>2, <2>10 DEF IncludesInv
<1>3. QED
  BY <1>1, <1>2, PTL DEF LegalSpec

\* In files that the preprocessor accepts, a header that is included twice whatever
\* branches are taken is reported, with #ifs nested to any depth (cpplint.py:4453).
THEOREM NoDuplicateIsMissed == LegalSpec => DuplicatesAreFound
<1>1. ASSUME IncludesInv, NEW line \in Lines, Include(line),
             NEW earlier \in seen, earlier.header = line.header, Counts(line.header),
             IsPrefix(earlier.branch, branch)
      PROVE  "already included" \in reported'
  <2>1. FindHeader(include_state, line.header.name)
    BY <1>1 DEF IncludesInv, IncludedInv
  <2>2. "already included"
          \in IncludeErrors(include_state, line.header, line_before.kind = "include")
    <3>1. IncludeErrors(include_state, line.header, line_before.kind = "include")
            = {"already included"}
      BY <2>1 DEF IncludeErrors
    <3>2. QED
      BY <3>1
  <2>3. QED
    BY <1>1, <2>2 DEF Include, CheckLine
<1>2. IncludesInv => \A line \in Lines :
        Include(line) /\ (\E earlier \in seen :
                            /\ earlier.header = line.header
                            /\ ~line.header.third_party /\ ~line.header.foreign_cc
                            /\ IsPrefix(earlier.branch, branch))
          => "already included" \in reported'
  BY <1>1 DEF Counts
<1>3. QED
  BY <1>2, IncludesInvHolds, PTL DEF DuplicatesAreFound

\* After the end, what is reported is what the include state lacks of what the file uses.
ReportInv ==
  ended =>
    \E required \in SUBSET StdNames, header_exists \in BOOLEAN :
      reported = MissingIncludes(include_state, required, is_cc)
                 \cup (IF header_exists /\ LacksItsHeader(include_state)
                       THEN {"own header"} ELSE {})

\* What is reported at the end of the file does not change any more.
LEMMA ReportInvHolds == Spec => []ReportInv
<1>1. Init => ReportInv
  BY DEF Init, ReportInv
<1>2. ReportInv /\ [Next]_vars => ReportInv'
  <2> SUFFICES ASSUME ReportInv, [Next]_vars PROVE ReportInv'
    OBVIOUS
  <2>1. ASSUME NEW line \in Lines, Include(line) \/ Directive(line) \/ OtherLine(line)
        PROVE  ReportInv'
    BY <2>1 DEF Include, Directive, OtherLine, CheckLine, ReportInv
  <2>2. ASSUME NEW required \in SUBSET StdNames, NEW header_exists \in BOOLEAN,
               EndOfFile(required, header_exists)
        PROVE  ReportInv'
    BY <2>2 DEF EndOfFile, ReportInv
  <2>3. CASE UNCHANGED vars
    BY <2>3 DEF vars, checks, ReportInv
  <2>4. QED
    BY <2>1, <2>2, <2>3 DEF Next
<1>3. QED
  BY <1>1, <1>2, PTL DEF Spec

\* A header included outside every #if is never asked for at the end, neither as one of
\* the standard library nor as the file's own (CheckForIncludeWhatYouUse and
\* CheckHeaderFileIncluded of cpplint.py).
THEOREM UnconditionalOnesCount == LegalSpec => []UnconditionalIncludesCount
<1>1. IncludesInv /\ ReportInv => UnconditionalIncludesCount
  <2> SUFFICES ASSUME IncludesInv, ReportInv, ended, NEW s \in seen, s.branch = <<>>,
                      ~s.header.third_party, ~s.header.foreign_cc
               PROVE  /\ s.header.name \notin reported
                      /\ s.header.name \in OwnNames => "own header" \notin reported
    BY DEF UnconditionalIncludesCount
  <2>1. branch \in Seq(Nat) /\ s.header \in HeaderFiles /\ s.branch \in Seq(Nat)
    BY DEF IncludesInv, TypeInv
  <2>2. IsPrefix(s.branch, branch)
    <3>1. /\ Len(s.branch) = 0 /\ Len(s.branch) <= Len(branch)
          /\ \A i \in 1 .. Len(s.branch) : s.branch[i] = branch[i]
      BY <2>1
    <3>2. QED
      BY <2>1, <3>1, PrefixOf
  <2>3. s.header.name \in Included(include_state)
    BY <2>2 DEF IncludesInv, IncludedInv, Counts, FindHeader
  <2>4. s.header.name \in Names
    BY <2>1 DEF HeaderFiles
  <2>5. PICK required \in SUBSET StdNames, header_exists \in BOOLEAN :
          reported = MissingIncludes(include_state, required, is_cc)
                     \cup (IF header_exists /\ LacksItsHeader(include_state)
                           THEN {"own header"} ELSE {})
    BY DEF ReportInv
  <2>6. MissingIncludes(include_state, required, is_cc)
          \subseteq required \ Included(include_state)
    BY DEF MissingIncludes, UpdateIncludeState
  <2>7. s.header.name # "own header" /\ "own header" \notin StdNames
    BY <2>4, NamesAssumption
  <2>8. s.header.name \in OwnNames => ~LacksItsHeader(include_state)
    BY <2>3 DEF LacksItsHeader
  <2>9. QED
    BY <2>3, <2>5, <2>6, <2>7, <2>8
<1>2. QED
  BY <1>1, IncludesInvHolds, ReportInvHolds, LegalFilesAreFiles, PTL

\* What the include state holds was read in an #include.
SeenInv == \A name \in Included(include_state) : \E s \in seen : s.header.name = name

\* A directive adds no name to the lists.
LEMMA DirectiveAddsNothing ==
  ASSUME NEW state \in IncludeStates, NEW directive
  PROVE  Included(ResetSection(state, directive)) \subseteq Included(state)
<1>1. state.include_list \in Seq(SUBSET Names)
  BY DEF IncludeStates
<1>2. CASE directive = "if"
  <2>1. ResetSection(state, directive).include_list = Append(state.include_list, {})
    BY <1>2 DEF ResetSection
  <2>2. {} \in SUBSET Names
    OBVIOUS
  <2>3. ToSet(Append(state.include_list, {})) = ToSet(state.include_list) \cup {{}}
    BY <1>1, <2>2, FrontOfAppend
  <2> QED
    BY <2>1, <2>3 DEF Included
<1>3. CASE directive = "else"
  <2>1. ResetSection(state, directive).include_list = Append(Front(state.include_list), {})
    BY <1>3 DEF ResetSection
  <2>2. Front(state.include_list) \in Seq(SUBSET Names) /\ {} \in SUBSET Names
    BY FrontOfLists DEF IncludeStates
  <2>3. ToSet(Append(Front(state.include_list), {})) = ToSet(Front(state.include_list)) \cup {{}}
    BY <2>2, FrontOfAppend
  <2>4. UNION ToSet(Front(state.include_list)) \subseteq Included(state)
    BY KeptIsIncluded DEF KeptByElse
  <2> QED
    BY <2>1, <2>3, <2>4 DEF Included
<1>4. CASE directive \notin {"if", "else"}
  BY <1>4 DEF ResetSection, Included
<1> QED
  BY <1>2, <1>3, <1>4

\* An #include adds the name of its header and no other.
LEMMA IncludeAddsItsName ==
  ASSUME NEW state \in IncludeStates, NEW header \in HeaderFiles
  PROVE  Included(AddInclude(state, header)) \subseteq Included(state) \cup {header.name}
<1> DEFINE lists == state.include_list
           more == Last(lists) \cup {header.name}
           next == AddInclude(state, header)
<1>1. lists \in Seq(SUBSET Names) \ {<<>>}
  BY DEF IncludeStates
<1>2. next = state \/ next.include_list = Append(Front(lists), more)
  BY DEF AddInclude
<1>3. /\ Front(lists) \in Seq(SUBSET Names) /\ Last(lists) \in SUBSET Names
      /\ Len(lists) \in Nat \ {0}
  BY <1>1, FrontOfLists
<1>4. more \in SUBSET Names
  BY <1>3 DEF HeaderFiles
<1>5. Last(lists) \in ToSet(lists)
  BY <1>1, <1>3 DEF Last, ToSet
<1>6. UNION ToSet(Front(lists)) \subseteq Included(state)
  BY KeptIsIncluded DEF KeptByElse
<1>7. more \subseteq Included(state) \cup {header.name}
  BY <1>5 DEF Included
<1> HIDE DEF lists, more, next
<1>8. ToSet(Append(Front(lists), more)) = ToSet(Front(lists)) \cup {more}
  BY <1>3, <1>4, FrontOfAppend
<1>9. CASE next.include_list = Append(Front(lists), more)
  <2> DEFINE fronts == ToSet(Front(lists))
  <2>1. Included(next) = UNION (fronts \cup {more})
    BY <1>8, <1>9 DEF Included
  <2>2. UNION fronts \subseteq Included(state)
    BY <1>6
  <2> HIDE DEF fronts
  <2>3. \A x \in Included(next) : x \in UNION fronts \/ x \in more
    BY <2>1, Zenon
  <2>4. Included(next) \subseteq Included(state) \cup {header.name}
    BY <1>7, <2>2, <2>3
  <2> QED
    BY <2>4 DEF next
<1> QED
  BY <1>2, <1>9 DEF next

\* SeenInv is an invariant, also of files with an #else or #endif too many.
LEMMA SeenInvHolds == Spec => []SeenInv
<1>1. Init => SeenInv
  <2> SUFFICES ASSUME Init PROVE SeenInv
    OBVIOUS
  <2>1. include_state.include_list = <<{}>>
    BY DEF Init, NoIncludes
  <2> QED
    BY <2>1 DEF SeenInv, Included, ToSet
<1>2. TypeInv /\ SeenInv /\ [Next]_vars => SeenInv'
  <2> SUFFICES ASSUME TypeInv, SeenInv, [Next]_vars PROVE SeenInv'
    OBVIOUS
  <2>1. include_state \in IncludeStates
    BY DEF TypeInv
  <2>2. ASSUME NEW line \in Lines, Include(line) PROVE SeenInv'
    <3>1. /\ include_state' = AddInclude(include_state, line.header)
          /\ seen' = seen \cup {[header |-> line.header, branch |-> branch]}
          /\ line.header \in HeaderFiles
      BY <2>2, LinesAssumption DEF Include
    <3>2. Included(include_state') \subseteq Included(include_state) \cup {line.header.name}
      BY <2>1, <3>1, IncludeAddsItsName
    <3>3. \E s \in seen' : s.header.name = line.header.name
      <4> DEFINE new == [header |-> line.header, branch |-> branch]
      <4>1. new \in seen' /\ new.header = line.header
        BY <3>1
      <4> QED
        BY <4>1
    <3> QED
      BY <3>1, <3>2, <3>3 DEF SeenInv
  <2>3. ASSUME NEW line \in Lines, Directive(line) PROVE SeenInv'
    <3>1. include_state' = ResetSection(include_state, line.kind) /\ seen' = seen
      BY <2>3 DEF Directive
    <3> QED
      BY <2>1, <3>1, DirectiveAddsNothing DEF SeenInv
  <2>4. ASSUME UNCHANGED <<include_state, seen>> PROVE SeenInv'
    BY <2>4 DEF SeenInv
  <2>5. ASSUME NEW line \in Lines, OtherLine(line) PROVE SeenInv'
    BY <2>4, <2>5 DEF OtherLine
  <2>6. ASSUME NEW required, NEW header_exists, EndOfFile(required, header_exists) PROVE SeenInv'
    BY <2>4, <2>6 DEF EndOfFile, history
  <2>7. ASSUME UNCHANGED vars PROVE SeenInv'
    BY <2>4, <2>7 DEF vars, checks, history
  <2> QED
    BY <2>2, <2>3, <2>5, <2>6, <2>7 DEF Next
<1> QED
  BY <1>1, <1>2, TypeInvHolds, PTL DEF Spec

\* A source file that has no #include of a header of its module that can be opened is
\* asked for no header at its end (CheckForIncludeWhatYouUse of cpplint.py), in any file.
THEOREM NothingIsAskedWithoutHeader == Spec => []NothingAskedWithoutHeader
<1>1. SeenInv /\ ReportInv => NothingAskedWithoutHeader
  <2> SUFFICES ASSUME SeenInv, ReportInv, ended, is_cc,
                      \A s \in seen : s.header.name \notin DOMAIN ModuleHeaders
               PROVE  reported \cap StdNames = {}
    BY DEF NothingAskedWithoutHeader
  <2>1. Included(include_state) \cap DOMAIN ModuleHeaders = {}
    BY DEF SeenInv
  <2>2. PICK required \in SUBSET StdNames, header_exists \in BOOLEAN :
          reported = MissingIncludes(include_state, required, is_cc)
                     \cup (IF header_exists /\ LacksItsHeader(include_state)
                           THEN {"own header"} ELSE {})
    BY DEF ReportInv
  <2>3. MissingIncludes(include_state, required, is_cc) = {}
    BY <2>1 DEF MissingIncludes
  <2>4. "own header" \notin StdNames
    BY NamesAssumption
  <2> QED
    BY <2>2, <2>3, <2>4
<1> QED
  BY <1>1, SeenInvHolds, ReportInvHolds, PTL

----------------------------------------------------------------------------
(* The order of #includes.                                                  *)

HeaderTypes == {"C system", "C++ system", "likely my", "possible my", "other"}

\* A section is the highest place of some headers.
IsHighest(section, headers) ==
  /\ \A i \in DOMAIN headers : Place(headers, i) <= section
  /\ section # 0 => \E i \in DOMAIN headers : Place(headers, i) = section

\* The section is the highest place of the headers since the last directive, and the
\* last header is the last of them.
SectionInv ==
  /\ IsHighest(include_state.section, since)
  /\ include_state.last_header = (IF since = <<>> THEN 0 ELSE since[Len(since)].path)

\* The five types of headers (_ClassifyInclude).
LEMMA TypesOfHeaders == \A header : ClassifyInclude(header) \in HeaderTypes
BY DEF ClassifyInclude, HeaderTypes

\* Places are sections, the first of them as long as all headers may be the file's own.
LEMMA PlaceTypes ==
  ASSUME NEW headers, NEW i \in Nat \ {0}
  PROVE  /\ Place(headers, i) \in 1 .. 4
         /\ Place(headers, i) = 1 <=>
              \A j \in 1 .. i : ClassifyInclude(headers[j]) \in {"likely my", "possible my"}
<1> DEFINE type(j) == ClassifyInclude(headers[j])
           all == \A j \in 1 .. i : type(j) \in {"likely my", "possible my"}
<1>1. i \in 1 .. i
  OBVIOUS
<1>2. Place(headers, i) = IF type(i) = "C system" THEN 2
                          ELSE IF type(i) = "C++ system" THEN 3
                          ELSE IF all THEN 1 ELSE 4
  BY DEF Place, _MY_H_SECTION, _C_SECTION, _CPP_SECTION, _OTHER_H_SECTION
<1>3. all => type(i) \in {"likely my", "possible my"}
  BY <1>1
<1>4. Place(headers, i) \in 1 .. 4 /\ (Place(headers, i) = 1 <=> all)
  <2> DEFINE place == Place(headers, i)
             t == type(i)
  <2>1. place = IF t = "C system" THEN 2 ELSE IF t = "C++ system" THEN 3 ELSE IF all THEN 1 ELSE 4
    BY <1>2
  <2>2. all => t \in {"likely my", "possible my"}
    BY <1>3
  <2> HIDE DEF place, t, all
  <2>3. CASE all
    <3>1. place = 1
      BY <2>1, <2>2, <2>3
    <3>2. QED
      BY <2>3, <3>1 DEF place
  <2>4. CASE ~all
    <3>1. place \in {2, 3, 4}
      BY <2>1, <2>4
    <3>2. QED
      BY <2>4, <3>1 DEF place
  <2>5. QED
    BY <2>3, <2>4
<1>5. QED
  BY <1>4

\* The place of a header does not depend on those after it.
LEMMA PlaceOfEarlier ==
  ASSUME NEW headers \in Seq(HeaderFiles), NEW header \in HeaderFiles
  PROVE  \A i \in DOMAIN headers : Place(Append(headers, header), i) = Place(headers, i)
<1> SUFFICES ASSUME NEW i \in DOMAIN headers
             PROVE  Place(Append(headers, header), i) = Place(headers, i)
  OBVIOUS
<1>1. i \in 1 .. Len(headers) /\ Len(headers) \in Nat
  OBVIOUS
<1> DEFINE longer == Append(headers, header)
<1>2. \A j \in 1 .. Len(headers) : longer[j] = headers[j]
  OBVIOUS
<1> HIDE DEF longer
<1>3. \A j \in 1 .. i : longer[j] = headers[j]
  BY <1>1, <1>2
<1>4. longer[i] = headers[i]
  BY <1>1, <1>2
<1>5. QED
  BY <1>3, <1>4 DEF Place, longer

\* The section after a header is the place it has among the others, unless it is out of
\* order, and then that place is below the section.
LEMMA SectionIsPlace ==
  ASSUME NEW headers \in Seq(HeaderFiles), NEW header \in HeaderFiles, NEW section \in 0 .. 4,
         IsHighest(section, headers)
  PROVE  LET type == ClassifyInclude(header)
             place == Place(Append(headers, header), Len(headers) + 1)
         IN  IF IsOutOfOrder(section, type)
             THEN SectionAfter(section, type) = section /\ place <= section
             ELSE SectionAfter(section, type) = place /\ section <= place
<1> DEFINE longer == Append(headers, header)
           n == Len(headers) + 1
           type == ClassifyInclude(header)
           My == {"likely my", "possible my"}
           all == \A j \in 1 .. n : ClassifyInclude(longer[j]) \in My
           place == Place(longer, n)
<1>1. /\ n \in Nat \ {0} /\ longer[n] = header /\ n \in 1 .. n
      /\ \A j \in 1 .. n : j # n => j \in DOMAIN headers /\ longer[j] = headers[j]
      /\ \A j \in DOMAIN headers : j \in Nat \ {0} /\ \A k \in 1 .. j : k \in 1 .. n /\ k # n
  OBVIOUS
<1>2. place = IF type = "C system" THEN 2
              ELSE IF type = "C++ system" THEN 3
              ELSE IF all THEN 1 ELSE 4
  BY <1>1 DEF Place, _MY_H_SECTION, _C_SECTION, _CPP_SECTION, _OTHER_H_SECTION
<1>3. type \in HeaderTypes
  BY TypesOfHeaders
<1>4. type \in My => (all <=> section <= 1)
  <2> SUFFICES ASSUME type \in My PROVE all <=> section <= 1
    OBVIOUS
  <2>1. ASSUME section <= 1 PROVE all
    <3> SUFFICES ASSUME NEW j \in 1 .. n, j # n PROVE ClassifyInclude(longer[j]) \in My
      BY <1>1
    <3>1. j \in DOMAIN headers /\ longer[j] = headers[j] /\ j \in Nat \ {0}
      BY <1>1
    <3>2. Place(headers, j) \in 1 .. 4 /\ Place(headers, j) <= section
      BY <3>1, PlaceTypes DEF IsHighest
    <3>3. Place(headers, j) = 1 /\ j \in 1 .. j
      <4> DEFINE p == Place(headers, j)
      <4>1. p \in 1 .. 4 /\ p <= section
        BY <3>2
      <4> HIDE DEF p, longer, n, type, all, My
      <4>2. p = 1
        BY <2>1, <4>1
      <4>3. QED
        BY <3>1, <4>2 DEF p
    <3>4. \A k \in 1 .. j : ClassifyInclude(headers[k]) \in My
      BY <3>1, <3>3, PlaceTypes
    <3>5. QED
      BY <3>1, <3>3, <3>4
  <2>2. ASSUME all, section # 0 PROVE section = 1
    <3>1. PICK i \in DOMAIN headers : Place(headers, i) = section
      BY <2>2 DEF IsHighest
    <3>2. i \in Nat \ {0}
      BY <1>1
    <3>3. \A k \in 1 .. i : k \in 1 .. n /\ longer[k] = headers[k]
      BY <1>1
    <3>4. \A k \in 1 .. i : ClassifyInclude(headers[k]) \in My
      BY <2>2, <3>3
    <3>5. Place(headers, i) = 1
      BY <3>2, <3>4, PlaceTypes
    <3>6. QED
      BY <3>1, <3>5
  <2> HIDE DEF longer, n, type, all, My
  <2>3. section = 0 \/ section = 1 <=> section <= 1
    OBVIOUS
  <2>4. QED
    BY <2>1, <2>2, <2>3
<1> HIDE DEF longer, n, type, all, place
<1>5. IsOutOfOrder(section, type) <=>
        (type = "C system" /\ section > 2) \/ (type = "C++ system" /\ section > 3)
  BY DEF IsOutOfOrder, _C_SECTION, _CPP_SECTION
<1>6. SectionAfter(section, type)
        = IF IsOutOfOrder(section, type) THEN section
          ELSE CASE type = "C system" -> 2
                 [] type = "C++ system" -> 3
                 [] type \in My /\ section <= 1 -> 1
                 [] OTHER -> 4
  BY DEF SectionAfter, _MY_H_SECTION, _C_SECTION, _CPP_SECTION, _OTHER_H_SECTION
<1>7. IF IsOutOfOrder(section, type)
      THEN SectionAfter(section, type) = section /\ place <= section
      ELSE SectionAfter(section, type) = place /\ section <= place
  <2> DEFINE after == SectionAfter(section, type)
             late == IsOutOfOrder(section, type)
  <2>1. late \in BOOLEAN /\ all \in BOOLEAN
    BY DEF IsOutOfOrder, all
  <2> HIDE DEF after, late
  <2>2. CASE type = "C system"
    <3>1. place = 2 /\ (late <=> section > 2)
      BY <1>2, <1>5, <2>2 DEF late
    <3>2. after = IF late THEN section ELSE 2
      BY <1>6, <2>2 DEF after, late
    <3>3. QED
      BY <3>1, <3>2 DEF after, late
  <2>3. CASE type = "C++ system"
    <3>1. place = 3 /\ (late <=> section > 3)
      BY <1>2, <1>5, <2>3 DEF late
    <3>2. after = IF late THEN section ELSE 3
      BY <1>6, <2>3 DEF after, late
    <3>3. QED
      BY <3>1, <3>2 DEF after, late
  <2>4. CASE type = "other"
    <3>1. ~all
      <4>1. \A j \in 1 .. n : ClassifyInclude(longer[j]) \in My => ClassifyInclude(longer[j]) # "other"
        OBVIOUS
      <4>2. QED
        BY <1>1, <2>4, <4>1 DEF all, type
    <3>2. place = 4 /\ ~late
      BY <1>2, <1>5, <2>4, <3>1 DEF late
    <3>3. after = 4
      BY <1>6, <2>4, <3>2 DEF after, late
    <3>4. QED
      BY <3>2, <3>3 DEF after, late
  <2>5. CASE type \in My
    <3>1. place = (IF section <= 1 THEN 1 ELSE 4) /\ ~late
      BY <1>2, <1>4, <1>5, <2>5 DEF late
    <3>2. after = IF section <= 1 THEN 1 ELSE 4
      BY <1>6, <2>5, <3>1 DEF after, late
    <3>3. QED
      BY <3>1, <3>2 DEF after, late
  <2>6. QED
    BY <1>3, <2>2, <2>3, <2>4, <2>5 DEF HeaderTypes
<1>8. QED
  BY <1>7 DEF type, place, longer, n

\* What an #include does to the order, when it counts.
LEMMA IncludeInOrder ==
  ASSUME TypeInv, SectionInv, NEW line \in Lines, Include(line), include_state' # include_state
  PROVE  LET header == line.header
             n == Len(since) + 1
         IN  /\ header \in HeaderFiles /\ since' = Append(since, header) /\ Len(since') = n
             /\ \A i \in DOMAIN since : i \in DOMAIN since' /\ Place(since', i) = Place(since, i)
             /\ include_state'.section = SectionAfter(include_state.section, ClassifyInclude(header))
             /\ include_state'.last_header = header.path
             /\ IF IsOutOfOrder(include_state.section, ClassifyInclude(header))
                THEN include_state'.section = include_state.section
                     /\ Place(since', n) <= include_state.section
                ELSE include_state'.section = Place(since', n)
                     /\ include_state.section <= Place(since', n)
<1>1. line.header \in HeaderFiles /\ since \in Seq(HeaderFiles) /\ include_state \in IncludeStates
  BY LinesAssumption DEF Include, TypeInv
<1>2. since' = Append(since, line.header)
  BY DEF Include
<1>3. /\ include_state'.section
           = SectionAfter(include_state.section, ClassifyInclude(line.header))
      /\ include_state'.last_header = line.header.path
  <2>1. include_state' = AddInclude(include_state, line.header)
    BY DEF Include
  <2>2. QED
    BY <2>1 DEF AddInclude
<1>4. include_state.section \in 0 .. 4
  BY <1>1 DEF IncludeStates
<1>5. IsHighest(include_state.section, since)
  BY DEF SectionInv
<1>6. \A i \in DOMAIN since : i \in DOMAIN since' /\ Place(since', i) = Place(since, i)
  <2>1. \A i \in DOMAIN since : i \in DOMAIN Append(since, line.header)
    BY <1>1
  <2>2. QED
    BY <1>1, <1>2, <2>1, PlaceOfEarlier
<1>7. Len(since') = Len(since) + 1
  BY <1>1, <1>2
<1>8. QED
  BY <1>1, <1>2, <1>3, <1>4, <1>5, <1>6, <1>7, SectionIsPlace

\* The order: before the first line.
LEMMA InitSection == Init => SectionInv
BY DEF Init, SectionInv, IsHighest, NoIncludes, _INITIAL_SECTION

\* The order: each line and the end of the file.
LEMMA NextSection == TypeInv /\ SectionInv /\ [Next]_vars => SectionInv'
<1> SUFFICES ASSUME TypeInv, SectionInv, [Next]_vars PROVE SectionInv'
  OBVIOUS
<1>1. ASSUME include_state' = include_state, since' = since PROVE SectionInv'
  BY <1>1 DEF SectionInv, IsHighest, Place
<1>2. ASSUME NEW line \in Lines, Include(line) PROVE SectionInv'
  <2>1. CASE include_state' = include_state
    <3>1. since' = since
      BY <1>2, <2>1 DEF Include
    <3>2. QED
      BY <1>1, <2>1, <3>1
  <2>2. CASE include_state' # include_state
    <3> DEFINE header == line.header
               n == Len(since) + 1
               section == include_state.section
               late == IsOutOfOrder(section, ClassifyInclude(header))
    <3>1. /\ header \in HeaderFiles /\ since' = Append(since, header) /\ Len(since') = n
          /\ \A i \in DOMAIN since : i \in DOMAIN since' /\ Place(since', i) = Place(since, i)
          /\ include_state'.last_header = header.path
          /\ IF late
             THEN include_state'.section = section /\ Place(since', n) <= section
             ELSE include_state'.section = Place(since', n) /\ section <= Place(since', n)
      BY <1>2, <2>2, IncludeInOrder
    <3>2. section \in 0 .. 4 /\ since \in Seq(HeaderFiles)
      BY DEF TypeInv, IncludeStates
    <3>3. /\ n \in Nat \ {0} /\ DOMAIN since' = DOMAIN since \cup {n} /\ since' # <<>>
          /\ since'[n] = header
      BY <3>1, <3>2
    <3>4. /\ \A i \in DOMAIN since : Place(since, i) <= section
          /\ section # 0 => \E i \in DOMAIN since : Place(since, i) = section
      BY DEF SectionInv, IsHighest
    <3>5. Place(since', n) \in 1 .. 4
      BY <3>3, PlaceTypes
    <3>6. \A i \in DOMAIN since : Place(since', i) \in 1 .. 4
      <4>1. \A i \in DOMAIN since : i \in Nat \ {0}
        BY <3>2
      <4>2. QED
        BY <4>1, PlaceTypes
    <3> HIDE DEF header, n, section, late
    <3>7. IsHighest(include_state'.section, since')
      <4>1. CASE late
        <5>1. \A i \in DOMAIN since' : Place(since', i) <= section
          BY <3>1, <3>3, <3>4, <4>1
        <5>2. section # 0 => \E i \in DOMAIN since' : Place(since', i) = section
          BY <3>1, <3>4
        <5>3. QED
          BY <3>1, <4>1, <5>1, <5>2 DEF IsHighest
      <4>2. CASE ~late
        <5> DEFINE p == Place(since', n)
        <5>1. /\ include_state'.section = p /\ section <= p /\ p \in 1 .. 4
              /\ \A i \in DOMAIN since : Place(since', i) <= section /\ Place(since', i) \in 1 .. 4
          BY <3>1, <3>4, <3>5, <3>6, <4>2
        <5>2. \A i \in DOMAIN since' : Place(since', i) <= p
          <6> SUFFICES ASSUME NEW i \in DOMAIN since' PROVE Place(since', i) <= p
            OBVIOUS
          <6>1. CASE i = n
            <7>1. Place(since', i) = p
              BY <6>1
            <7> HIDE DEF p
            <7>2. QED
              BY <5>1, <7>1
          <6>2. CASE i # n
            <7> DEFINE q == Place(since', i)
            <7>1. q <= section /\ q \in 1 .. 4
              BY <3>3, <5>1, <6>2
            <7> HIDE DEF p, q
            <7>2. q <= p
              BY <3>2, <5>1, <7>1 DEF section
            <7>3. QED
              BY <7>2 DEF p, q
          <6>3. QED
            BY <6>1, <6>2
        <5>3. QED
          BY <3>3, <5>1, <5>2 DEF IsHighest
      <4>3. QED
        BY <4>1, <4>2
    <3>8. QED
      BY <3>1, <3>3, <3>7 DEF SectionInv
  <2>3. QED
    BY <2>1, <2>2
<1>3. ASSUME NEW line \in Lines, Directive(line) PROVE SectionInv'
  <2>1. since' = <<>> /\ include_state'.section = 0 /\ include_state'.last_header = 0
    BY <1>3 DEF Directive, ResetSection, _INITIAL_SECTION
  <2>2. QED
    BY <2>1 DEF SectionInv, IsHighest
<1>4. ASSUME NEW line \in Lines, OtherLine(line) PROVE SectionInv'
  BY <1>1, <1>4 DEF OtherLine
<1>5. ASSUME NEW required, NEW header_exists, EndOfFile(required, header_exists)
      PROVE  SectionInv'
  BY <1>1, <1>5 DEF EndOfFile, history
<1>6. CASE UNCHANGED vars
  BY <1>1, <1>6 DEF vars, checks, history
<1>7. QED
  BY <1>2, <1>3, <1>4, <1>5, <1>6 DEF Next

\* The order: any file.
LEMMA SectionInvHolds == Spec => [](TypeInv /\ SectionInv)
<1>1. Init => TypeInv /\ SectionInv
  BY InitTypes, InitSection
<1>2. TypeInv /\ SectionInv /\ [Next]_vars => (TypeInv /\ SectionInv)'
  BY NextTypes, NextSection
<1>3. QED
  BY <1>1, <1>2, PTL DEF Spec

\* The errors of an #include that counts.
LEMMA ErrorsOfInclude ==
  ASSUME NEW line \in Lines, Include(line), include_state' # include_state
  PROVE  LET type == ClassifyInclude(line.header) IN
         /\ "order" \in reported' <=> IsOutOfOrder(include_state.section, type)
         /\ "alpha" \in reported' => HeaderBefore(include_state, line.header) > line.header.path
<1> DEFINE errors == IncludeErrors(include_state, line.header, line_before.kind = "include")
           late == IsOutOfOrder(include_state.section, ClassifyInclude(line.header))
           before == HeaderBefore(include_state, line.header) > line.header.path
<1>1. /\ include_state' = AddInclude(include_state, line.header)
      /\ reported' = errors \cup {} /\ line.kind = "include"
  BY DEF Include, CheckLine
<1>2. ~FindHeader(include_state, line.header.name) /\ ~line.header.foreign_cc
      /\ ~line.header.third_party
  BY <1>1 DEF AddInclude
<1>3. errors = (IF late THEN {"order"} ELSE {})
               \cup (IF line_before.kind = "include" /\ before THEN {"alpha"} ELSE {})
  BY <1>2 DEF IncludeErrors
<1>4. "order" # "alpha"
  OBVIOUS
<1> HIDE DEF errors, late, before
<1>5. ("order" \in errors <=> late) /\ ("alpha" \in errors => before)
  BY <1>3, <1>4 DEF late
<1>6. QED
  BY <1>1, <1>5 DEF late, before

\* Exactly the system headers that come after a header of a later place are reported as
\* out of order, for headers in any number and order (cpplint.py:4480-4482).
THEOREM OrderErrorsAreRight == Spec => OrderErrorsAreInversions
<1>1. ASSUME TypeInv, SectionInv, NEW line \in Lines, Include(line), include_state' # include_state
      PROVE  "order" \in reported' <=>
               \E i \in DOMAIN since :
                 \/ ClassifyInclude(line.header) = "C system" /\ Place(since, i) > _C_SECTION
                 \/ ClassifyInclude(line.header) = "C++ system" /\ Place(since, i) > _CPP_SECTION
  <2> DEFINE type == ClassifyInclude(line.header)
             section == include_state.section
  <2>1. "order" \in reported' <=> IsOutOfOrder(section, type)
    BY <1>1, ErrorsOfInclude
  <2>2. IsOutOfOrder(section, type) <=>
          (type = "C system" /\ section > 2) \/ (type = "C++ system" /\ section > 3)
    BY DEF IsOutOfOrder, _C_SECTION, _CPP_SECTION
  <2>3. section \in 0 .. 4 /\ IsHighest(section, since)
    BY <1>1 DEF TypeInv, IncludeStates, SectionInv
  <2>4. \A i \in DOMAIN since : Place(since, i) \in 1 .. 4
    <3>1. since \in Seq(HeaderFiles)
      BY <1>1 DEF TypeInv
    <3>2. \A i \in DOMAIN since : i \in Nat \ {0}
      BY <3>1
    <3>3. QED
      BY <3>2, PlaceTypes
  <2> HIDE DEF type, section
  <2>5. ASSUME NEW limit \in {2, 3}
        PROVE  section > limit <=> \E i \in DOMAIN since : Place(since, i) > limit
    BY <2>3, <2>4 DEF IsHighest
  <2>6. /\ section > 2 <=> \E i \in DOMAIN since : Place(since, i) > 2
        /\ section > 3 <=> \E i \in DOMAIN since : Place(since, i) > 3
    BY <2>5
  <2>7. QED
    BY <2>1, <2>2, <2>6 DEF type, _C_SECTION, _CPP_SECTION
<1>2. TypeInv /\ SectionInv => \A line \in Lines :
        Include(line) /\ include_state' # include_state =>
          ("order" \in reported' <=>
             \E i \in DOMAIN since :
               \/ ClassifyInclude(line.header) = "C system" /\ Place(since, i) > _C_SECTION
               \/ ClassifyInclude(line.header) = "C++ system" /\ Place(since, i) > _CPP_SECTION)
  BY <1>1
<1>3. QED
  BY <1>2, SectionInvHolds, PTL DEF OrderErrorsAreInversions

\* An alphabetical error is about the last header before, at the same place, unless
\* one before that was at a later place (CheckIncludeLine of cpplint.py).
THEOREM AlphaErrorsAreRight == Spec => AlphaErrorsAreInversions
<1>1. ASSUME TypeInv, SectionInv, NEW line \in Lines, Include(line), "alpha" \in reported'
      PROVE  \E i \in DOMAIN since :
               /\ since[i].path > line.header.path
               /\ \/ Place(since', i) = Place(since', Len(since'))
                  \/ \E j \in 1 .. i : Place(since, j) > Place(since, i)
  <2> DEFINE header == line.header
             type == ClassifyInclude(header)
             section == include_state.section
             late == IsOutOfOrder(section, type)
             n == Len(since) + 1
             m == Len(since)
  <2>1. header \in HeaderFiles /\ include_state \in IncludeStates /\ since \in Seq(HeaderFiles)
    BY <1>1, LinesAssumption DEF Include, TypeInv
  <2>2. include_state' # include_state
    <3>1. /\ "alpha" \in IncludeErrors(include_state, header, line_before.kind = "include") \cup {}
          /\ include_state' = AddInclude(include_state, header)
      BY <1>1 DEF Include, CheckLine
    <3>2. "alpha" # "already included" /\ "alpha" # "do not include"
      OBVIOUS
    <3>3. ~FindHeader(include_state, header.name) /\ ~header.foreign_cc /\ ~header.third_party
      BY <3>1, <3>2 DEF IncludeErrors
    <3>4. FindHeader(include_state', header.name)
      BY <2>1, <3>1, <3>3, AddIncludeKeeps DEF Counts
    <3>5. QED
      BY <3>3, <3>4
  <2>3. HeaderBefore(include_state, header) > header.path
    BY <1>1, <2>2, ErrorsOfInclude
  <2>4. /\ since' = Append(since, header) /\ Len(since') = n
        /\ \A i \in DOMAIN since : i \in DOMAIN since' /\ Place(since', i) = Place(since, i)
        /\ include_state'.section = SectionAfter(section, type)
        /\ IF late
           THEN include_state'.section = section /\ Place(since', n) <= section
           ELSE include_state'.section = Place(since', n) /\ section <= Place(since', n)
    BY <1>1, <2>2, IncludeInOrder
  <2>5. header.path \in Nat \ {0} /\ section \in 0 .. 4
    BY <2>1 DEF HeaderFiles, IncludeStates
  <2>6. ~late /\ SectionAfter(section, type) = section /\ include_state.last_header > header.path
    <3>1. late \/ SectionAfter(section, type) # section => HeaderBefore(include_state, header) = 0
      BY DEF HeaderBefore
    <3>2. ~(0 > header.path)
      BY <2>5
    <3>3. ~late /\ SectionAfter(section, type) = section
      BY <2>3, <3>1, <3>2
    <3>4. HeaderBefore(include_state, header) = include_state.last_header
      BY <3>3 DEF HeaderBefore
    <3>5. QED
      BY <2>3, <3>3, <3>4
  <2>7. Place(since', n) = section
    BY <2>4, <2>6
  <2>8. since # <<>> /\ since[m].path > header.path
    <3>1. include_state.last_header = (IF since = <<>> THEN 0 ELSE since[m].path)
      BY <1>1 DEF SectionInv
    <3>2. ~(0 > header.path)
      BY <2>5
    <3>3. QED
      BY <2>6, <3>1, <3>2
  <2>9. m \in DOMAIN since /\ \A i \in DOMAIN since : i \in 1 .. m /\ i \in Nat \ {0}
    BY <2>1, <2>8
  <2>10. IsHighest(section, since) /\ Place(since, m) \in 1 .. 4
    BY <1>1, <2>9, PlaceTypes DEF SectionInv
  <2>11. Place(since', m) = Place(since, m)
    BY <2>4, <2>9
  <2> HIDE DEF header, type, section, late, n, m
  <2>12. Place(since, m) <= section /\ section # 0
    <3>1. Place(since, m) <= section
      BY <2>9, <2>10 DEF IsHighest
    <3>2. QED
      BY <2>5, <2>10, <3>1
  <2>13. PICK j \in DOMAIN since : Place(since, j) = section
    BY <2>10, <2>12 DEF IsHighest
  <2>14. Place(since, m) = section \/ Place(since, j) > Place(since, m)
    BY <2>5, <2>10, <2>12, <2>13
  <2>15. Place(since', m) = Place(since', Len(since'))
         \/ \E k \in 1 .. m : Place(since, k) > Place(since, m)
    BY <2>4, <2>7, <2>9, <2>11, <2>13, <2>14
  <2>16. QED
    BY <2>8, <2>9, <2>15 DEF header
<1>2. TypeInv /\ SectionInv => \A line \in Lines :
        Include(line) /\ "alpha" \in reported' =>
          \E i \in DOMAIN since :
            /\ since[i].path > line.header.path
            /\ \/ Place(since', i) = Place(since', Len(since'))
               \/ \E j \in 1 .. i : Place(since, j) > Place(since, i)
  BY <1>1
<1>3. QED
  BY <1>2, SectionInvHolds, PTL DEF AlphaErrorsAreInversions

----------------------------------------------------------------------------
(* The lengths of functions.                                                *)

\* The lines that are counted are lines since the function started.
FunctionInv ==
  /\ function_state.in_a_function => function_state.lines_in_function <= linenum - started
  /\ LongFunctionsAreShown

\* The powers of two up to that of the highest level and one more.
LEMMA Powers ==
  2 ^ 0 = 1 /\ 2 ^ 1 = 2 /\ 2 ^ 2 = 4 /\ 2 ^ 3 = 8 /\ 2 ^ 4 = 16 /\ 2 ^ 5 = 32 /\ 2 ^ 6 = 64
OBVIOUS

Level(times) == CHOOSE l \in 0 .. 5 : 2 ^ l <= times /\ (l = 5 \/ times < 2 ^ (l + 1))

\* The level of a number of lines that passes the trigger of the verbosity is one that
\* is shown.
LEMMA LevelIsShown ==
  ASSUME NEW times \in Nat, NEW v \in 0 .. 5, times >= 2 ^ v
  PROVE  Level(times) \in 0 .. 5 /\ Level(times) >= v
<1> DEFINE Is(l) == 2 ^ l <= times /\ (l = 5 \/ times < 2 ^ (l + 1))
           level_of == CHOOSE l \in 0 .. 5 : Is(l)
<1>1. \A l \in 0 .. 5 : l = 0 \/ l = 1 \/ l = 2 \/ l = 3 \/ l = 4 \/ l = 5
  OBVIOUS
<1>2. /\ Is(0) <=> 1 <= times /\ times < 2
      /\ Is(1) <=> 2 <= times /\ times < 4
      /\ Is(2) <=> 4 <= times /\ times < 8
      /\ Is(3) <=> 8 <= times /\ times < 16
      /\ Is(4) <=> 16 <= times /\ times < 32
      /\ Is(5) <=> 32 <= times
  BY Powers
<1>3. /\ v = 0 => 1 <= times
      /\ v = 1 => 2 <= times
      /\ v = 2 => 4 <= times
      /\ v = 3 => 8 <= times
      /\ v = 4 => 16 <= times
      /\ v = 5 => 32 <= times
  BY Powers
<1> HIDE DEF Is
<1>4. 1 <= times
  BY <1>1, <1>3
<1>5. \E l \in 0 .. 5 : Is(l)
  BY <1>2, <1>4
<1>6. level_of \in 0 .. 5 /\ Is(level_of)
  BY <1>5
<1> HIDE DEF level_of
<1>7. level_of >= v
  BY <1>1, <1>2, <1>3, <1>6
<1>8. QED
  BY <1>6, <1>7 DEF level_of, Is, Level

\* Division of the lines by the trigger keeps what passes a multiple of it.
LEMMA TimesTheTrigger ==
  ASSUME NEW count \in Nat, NEW base \in Nat \ {0}, NEW k \in Nat, count > base * k
  PROVE  count \div base \in Nat /\ count \div base >= k
<1> DEFINE times == count \div base
<1>1. times \in Int /\ base * times <= count /\ count < base * times + base
  OBVIOUS
<1> HIDE DEF times
<1>2. times >= k
  <2> SUFFICES ASSUME times < k PROVE FALSE
    BY <1>1
  <2>1. times + 1 <= k
    BY <1>1
  <2>2. base * (times + 1) <= base * k
    BY <1>1, <2>1
  <2>3. base * (times + 1) = base * times + base
    BY <1>1
  <2>4. base * times \in Int /\ base * k \in Int
    BY <1>1
  <2>5. QED
    BY <1>1, <2>2, <2>3, <2>4
<1>3. QED
  BY <1>1, <1>2 DEF times

\* The factor by which the verbosity raises the limit.
LEMMA PowerOfVerbose == 2 ^ Verbose \in Nat
<1>1. Verbose = 0 \/ Verbose = 1 \/ Verbose = 2 \/ Verbose = 3 \/ Verbose = 4 \/ Verbose = 5
  BY LinesAssumption
<1>2. /\ Verbose = 0 => 2 ^ Verbose = 1
      /\ Verbose = 1 => 2 ^ Verbose = 2
      /\ Verbose = 2 => 2 ^ Verbose = 4
      /\ Verbose = 3 => 2 ^ Verbose = 8
      /\ Verbose = 4 => 2 ^ Verbose = 16
      /\ Verbose = 5 => 2 ^ Verbose = 32
  BY Powers
<1>3. QED
  BY <1>1, <1>2

\* A function that is too long for the verbosity has a level that is shown at it, and
\* more lines than the limit of ordinary functions.
LEMMA ShownAtEnd ==
  ASSUME NEW state \in FunctionStates, IsTooLong(state, Verbose)
  PROVE  /\ ErrorLevel(state) \in 0 .. 5 /\ ErrorLevel(state) >= Verbose
         /\ state.lines_in_function > NormalTrigger * 2 ^ Verbose
<1> DEFINE count == state.lines_in_function
           base == BaseTrigger(state)
           k == 2 ^ Verbose
<1>1. Verbose \in 0 .. 5
  BY LinesAssumption
<1>2. k \in Nat
  BY PowerOfVerbose
<1>3. base \in Nat \ {0} /\ NormalTrigger \in Nat /\ NormalTrigger <= base
  BY TriggersAssumption DEF BaseTrigger
<1>4. count \in Nat /\ count > base * k
  BY DEF IsTooLong, FunctionStates
<1> HIDE DEF count, base, k
<1>5. count \div base \in Nat /\ count \div base >= k
  BY <1>2, <1>3, <1>4, TimesTheTrigger
<1>6. ErrorLevel(state) = Level(count \div base)
  BY DEF ErrorLevel, Level, count, base
<1>7. ErrorLevel(state) \in 0 .. 5 /\ ErrorLevel(state) >= Verbose
  BY <1>1, <1>5, <1>6, LevelIsShown DEF k
<1>8. count > NormalTrigger * k
  <2>1. NormalTrigger * k <= base * k
    BY <1>2, <1>3
  <2>2. NormalTrigger * k \in Int /\ base * k \in Int
    BY <1>2, <1>3
  <2>3. QED
    BY <1>4, <2>1, <2>2
<1>9. QED
  BY <1>7, <1>8 DEF count, k

\* Lengths of functions: before the first line.
LEMMA InitFunction == Init => FunctionInv
BY DEF Init, FunctionInv, LongFunctionsAreShown, NoFunction

\* Lengths of functions: each line and the end of the file.
LEMMA NextFunction == TypeInv /\ FunctionInv /\ [Next]_vars => FunctionInv'
<1> SUFFICES ASSUME TypeInv, FunctionInv, [Next]_vars PROVE FunctionInv'
  OBVIOUS
<1>1. /\ function_state \in FunctionStates /\ linenum \in Nat /\ started \in Nat
      /\ function_state.in_a_function => function_state.lines_in_function <= linenum - started
      /\ function_state.lines_in_function \in Nat
  BY DEF TypeInv, FunctionInv, FunctionStates
<1>2. ASSUME NEW line, NEW errors, CheckLine(line, errors), "fn_size" \notin errors
      PROVE  FunctionInv'
  <2>1. /\ linenum' = linenum + 1 /\ line_before' = line
        /\ function_state' = FunctionStateAfter(function_state, line.kind)
        /\ started' = IF line.kind \in {"start", "test"} THEN linenum' ELSE started
    BY <1>2 DEF CheckLine
  <2>2. function_state'.in_a_function =>
          function_state'.lines_in_function <= linenum' - started'
    <3>1. CASE line.kind \in {"start", "test"}
      <4>1. function_state'.lines_in_function = 0
        <5>1. \A is_test \in BOOLEAN : Begin(function_state, is_test).lines_in_function = 0
          BY <1>1 DEF FunctionStates, Begin
        <5>2. QED
          BY <2>1, <3>1, <5>1 DEF FunctionStateAfter
      <4>2. QED
        BY <1>1, <2>1, <3>1, <4>1
    <3>2. CASE line.kind \notin {"start", "test"}
      <4> DEFINE ended_one == [function_state EXCEPT !.in_a_function = FALSE]
                 longer_one == [function_state EXCEPT !.lines_in_function = @ + 1]
      <4>1. \/ function_state' = ended_one
            \/ function_state' = function_state
            \/ function_state' = longer_one
        BY <2>1, <3>2 DEF FunctionStateAfter
      <4>2. started' = started
        BY <2>1, <3>2
      <4>3. /\ ~ended_one.in_a_function
            /\ longer_one.in_a_function = function_state.in_a_function
            /\ longer_one.lines_in_function = function_state.lines_in_function + 1
        BY <1>1 DEF FunctionStates
      <4> HIDE DEF ended_one, longer_one
      <4>4. CASE function_state' = ended_one
        BY <4>3, <4>4
      <4>5. CASE function_state' = function_state
        BY <1>1, <2>1, <4>2, <4>5
      <4>6. CASE function_state' = longer_one
        BY <1>1, <2>1, <4>2, <4>3, <4>6
      <4>7. QED
        BY <4>1, <4>4, <4>5, <4>6
    <3>3. QED
      BY <3>1, <3>2
  <2>3. ASSUME "fn_size" \in reported', line.kind = "end"
        PROVE  /\ level' >= Verbose
               /\ linenum' - started' > NormalTrigger * 2 ^ Verbose
    <3>1. IsTooLong(function_state, Verbose)
      BY <1>2, <2>3 DEF CheckLine
    <3>2. level' = ErrorLevel(function_state)
      BY <1>2, <2>3, <3>1 DEF CheckLine
    <3>3. /\ level' >= Verbose
          /\ function_state.lines_in_function > NormalTrigger * 2 ^ Verbose
      BY <1>1, <3>1, <3>2, ShownAtEnd
    <3>4. function_state.in_a_function
      BY <3>1 DEF IsTooLong
    <3>5. linenum' - started' > function_state.lines_in_function
      BY <1>1, <2>1, <2>3, <3>4
    <3>6. linenum' - started' \in Int /\ NormalTrigger * 2 ^ Verbose \in Int
      <4>1. 2 ^ Verbose \in Nat
        BY PowerOfVerbose
      <4>2. started' = started
        BY <2>1, <2>3
      <4>3. QED
        BY <1>1, <2>1, <4>1, <4>2, TriggersAssumption
    <3>7. QED
      BY <1>1, <3>3, <3>5, <3>6
  <2>4. QED
    BY <2>1, <2>2, <2>3 DEF FunctionInv, LongFunctionsAreShown
<1>3. ASSUME NEW line \in Lines, Include(line) PROVE FunctionInv'
  <2>1. CheckLine(line, IncludeErrors(include_state, line.header, line_before.kind = "include"))
    BY <1>3 DEF Include
  <2>2. "fn_size" \notin IncludeErrors(include_state, line.header, line_before.kind = "include")
    BY DEF IncludeErrors
  <2>3. QED
    BY <1>2, <2>1, <2>2
<1>4. ASSUME NEW line \in Lines, Directive(line) \/ OtherLine(line) PROVE FunctionInv'
  BY <1>2, <1>4 DEF Directive, OtherLine
<1>5. ASSUME NEW required \in SUBSET StdNames, NEW header_exists,
             EndOfFile(required, header_exists)
      PROVE  FunctionInv'
  <2>1. MissingIncludes(include_state, required, is_cc) \subseteq StdNames
    BY DEF MissingIncludes
  <2>2. "fn_size" \notin StdNames /\ "fn_size" # "own header"
    BY NamesAssumption
  <2>3. /\ reported' \subseteq MissingIncludes(include_state, required, is_cc) \cup {"own header"}
        /\ UNCHANGED <<function_state, linenum, started>>
    BY <1>5 DEF EndOfFile, history
  <2>4. "fn_size" \notin reported'
    BY <2>1, <2>2, <2>3
  <2>5. QED
    BY <1>1, <2>3, <2>4 DEF FunctionInv, LongFunctionsAreShown
<1>6. CASE UNCHANGED vars
  BY <1>6 DEF vars, checks, history, FunctionInv, LongFunctionsAreShown
<1>7. QED
  BY <1>3, <1>4, <1>5, <1>6 DEF Next

\* Whatever the triggers are, a function that is too long for the verbosity is reported
\* with a confidence that passes it, and has more lines than the trigger allows
\* (_FunctionState.Check of cpplint.py).
THEOREM TooLongIsShown == Spec => []LongFunctionsAreShown
<1>1. Init => TypeInv /\ FunctionInv
  BY InitTypes, InitFunction
<1>2. TypeInv /\ FunctionInv /\ [Next]_vars => (TypeInv /\ FunctionInv)'
  BY NextTypes, NextFunction
<1>3. FunctionInv => LongFunctionsAreShown
  BY DEF FunctionInv
<1>4. QED
  BY <1>1, <1>2, <1>3, PTL DEF Spec

----------------------------------------------------------------------------
(* The text of a file.                                                      *)

\* What a lexer can be in the middle of.
LexModes == {"code", "string", "raw_string", "block_comment", "line_comment"}

\* m has the mode after each token of line.
Lexes(m, line) ==
  /\ m \in [0 .. Len(line) -> LexModes]
  /\ \A i \in 1 .. Len(line) : m[i] = ModeAfter(m[i - 1], line[i])

\* The text is read token by token.
LEMMA ModeAfterType ==
  ASSUME NEW m \in LexModes, NEW token
  PROVE  ModeAfter(m, token) \in LexModes
BY DEF ModeAfter, LexModes

\* A lexer has a mode after each token of a line.
LEMMA LineIsLexed ==
  ASSUME NEW line \in Seq(STRING), NEW start \in LexModes
  PROVE  Lexes(LineModes(line, start), line) /\ LineModes(line, start)[0] = start
<1> DEFINE n == Len(line)
           step == [p \in LexModes \X (1 .. n) |-> ModeAfter(p[1], line[p[2]])]
           Is(g) == g = [i \in 0 .. Len(line) |->
                           IF i = 0 THEN start ELSE ModeAfter(g[i - 1], line[i])]
           f == CHOOSE g : Is(g)
<1>1. n \in Nat /\ step \in [LexModes \X (1 .. n) -> LexModes]
  BY ModeAfterType
<1>2. PICK g : IsRecursion(g, LexModes, start, n, step)
  <2> HIDE DEF n, step
  <2> QED
    BY <1>1, IsRecursionExists
<1>3. g \in [0 .. n -> LexModes] /\ g[0] = start
  BY <1>2 DEF IsRecursion
<1>4. ASSUME NEW i \in 1 .. n
      PROVE  i - 1 \in 0 .. n /\ g[i] = ModeAfter(g[i - 1], line[i])
  <2>1. i - 1 \in 0 .. n /\ <<g[i - 1], i>> \in LexModes \X (1 .. n)
    BY <1>1, <1>3
  <2>2. g[i] = step[<<g[i - 1], i>>]
    BY <1>2 DEF IsRecursion
  <2> QED
    BY <2>1, <2>2
<1>5. Is(g)
  BY <1>3, <1>4
<1>6. Is(f)
  BY <1>5
<1>7. LineModes(line, start) = f
  BY DEF LineModes
<1> HIDE DEF f
<1>8. DOMAIN f = 0 .. n /\ f[0] = start
  BY <1>1, <1>6
<1>9. \A i \in 1 .. n : f[i] = ModeAfter(f[i - 1], line[i])
  BY <1>1, <1>6
<1> DEFINE T == {i \in Nat : i \in 0 .. n => f[i] \in LexModes}
<1>10. 0 \in T
  BY <1>8
<1>11. ASSUME NEW i \in Nat, i \in T
       PROVE  i + 1 \in T
  <2> SUFFICES ASSUME i + 1 \in 0 .. n PROVE f[i + 1] \in LexModes
    OBVIOUS
  <2>1. f[i] \in LexModes /\ (i + 1) - 1 = i /\ i + 1 \in 1 .. n
    BY <1>11, <1>1
  <2>2. f[i + 1] = ModeAfter(f[i], line[i + 1])
    BY <1>9, <2>1
  <2> QED
    BY <2>1, <2>2, ModeAfterType
<1> HIDE DEF T
<1>12. Nat \subseteq T
  BY <1>10, <1>11, NatInduct
<1>13. \A i \in 0 .. n : f[i] \in LexModes
  BY <1>12, <1>1 DEF T
<1>14. f \in [0 .. n -> LexModes]
  <2>1. f = [i \in 0 .. n |-> f[i]]
    BY <1>6, <1>8
  <2> QED
    BY <1>13, <2>1
<1> QED
  BY <1>7, <1>8, <1>9, <1>14 DEF Lexes

----------------------------------------------------------------------------
(* Comments of several lines.                                               *)

\* starts has the mode at the start of each line and of the end of text.
Starts(starts, text) ==
  /\ starts \in [1 .. Len(text) + 1 -> LexModes]
  /\ starts[1] = "code"
  /\ \A l \in 1 .. Len(text) :
       starts[l + 1] = NextLine(LineModes(text[l], starts[l])[Len(text[l])])

\* A lexer has a mode at the start of each line of a file.
LEMMA LinesAreLexed ==
  ASSUME file \in Seq(Seq(STRING))
  PROVE  Starts(StartModes, file)
<1> DEFINE n == Len(file)
           After(m, l) == NextLine(EndMode(file[l], m))
           step == [p \in LexModes \X (1 .. n) |-> After(p[1], p[2])]
           Is(g) == g = [l \in 1 .. Len(file) + 1 |->
                           IF l = 1 THEN "code" ELSE NextLine(EndMode(file[l - 1], g[l - 1]))]
           f == CHOOSE g : Is(g)
<1>1. n \in Nat /\ \A l \in 1 .. n : file[l] \in Seq(STRING)
  OBVIOUS
<1>2. \A m \in LexModes, l \in 1 .. n : After(m, l) \in LexModes
  <2> SUFFICES ASSUME NEW m \in LexModes, NEW l \in 1 .. n PROVE After(m, l) \in LexModes
    OBVIOUS
  <2>1. file[l] \in Seq(STRING) /\ Len(file[l]) \in 0 .. Len(file[l])
    BY <1>1
  <2>2. LineModes(file[l], m)[Len(file[l])] \in LexModes
    BY <2>1, LineIsLexed DEF Lexes
  <2> QED
    BY <2>2 DEF EndMode, NextLine, LexModes
<1> HIDE DEF After
<1>3. step \in [LexModes \X (1 .. n) -> LexModes] /\ "code" \in LexModes
  BY <1>2 DEF LexModes
<1>4. PICK g : IsRecursion(g, LexModes, "code", n, step)
  <2> HIDE DEF n, step
  <2> QED
    BY <1>1, <1>3, IsRecursionExists
<1>5. g \in [0 .. n -> LexModes] /\ g[0] = "code"
  BY <1>4 DEF IsRecursion
<1>6. \A l \in 1 .. n : g[l] = After(g[l - 1], l)
  <2> SUFFICES ASSUME NEW l \in 1 .. n PROVE g[l] = After(g[l - 1], l)
    OBVIOUS
  <2> HIDE DEF n
  <2>1. l - 1 \in 0 .. n
    BY <1>1
  <2>2. <<g[l - 1], l>> \in LexModes \X (1 .. n)
    BY <1>5, <2>1
  <2>3. g[l] = step[<<g[l - 1], l>>]
    BY <1>4 DEF IsRecursion
  <2> QED
    BY <2>2, <2>3
<1> DEFINE h == [l \in 1 .. n + 1 |-> g[l - 1]]
<1>7. h \in [1 .. n + 1 -> LexModes] /\ h[1] = "code"
  BY <1>1, <1>5
<1>8. \A l \in 1 .. n + 1 : l # 1 => h[l] = After(h[l - 1], l - 1)
  <2> SUFFICES ASSUME NEW l \in 1 .. n + 1, l # 1 PROVE h[l] = After(h[l - 1], l - 1)
    OBVIOUS
  <2>1. l - 1 \in 1 .. n /\ l - 1 \in 1 .. n + 1
    BY <1>1
  <2> QED
    BY <1>6, <2>1
<1>9. Is(h)
  <2> HIDE DEF h
  <2>1. h = [l \in 1 .. n + 1 |-> h[l]]
    BY <1>7
  <2>2. \A l \in 1 .. n + 1 :
          h[l] = IF l = 1 THEN "code" ELSE NextLine(EndMode(file[l - 1], h[l - 1]))
    BY <1>7, <1>8 DEF After
  <2> QED
    BY <2>1, <2>2
<1>10. Is(f)
  BY <1>9
<1>11. StartModes = f
  BY DEF StartModes
<1> HIDE DEF f
<1>12. DOMAIN f = 1 .. n + 1 /\ f[1] = "code"
  BY <1>1, <1>10
<1>13. \A l \in 1 .. n : f[l + 1] = After(f[l], l)
  <2> SUFFICES ASSUME NEW l \in 1 .. n PROVE f[l + 1] = After(f[l], l)
    OBVIOUS
  <2>1. l + 1 \in 1 .. n + 1 /\ l + 1 # 1 /\ (l + 1) - 1 = l
    BY <1>1
  <2>2. f[l + 1] = NextLine(EndMode(file[(l + 1) - 1], f[(l + 1) - 1]))
    BY <1>10, <2>1
  <2> QED
    BY <2>1, <2>2 DEF After
<1> DEFINE T == {l \in Nat : l \in 0 .. n => f[l + 1] \in LexModes}
<1>14. 0 \in T
  BY <1>3, <1>12
<1>15. ASSUME NEW l \in Nat, l \in T
       PROVE  l + 1 \in T
  <2> SUFFICES ASSUME l + 1 \in 0 .. n PROVE f[(l + 1) + 1] \in LexModes
    OBVIOUS
  <2>1. f[l + 1] \in LexModes /\ l + 1 \in 1 .. n
    BY <1>15, <1>1
  <2> QED
    BY <1>2, <1>13, <2>1
<1> HIDE DEF T
<1>16. Nat \subseteq T
  BY <1>14, <1>15, NatInduct
<1>17. \A l \in 1 .. n + 1 : f[l] \in LexModes
  <2> SUFFICES ASSUME NEW l \in 1 .. n + 1 PROVE f[l] \in LexModes
    OBVIOUS
  <2>1. l - 1 \in Nat /\ l - 1 \in 0 .. n /\ (l - 1) + 1 = l
    BY <1>1
  <2>2. l - 1 \in T
    BY <1>16, <2>1
  <2> QED
    BY <2>1, <2>2 DEF T
<1>18. f \in [1 .. n + 1 -> LexModes]
  <2>1. f = [l \in 1 .. n + 1 |-> f[l]]
    BY <1>10, <1>12
  <2> QED
    BY <1>17, <2>1
<1> QED
  BY <1>11, <1>12, <1>13, <1>18 DEF Starts, After, EndMode

\* The end of a comment, and what a lexer does in code and in a comment.
LEMMA CommentModes ==
  /\ \A token : ModeAfter("block_comment", token) = IF token = "*/" THEN "code" ELSE "block_comment"
  /\ ModeAfter("code", "/*") = "block_comment"
<1>1. ASSUME NEW token
      PROVE  ModeAfter("block_comment", token) = IF token = "*/" THEN "code" ELSE "block_comment"
  BY DEF ModeAfter
<1>2. ModeAfter("code", "/*") = "block_comment"
  BY DEF ModeAfter, Quotes
<1> QED
  BY <1>1, <1>2

\* A line that starts in a comment stays in it, or leaves it with its last token.
LEMMA LineInComment ==
  ASSUME NEW line \in Seq(STRING), NEW m, Lexes(m, line), m[0] = "block_comment",
         \A i \in DOMAIN line : m[i] = "code" => i = Len(line)
  PROVE  /\ m[Len(line)] = IF EndsMultiLineComment(line) THEN "code" ELSE "block_comment"
         /\ \A i \in 0 .. Len(line) - 1 : m[i] = "block_comment"
<1> DEFINE n == Len(line)
<1>1. n \in Nat /\ DOMAIN line = 1 .. n
  OBVIOUS
<1>2. \A i \in 1 .. n : m[i] = ModeAfter(m[i - 1], line[i])
  BY DEF Lexes
<1>3. CASE line = <<>>
  <2>1. n = 0 /\ 0 .. 0 - 1 = {}
    BY <1>3
  <2> QED
    BY <1>3, <2>1 DEF EndsMultiLineComment
<1>4. CASE line # <<>>
  <2>1. n \in Nat \ {0}
    BY <1>4, EmptySeq
  <2> DEFINE T == {i \in 0 .. n - 1 : m[i] = "block_comment"}
  <2> HIDE DEF n
  <2>2. ASSUME NEW i \in 0 .. (n - 1) - 1, m[i] = "block_comment"
        PROVE  m[i + 1] = "block_comment"
    <3>1. i + 1 \in 1 .. n /\ (i + 1) - 1 = i /\ i + 1 # n
      BY <2>1
    <3>2. m[i + 1] = ModeAfter(m[i], line[i + 1])
      BY <1>2, <3>1
    <3>3. m[i + 1] # "code"
      BY <1>1, <3>1 DEF n
    <3> QED
      BY <2>2, <3>2, <3>3, CommentModes
  <2>3. \A i \in 0 .. n - 1 : i \in T
    <3>1. n - 1 \in Nat /\ 0 \in T
      BY <2>1
    <3>2. \A i \in 0 .. (n - 1) - 1 : i \in T => i + 1 \in T
      BY <2>1, <2>2
    <3> HIDE DEF T
    <3> QED
      BY <3>1, <3>2, UpTo
  <2>4. m[n - 1] = "block_comment" /\ n \in 1 .. n
    BY <2>1, <2>3
  <2>5. m[n] = ModeAfter("block_comment", line[n])
    BY <1>2, <2>4
  <2>6. EndsMultiLineComment(line) <=> line[n] = "*/"
    BY <1>4 DEF EndsMultiLineComment, Last, n
  <2>7. \A i \in 0 .. n - 1 : m[i] = "block_comment"
    BY <2>3
  <2> QED
    BY <2>5, <2>6, <2>7, CommentModes DEF n
<1> QED
  BY <1>3, <1>4

\* A line of code that starts with a comment that goes beyond it ends in that comment.
LEMMA LineStartsComment ==
  ASSUME NEW line \in Seq(STRING), NEW m, Lexes(m, line), m[0] = "code",
         StartsMultiLineComment(line)
  PROVE  m[Len(line)] = "block_comment" /\ \A i \in 1 .. Len(line) : m[i] = "block_comment"
<1> DEFINE n == Len(line)
<1>1. n \in Nat /\ line # <<>> /\ line[1] = "/*"
  BY DEF StartsMultiLineComment
<1>2. n \in Nat \ {0} /\ 1 \in 1 .. n /\ \A i \in 1 .. n : line[i] # "*/"
  BY <1>1, EmptySeq DEF StartsMultiLineComment, ToSet
<1>3. \A i \in 1 .. n : m[i] = ModeAfter(m[i - 1], line[i])
  BY DEF Lexes
<1> DEFINE T == {i \in 0 .. n - 1 : m[i + 1] = "block_comment"}
<1> HIDE DEF n
<1>4. m[1] = "block_comment"
  BY <1>1, <1>2, <1>3, CommentModes
<1>5. ASSUME NEW i \in 0 .. (n - 1) - 1, m[i + 1] = "block_comment"
      PROVE  m[(i + 1) + 1] = "block_comment"
  <2>1. (i + 1) + 1 \in 1 .. n /\ ((i + 1) + 1) - 1 = i + 1
    BY <1>2
  <2>2. m[(i + 1) + 1] = ModeAfter("block_comment", line[(i + 1) + 1])
    BY <1>3, <1>5, <2>1
  <2> QED
    BY <1>2, <2>1, <2>2, CommentModes
<1>6. \A i \in 0 .. n - 1 : i \in T
  <2>1. n - 1 \in Nat /\ 0 \in T
    BY <1>2, <1>4
  <2>2. \A i \in 0 .. (n - 1) - 1 : i \in T => i + 1 \in T
    BY <1>2, <1>5
  <2> HIDE DEF T
  <2> QED
    BY <2>1, <2>2, UpTo
<1>7. \A i \in 1 .. n : m[i] = "block_comment"
  <2> SUFFICES ASSUME NEW i \in 1 .. n PROVE m[i] = "block_comment"
    OBVIOUS
  <2>1. i - 1 \in 0 .. n - 1 /\ (i - 1) + 1 = i
    BY <1>2
  <2> QED
    BY <1>6, <2>1
<1>8. n \in 1 .. n
  BY <1>2
<1> QED
  BY <1>7, <1>8 DEF n

\* The modes at the start and at the end of line l of a file.
StartOf(l) == StartModes[l]
EndOf(l) == Modes[l][Len(file[l])]

\* What the modes of a supported line are.
LEMMA SupportedLine ==
  ASSUME file \in Seq(Seq(STRING)), IsSupported(Modes), NEW l \in 1 .. Len(file)
  PROVE  /\ Lexes(Modes[l], file[l]) /\ IsSupportedLine(Modes[l], file[l])
         /\ Modes[l][0] = StartOf(l) /\ StartOf(l) \in LexModes /\ EndOf(l) \in LexModes
         /\ StartOf(l + 1) = NextLine(EndOf(l)) /\ EndOf(l) # "string"
<1>1. file[l] \in Seq(STRING) /\ DOMAIN file = 1 .. Len(file) /\ Len(file) \in Nat
  OBVIOUS
<1>2. StartModes[l] \in LexModes
  <2>1. l \in 1 .. Len(file) + 1
    BY <1>1
  <2> QED
    BY <2>1, LinesAreLexed DEF Starts
<1>3. Modes[l] = LineModes(file[l], StartModes[l])
  BY <1>1 DEF Modes
<1>4. Lexes(Modes[l], file[l]) /\ Modes[l][0] = StartModes[l]
  BY <1>1, <1>2, <1>3, LineIsLexed
<1>5. StartModes[l + 1] = NextLine(EndOf(l))
  BY <1>3, LinesAreLexed DEF Starts, EndOf
<1>6. IsSupportedLine(Modes[l], file[l])
  BY <1>1 DEF IsSupported
<1>7. EndOf(l) \in LexModes
  <2>1. Len(file[l]) \in 0 .. Len(file[l])
    BY <1>1
  <2> QED
    BY <1>4, <2>1 DEF Lexes, EndOf
<1>8. EndOf(l) # "string"
  BY <1>6 DEF IsSupportedLine, EndOf
<1> QED
  BY <1>2, <1>4, <1>5, <1>6, <1>7, <1>8 DEF StartOf

\* A line starts as code, in a raw string or in a comment.
LEMMA LineStarts ==
  ASSUME file \in Seq(Seq(STRING)), IsSupported(Modes), NEW l \in 1 .. Len(file) + 1
  PROVE  StartOf(l) \in {"code", "raw_string", "block_comment"}
<1>1. Len(file) \in Nat
  OBVIOUS
<1>2. CASE l = 1
  BY <1>2, LinesAreLexed DEF Starts, StartOf
<1>3. CASE l # 1
  <2>1. l - 1 \in 1 .. Len(file) /\ (l - 1) + 1 = l
    BY <1>1, <1>3
  <2>2. StartOf(l) = NextLine(EndOf(l - 1)) /\ EndOf(l - 1) \in LexModes \ {"string"}
    BY <2>1, SupportedLine
  <2> QED
    BY <2>2 DEF NextLine, LexModes
<1> QED
  BY <1>2, <1>3

\* A comment of several lines starts at the lines that are looked for, and ends at them.
LEMMA CommentLines ==
  ASSUME file \in Seq(Seq(STRING)), IsSupported(Modes), NEW l \in 1 .. Len(file)
  PROVE  /\ StartOf(l) = "block_comment" =>
              (l \in CommentEnds(file) <=> EndOf(l) # "block_comment")
         /\ StartOf(l) # "block_comment" =>
              (l \in CommentStarts(file) <=> EndOf(l) = "block_comment")
         /\ l \in CommentStarts(file) => l \notin CommentEnds(file)
<1>1. file[l] \in Seq(STRING) /\ DOMAIN file = 1 .. Len(file) /\ Len(file) \in Nat
  OBVIOUS
<1>2. /\ l \in CommentEnds(file) <=> EndsMultiLineComment(file[l])
      /\ l \in CommentStarts(file) <=> StartsMultiLineComment(file[l])
  BY <1>1 DEF CommentEnds, CommentStarts
<1>3. Lexes(Modes[l], file[l]) /\ IsSupportedLine(Modes[l], file[l]) /\ Modes[l][0] = StartOf(l)
  BY SupportedLine
<1>4. StartOf(l) \in {"code", "raw_string", "block_comment"}
  <2>1. l \in 1 .. Len(file) + 1
    BY <1>1
  <2> QED
    BY <2>1, LineStarts
<1>5. ASSUME StartOf(l) = "block_comment"
      PROVE  EndsMultiLineComment(file[l]) <=> EndOf(l) # "block_comment"
  <2>1. \A i \in DOMAIN file[l] : Modes[l][i] = "code" => i = Len(file[l])
    BY <1>3, <1>5 DEF IsSupportedLine
  <2>2. EndOf(l) = IF EndsMultiLineComment(file[l]) THEN "code" ELSE "block_comment"
    BY <1>1, <1>3, <1>5, <2>1, LineInComment DEF EndOf
  <2> QED
    BY <2>2
<1>6. ASSUME StartOf(l) # "block_comment"
      PROVE  StartsMultiLineComment(file[l]) <=> EndOf(l) = "block_comment"
  <2>1. EndOf(l) = "block_comment" => StartsMultiLineComment(file[l])
    BY <1>3, <1>6 DEF IsSupportedLine, EndOf
  <2>2. ASSUME StartsMultiLineComment(file[l]) PROVE EndOf(l) = "block_comment"
    <3>1. StartOf(l) = "code"
      BY <1>3, <1>4, <1>6, <2>2 DEF IsSupportedLine
    <3> QED
      BY <1>1, <1>3, <2>2, <3>1, LineStartsComment DEF EndOf
  <2> QED
    BY <2>1, <2>2
<1>7. StartsMultiLineComment(file[l]) => ~EndsMultiLineComment(file[l])
  BY <1>1 DEF StartsMultiLineComment, EndsMultiLineComment, Last, ToSet
<1> QED
  BY <1>2, <1>5, <1>6, <1>7

\* After l lines a comment is open: it has started and not ended.
OpenAfter(l) ==
  \E o \in CommentStarts(file) : o <= l /\ CommentEnds(file) \cap (o .. l) = {}

\* The comments that have started and not ended are those the lexer is in.
LEMMA OpenComments ==
  ASSUME file \in Seq(Seq(STRING)), IsSupported(Modes)
  PROVE  \A l \in 0 .. Len(file) : OpenAfter(l) <=> StartOf(l + 1) = "block_comment"
<1> DEFINE n == Len(file)
           S == CommentStarts(file)
           E == CommentEnds(file)
           Right(l) == OpenAfter(l) <=> StartOf(l + 1) = "block_comment"
           T == {l \in 0 .. n : Right(l)}
<1>1. n \in Nat /\ S \subseteq 1 .. n
  BY DEF CommentStarts
<1>2. Right(0)
  <2>1. ~OpenAfter(0)
    BY <1>1 DEF OpenAfter
  <2>2. StartOf(0 + 1) = "code"
    BY LinesAreLexed DEF Starts, StartOf
  <2> QED
    BY <2>1, <2>2
<1>3. ASSUME NEW l \in 0 .. n - 1, Right(l)
      PROVE  Right(l + 1)
  <2>1. l \in 0 .. n /\ l + 1 \in 1 .. n
    BY <1>1
  <2>2. OpenAfter(l) <=> StartOf(l + 1) = "block_comment"
    BY <1>3, <2>1
  <2>3. StartOf((l + 1) + 1) = "block_comment" <=> EndOf(l + 1) = "block_comment"
    BY <2>1, SupportedLine DEF NextLine
  <2>4. /\ StartOf(l + 1) = "block_comment" => (l + 1 \in E <=> EndOf(l + 1) # "block_comment")
        /\ StartOf(l + 1) # "block_comment" => (l + 1 \in S <=> EndOf(l + 1) = "block_comment")
        /\ l + 1 \in S => l + 1 \notin E
    BY <2>1, CommentLines
  <2>5. OpenAfter(l + 1) <=> (OpenAfter(l) \/ l + 1 \in S) /\ l + 1 \notin E
    <3>1. ASSUME NEW o \in S, o <= l
          PROVE  E \cap (o .. l + 1) = {} <=> E \cap (o .. l) = {} /\ l + 1 \notin E
      <4>1. o \in Nat /\ o .. l + 1 = (o .. l) \cup {l + 1}
        BY <1>1, <3>1
      <4> QED
        BY <4>1
    <3>2. \A o \in S : o <= l + 1 <=> o <= l \/ o = l + 1
      BY <1>1
    <3>3. (l + 1) .. (l + 1) = {l + 1}
      OBVIOUS
    <3> HIDE DEF S, E
    <3>4. ASSUME OpenAfter(l + 1) PROVE (OpenAfter(l) \/ l + 1 \in S) /\ l + 1 \notin E
      <4>1. PICK o \in S : o <= l + 1 /\ E \cap (o .. l + 1) = {}
        BY <3>4 DEF OpenAfter, S, E
      <4>2. CASE o <= l
        BY <3>1, <4>1, <4>2 DEF OpenAfter, S, E
      <4>3. CASE o = l + 1
        BY <3>3, <4>1, <4>3
      <4> QED
        BY <3>2, <4>1, <4>2, <4>3
    <3>5. ASSUME OpenAfter(l), l + 1 \notin E PROVE OpenAfter(l + 1)
      <4>1. PICK o \in S : o <= l /\ E \cap (o .. l) = {}
        BY <3>5 DEF OpenAfter, S, E
      <4>2. o <= l + 1 /\ E \cap (o .. l + 1) = {}
        BY <3>1, <3>2, <3>5, <4>1
      <4> QED
        BY <4>2 DEF OpenAfter, S, E
    <3>6. ASSUME l + 1 \in S, l + 1 \notin E PROVE OpenAfter(l + 1)
      <4>1. l + 1 <= l + 1 /\ E \cap ((l + 1) .. (l + 1)) = {}
        BY <3>3, <3>6
      <4> QED
        BY <3>6, <4>1 DEF OpenAfter, S, E
    <3> QED
      BY <3>4, <3>5, <3>6
  <2> QED
    BY <2>2, <2>3, <2>4, <2>5
<1> HIDE DEF Right
<1>4. \A l \in 0 .. n : l \in T
  <2>1. n \in Nat /\ 0 \in T
    BY <1>1, <1>2
  <2>2. \A l \in 0 .. n - 1 : l \in T => l + 1 \in T
    BY <1>1, <1>3
  <2> HIDE DEF T
  <2> QED
    BY <2>1, <2>2, UpTo
<1> QED
  BY <1>4 DEF Right

\* 'Could not find end of multi-line comment' is right.
LEMMA OpenAtEnd ==
  ASSUME file \in Seq(Seq(STRING)), IsSupported(Modes)
  PROVE  CommentIsOpen(file) <=> EndsInComment
<1> DEFINE n == Len(file)
           S == CommentStarts(file)
           E == CommentEnds(file)
<1>1. n \in Nat /\ S \subseteq 1 .. n /\ E \subseteq 1 .. n
  BY DEF CommentStarts, CommentEnds
<1>2. ASSUME NEW o \in S
      PROVE  o \in MultiLineComments(file) <=> E \cap (o .. n) # {}
  <2>1. o .. o - 1 = {} /\ o <= o /\ o \in 1 .. n
    BY <1>1
  <2>2. \E open \in S : open <= o /\ E \cap (open .. o - 1) = {}
    BY <2>1
  <2> QED
    BY <2>1, <2>2 DEF MultiLineComments, Enclosed
<1>3. CommentIsOpen(file) <=> \E o \in S : E \cap (o .. n) = {}
  BY <1>2 DEF CommentIsOpen
<1>4. (\E o \in S : E \cap (o .. n) = {}) <=> OpenAfter(n)
  BY <1>1 DEF OpenAfter
<1>5. OpenAfter(n) <=> StartOf(n + 1) = "block_comment"
  <2>1. n \in 0 .. n
    BY <1>1
  <2> QED
    BY <2>1, OpenComments
<1> QED
  BY <1>3, <1>4, <1>5 DEF EndsInComment, StartOf

----------------------------------------------------------------------------
(* The passes.                                                              *)

\* What the passes done so far have made of the file.
PassesInv ==
  /\ file \in Files
  /\ phase \in {"raw", "uncommented", "cleansed"}
  /\ phase = "raw" => lines = file
  /\ phase # "raw" => lines = RemoveMultiLineComments(file) /\ unterminated = CommentIsOpen(file)
  /\ phase = "cleansed" => elided = ElidedLinesOf(lines)

\* Each pass reads what the one before it made.
THEOREM PassesInOrder == TextSpec => []PassesInv
<1>1. TextInit => PassesInv
  BY DEF TextInit, PassesInv
<1>2. PassesInv /\ [TextNext]_text_vars => PassesInv'
  <2> SUFFICES ASSUME PassesInv, [TextNext]_text_vars PROVE PassesInv'
    OBVIOUS
  <2>1. CASE RemoveComments
    BY <2>1 DEF PassesInv, RemoveComments
  <2>2. CASE Cleanse
    BY <2>2 DEF PassesInv, Cleanse
  <2>3. CASE UNCHANGED text_vars
    BY <2>3 DEF PassesInv, text_vars
  <2> QED
    BY <2>1, <2>2, <2>3 DEF TextNext
<1> QED
  BY <1>1, <1>2, PTL DEF TextSpec

\* 'Could not find end of multi-line comment' is reported of exactly the files that end
\* in a comment, however many comments of whatever length they have.
THEOREM ReportsOpenComments == TextSpec => []OpenCommentIsReported
<1>1. PassesInv => OpenCommentIsReported
  <2> SUFFICES ASSUME PassesInv, phase # "raw", IsSupported(Modes)
               PROVE  unterminated <=> EndsInComment
    BY DEF OpenCommentIsReported
  <2>1. file \in Seq(Seq(STRING)) /\ unterminated = CommentIsOpen(file)
    BY FilesAreText DEF PassesInv
  <2> QED
    BY <2>1, OpenAtEnd
<1> QED
  BY <1>1, PassesInOrder, PTL

----------------------------------------------------------------------------
(* Strings and comments of joined sequences.                                *)

\* The end of a joined sequence is in a string if one of the parts ends in one.
LEMMA StringJoined ==
  ASSUME NEW S, NEW s \in Seq(S), NEW t \in Seq(S)
  PROVE  IsCppString(s \o t) <=> ~(IsCppString(s) <=> IsCppString(t))
<1>1. /\ NumIn(s, Quotes) \in Nat /\ NumIn(t, Quotes) \in Nat
      /\ NumIn(s \o t, Quotes) = NumIn(s, Quotes) + NumIn(t, Quotes)
  BY NumInJoined
<1>2. \A r : IsCppString(r) <=> NumIn(r, Quotes) % 2 = 1
  BY DEF IsCppString, NumIn
<1>3. \A a, b \in Nat : (a + b) % 2 = 1 <=> ~(a % 2 = 1 <=> b % 2 = 1)
  OBVIOUS
<1> QED
  BY <1>1, <1>2, <1>3

\* What has no quote ends in no string, and what has one does.
LEMMA StringOfNone ==
  ASSUME NEW s, HasNone(s, Quotes)
  PROVE  ~IsCppString(s)
<1>1. {i \in DOMAIN s : s[i] \in Quotes} = {}
  BY DEF HasNone
<1>2. Cardinality({i \in DOMAIN s : s[i] \in Quotes}) = 0
  BY <1>1, NoElements
<1> QED
  BY <1>2 DEF IsCppString

\* A quote starts a string.
LEMMA StringOfOne ==
  ASSUME NEW q \in Quotes
  PROVE  IsCppString(<<q>>)
<1>1. <<>> \in Seq(Quotes) /\ <<q>> = Append(<<>>, q)
  BY EmptySeq
<1>2. NumIn(<<>>, Quotes) = 0
  <2>1. DOMAIN <<>> = {}
    OBVIOUS
  <2> QED
    BY <2>1, FS_EmptySet DEF NumIn
<1>3. NumIn(<<q>>, Quotes) = 1
  <2>1. NumIn(Append(<<>>, q), Quotes) = NumIn(<<>>, Quotes) + (IF q \in Quotes THEN 1 ELSE 0)
    BY <1>1, NumInAppend
  <2> QED
    BY <1>1, <1>2, <2>1
<1> QED
  BY <1>3 DEF IsCppString, NumIn

\* What is before a position of a joined sequence.
LEMMA PrefixJoined ==
  ASSUME NEW S, NEW s \in Seq(S), NEW t \in Seq(S)
  PROVE  /\ \A i \in 1 .. Len(s) : SubSeq(s \o t, 1, i - 1) = SubSeq(s, 1, i - 1)
         /\ \A j \in 1 .. Len(t) : /\ SubSeq(t, 1, j - 1) \in Seq(S)
                                   /\ SubSeq(s \o t, 1, Len(s) + j - 1) = s \o SubSeq(t, 1, j - 1)
<1> DEFINE m == Len(s)
           n == Len(t)
           st == s \o t
<1>1. /\ m \in Nat /\ n \in Nat /\ st \in Seq(S) /\ Len(st) = m + n
      /\ \A i \in 1 .. m : st[i] = s[i] /\ s[i] \in S
      /\ \A i \in 1 .. n : st[m + i] = t[i] /\ t[i] \in S
      /\ \A i \in 1 .. m + n : st[i] \in S
  BY Parts, ElementOfSeq
<1> HIDE DEF m, n, st
<1>2. ASSUME NEW i \in 1 .. m
      PROVE  SubSeq(st, 1, i - 1) = SubSeq(s, 1, i - 1)
  <2>1. i - 1 \in Int /\ \A k \in 1 .. i - 1 : k \in 1 .. m /\ k \in 1 .. m + n /\ 1 + k - 1 = k
    BY <1>1
  <2>2. /\ SubSeq(st, 1, i - 1) \in Seq(S)
        /\ Len(SubSeq(st, 1, i - 1)) = IF 1 <= i - 1 THEN i - 1 - 1 + 1 ELSE 0
        /\ \A k \in 1 .. i - 1 - 1 + 1 : SubSeq(st, 1, i - 1)[k] = st[1 + k - 1]
    BY <1>1, <2>1, SubSeqProperties
  <2>3. /\ SubSeq(s, 1, i - 1) \in Seq(S)
        /\ Len(SubSeq(s, 1, i - 1)) = IF 1 <= i - 1 THEN i - 1 - 1 + 1 ELSE 0
        /\ \A k \in 1 .. i - 1 - 1 + 1 : SubSeq(s, 1, i - 1)[k] = s[1 + k - 1]
    BY <1>1, <2>1, SubSeqProperties
  <2>4. i - 1 - 1 + 1 = i - 1 /\ Len(SubSeq(s, 1, i - 1)) = i - 1
    BY <2>3
  <2>5. \A k \in 1 .. i - 1 : SubSeq(st, 1, i - 1)[k] = SubSeq(s, 1, i - 1)[k]
    BY <1>1, <2>1, <2>2, <2>3, <2>4
  <2> QED
    BY <2>2, <2>3, <2>4, <2>5, SeqEqual
<1>3. ASSUME NEW j \in 1 .. n
      PROVE  SubSeq(t, 1, j - 1) \in Seq(S) /\ SubSeq(st, 1, m + j - 1) = s \o SubSeq(t, 1, j - 1)
  <2> DEFINE a == SubSeq(t, 1, j - 1)
             b == SubSeq(st, 1, m + j - 1)
  <2>1. /\ j - 1 \in Int /\ m + j - 1 \in Nat
        /\ \A k \in 1 .. j - 1 : k \in 1 .. n /\ 1 + k - 1 = k
        /\ \A k \in 1 .. m + j - 1 : k \in 1 .. m + n /\ 1 + k - 1 = k
    BY <1>1
  <2>2. /\ a \in Seq(S) /\ Len(a) = IF 1 <= j - 1 THEN j - 1 - 1 + 1 ELSE 0
        /\ \A k \in 1 .. j - 1 - 1 + 1 : a[k] = t[1 + k - 1]
    BY <1>1, <2>1, SubSeqProperties
  <2>3. /\ b \in Seq(S) /\ Len(b) = IF 1 <= m + j - 1 THEN m + j - 1 - 1 + 1 ELSE 0
        /\ \A k \in 1 .. m + j - 1 - 1 + 1 : b[k] = st[1 + k - 1]
    BY <1>1, <2>1, SubSeqProperties
  <2> HIDE DEF a, b
  <2>4. Len(a) = j - 1 /\ Len(b) = m + (j - 1) /\ j - 1 \in Nat
        /\ (\A k \in 1 .. j - 1 : a[k] = t[k]) /\ (\A k \in 1 .. m + (j - 1) : b[k] = st[k])
    BY <1>1, <2>1, <2>2, <2>3
  <2>5. /\ s \o a \in Seq(S) /\ Len(s \o a) = m + (j - 1)
        /\ \A k \in 1 .. m : (s \o a)[k] = s[k]
        /\ \A k \in 1 .. j - 1 : (s \o a)[m + k] = a[k]
    <3>1. /\ s \o a \in Seq(S) /\ Len(s \o a) = Len(s) + Len(a)
          /\ \A k \in 1 .. Len(s) : (s \o a)[k] = s[k]
          /\ \A k \in 1 .. Len(a) : (s \o a)[Len(s) + k] = a[k]
      <4>1. HasParts(S, s, a)
        BY <2>2, JoinHasParts
      <4> QED
        BY <4>1 DEF HasParts
    <3> QED
      BY <2>4, <3>1 DEF m
  <2>6. ASSUME NEW k \in 1 .. m + (j - 1)
        PROVE  b[k] = (s \o a)[k]
    <3>1. CASE k \in 1 .. m
      BY <1>1, <2>4, <2>5, <3>1
    <3>2. CASE k - m \in 1 .. j - 1 /\ k = m + (k - m)
      <4>1. k - m \in 1 .. n
        BY <1>1, <3>2
      <4>2. st[m + (k - m)] = t[k - m]
        BY <1>1, <4>1
      <4>3. (s \o a)[m + (k - m)] = a[k - m] /\ a[k - m] = t[k - m]
        BY <2>4, <2>5, <3>2
      <4> QED
        BY <2>4, <3>2, <4>2, <4>3
    <3> QED
      BY <1>1, <2>4, <3>1, <3>2, PartOf
  <2>7. b = s \o a
    BY <2>3, <2>4, <2>5, <2>6, SeqEqual
  <2> QED
    BY <2>2, <2>7 DEF a, b
<1> QED
  BY <1>2, <1>3 DEF m, n, st

\* The second part of PrefixJoined, for what is quantified in it being hidden.
SplitsAt(S, s, t, j) ==
  SubSeq(t, 1, j - 1) \in Seq(S) /\ SubSeq(s \o t, 1, Len(s) + j - 1) = s \o SubSeq(t, 1, j - 1)

\* PrefixJoined, with its conclusion named.
LEMMA PrefixOfSecond ==
  ASSUME NEW S, NEW s \in Seq(S), NEW t \in Seq(S), NEW j \in 1 .. Len(t)
  PROVE  SplitsAt(S, s, t, j)
BY PrefixJoined, SMTT(30) DEF SplitsAt

\* The positions of a joined sequence are those of the parts.
IsJoin(P, P1, m, P2, n) ==
  /\ P \subseteq 1 .. m + n /\ P1 \subseteq 1 .. m /\ P2 \subseteq 1 .. n
  /\ \A i \in 1 .. m : i \in P <=> i \in P1
  /\ \A i \in 1 .. n : m + i \in P <=> i \in P2

\* What is enclosed in a joined sequence, where nothing is left open in the first part.
LEMMA EnclosedJoined ==
  ASSUME NEW m \in Nat, NEW n \in Nat, NEW O, NEW O1, NEW O2, NEW C, NEW C1, NEW C2,
         IsJoin(O, O1, m, O2, n), IsJoin(C, C1, m, C2, n),
         \A o \in O1 : C1 \cap (o .. m) # {}
  PROVE  IsJoin(Enclosed(O, C, m + n), Enclosed(O1, C1, m), m, Enclosed(O2, C2, n), n)
<1> DEFINE Opened(os, cs, i) == \E o \in os : o <= i /\ cs \cap (o .. i - 1) = {}
           Closed(cs, i, k) == cs \cap (i .. k) # {}
<1>0. /\ O \subseteq 1 .. m + n /\ O1 \subseteq 1 .. m /\ O2 \subseteq 1 .. n
      /\ C \subseteq 1 .. m + n /\ C1 \subseteq 1 .. m /\ C2 \subseteq 1 .. n
      /\ \A i \in 1 .. m : (i \in O <=> i \in O1) /\ (i \in C <=> i \in C1)
      /\ \A i \in 1 .. n : (m + i \in O <=> i \in O2) /\ (m + i \in C <=> i \in C2)
  BY DEF IsJoin
<1>1. \A os, cs, k : \A i \in 1 .. k : i \in Enclosed(os, cs, k) <=> Opened(os, cs, i) /\ Closed(cs, i, k)
  BY DEF Enclosed
<1>2. ASSUME NEW i \in 1 .. m
      PROVE  Opened(O, C, i) <=> Opened(O1, C1, i)
  <2>1. /\ \A o \in O : o <= i => o \in O1
        /\ \A o \in O1 : o \in O
    <3>1. \A o \in 1 .. m + n : o <= i => o \in 1 .. m
      OBVIOUS
    <3> QED
      BY <1>0, <3>1
  <2>2. \A o \in O1 : C \cap (o .. i - 1) = C1 \cap (o .. i - 1)
    <3> SUFFICES ASSUME NEW o \in O1, NEW c \in o .. i - 1 PROVE c \in C <=> c \in C1
      OBVIOUS
    <3>1. c \in 1 .. m
      BY <1>0
    <3> QED
      BY <1>0, <3>1
  <2> QED
    BY <2>1, <2>2
<1>3. ASSUME NEW i \in 1 .. m, Opened(O1, C1, i)
      PROVE  Closed(C, i, m + n) /\ Closed(C1, i, m)
  <2>1. PICK o \in O1 : o <= i /\ C1 \cap (o .. i - 1) = {}
    BY <1>3
  <2>2. PICK c \in C1 : c \in o .. m
    OBVIOUS
  <2>3. o \in 1 .. m /\ c \in 1 .. m
    BY <1>0
  <2>4. c \notin o .. i - 1
    BY <2>1
  <2>5. c \in i .. m /\ c \in i .. m + n
    BY <2>2, <2>3, <2>4
  <2>6. c \in C
    BY <1>0, <2>3
  <2> QED
    BY <2>5, <2>6
<1>4. ASSUME NEW i \in 1 .. m
      PROVE  i \in Enclosed(O, C, m + n) <=> i \in Enclosed(O1, C1, m)
  <2>1. i \in 1 .. m + n
    OBVIOUS
  <2> HIDE DEF Opened, Closed
  <2> QED
    BY <1>1, <1>2, <1>3, <2>1
<1>5. ASSUME NEW i \in 1 .. n
      PROVE  Opened(O, C, m + i) <=> Opened(O2, C2, i)
  <2>1. ASSUME NEW o \in 1 .. n
        PROVE  C \cap (m + o .. (m + i) - 1) = {} <=> C2 \cap (o .. i - 1) = {}
    <3>1. ASSUME NEW c \in C, c \in m + o .. (m + i) - 1
          PROVE  c - m \in C2 /\ c - m \in o .. i - 1
      <4>1. c \in Int /\ c - m \in 1 .. n /\ m + (c - m) = c
        BY <3>1
      <4> QED
        BY <1>0, <3>1, <4>1
    <3>2. ASSUME NEW c \in C2, c \in o .. i - 1
          PROVE  m + c \in C /\ m + c \in m + o .. (m + i) - 1
      BY <1>0, <3>2
    <3> QED
      BY <3>1, <3>2
  <2>2. ASSUME Opened(O2, C2, i) PROVE Opened(O, C, m + i)
    <3>1. PICK o \in O2 : o <= i /\ C2 \cap (o .. i - 1) = {}
      BY <2>2
    <3>2. o \in 1 .. n /\ m + o \in O /\ m + o <= m + i
      BY <1>0, <3>1
    <3> QED
      BY <2>1, <3>1, <3>2
  <2>3. ASSUME Opened(O, C, m + i) PROVE Opened(O2, C2, i)
    <3>1. PICK o \in O : o <= m + i /\ C \cap (o .. (m + i) - 1) = {}
      BY <2>3
    <3>2. o \in 1 .. m + n
      BY <1>0
    <3>3. CASE o \in 1 .. m
      <4>1. o \in O1
        BY <1>0, <3>3
      <4>2. PICK c \in C1 : c \in o .. m
        BY <4>1
      <4>3. c \in 1 .. m /\ c \in o .. (m + i) - 1
        BY <1>0, <4>2
      <4>4. c \in C
        BY <1>0, <4>3
      <4> QED
        BY <3>1, <4>3, <4>4
    <3>4. CASE o - m \in 1 .. n /\ o = m + (o - m)
      <4>1. o - m \in O2
        BY <1>0, <3>4
      <4>2. o - m <= i
        BY <3>1, <3>2
      <4>3. C2 \cap (o - m .. i - 1) = {}
        BY <2>1, <3>1, <3>4
      <4> QED
        BY <4>1, <4>2, <4>3
    <3> QED
      BY <3>2, <3>3, <3>4, PartOf
  <2> QED
    BY <2>2, <2>3
<1>6. ASSUME NEW i \in 1 .. n
      PROVE  Closed(C, m + i, m + n) <=> Closed(C2, i, n)
  <2>1. ASSUME NEW c \in C, c \in m + i .. m + n
        PROVE  c - m \in C2 /\ c - m \in i .. n
    <3>1. c \in Int /\ c - m \in 1 .. n /\ m + (c - m) = c
      BY <2>1
    <3> QED
      BY <1>0, <2>1, <3>1
  <2>2. ASSUME NEW c \in C2, c \in i .. n
        PROVE  m + c \in C /\ m + c \in m + i .. m + n
    BY <1>0, <2>2
  <2> QED
    BY <2>1, <2>2
<1>7. ASSUME NEW i \in 1 .. n
      PROVE  m + i \in Enclosed(O, C, m + n) <=> i \in Enclosed(O2, C2, n)
  <2>1. m + i \in 1 .. m + n
    OBVIOUS
  <2> HIDE DEF Opened, Closed
  <2> QED
    BY <1>1, <1>5, <1>6, <2>1
<1>8. \A os, cs, k : Enclosed(os, cs, k) \subseteq 1 .. k
  BY DEF Enclosed
<1> QED
  BY <1>4, <1>7, <1>8 DEF IsJoin

\* What is left of a joined sequence is what is left of the parts.
LEMMA WithoutJoined ==
  ASSUME NEW S, NEW s \in Seq(S), NEW t \in Seq(S), NEW P, NEW P1, NEW P2,
         IsJoin(P, P1, Len(s), P2, Len(t))
  PROVE  /\ Without(s \o t, P) = Without(s, P1) \o Without(t, P2)
         /\ Without(s, P1) \in Seq(S)
<1> DEFINE m == Len(s)
           n == Len(t)
           st == s \o t
           a == [i \in 1 .. m |-> IF i \in P1 THEN <<>> ELSE <<s[i]>>]
           b == [i \in 1 .. n |-> IF i \in P2 THEN <<>> ELSE <<t[i]>>]
           ab == [i \in 1 .. m + n |-> IF i \in P THEN <<>> ELSE <<st[i]>>]
<1>1. /\ m \in Nat /\ n \in Nat /\ DOMAIN s = 1 .. m /\ DOMAIN t = 1 .. n /\ DOMAIN st = 1 .. m + n
      /\ \A i \in 1 .. m : st[i] = s[i] /\ s[i] \in S
      /\ \A i \in 1 .. n : st[m + i] = t[i] /\ t[i] \in S
  BY Parts
<1>2. Without(st, P) = FlattenSeq(ab) /\ Without(s, P1) = FlattenSeq(a) /\ Without(t, P2) = FlattenSeq(b)
  BY <1>1 DEF Without
<1>3. /\ \A i \in 1 .. m : i \in P <=> i \in P1
      /\ \A i \in 1 .. n : m + i \in P <=> i \in P2
  BY DEF IsJoin
<1>4. <<>> \in Seq(S) /\ \A x \in S : <<x>> \in Seq(S)
  BY EmptySeq
<1> HIDE DEF m, n, st
<1>5. a \in Seq(Seq(S)) /\ Len(a) = m /\ DOMAIN a = 1 .. m
  <2>1. a \in [1 .. m -> Seq(S)]
    BY <1>1, <1>4
  <2> HIDE DEF a
  <2> QED
    BY <1>1, <2>1
<1>6. b \in Seq(Seq(S)) /\ Len(b) = n /\ DOMAIN b = 1 .. n
  <2>1. b \in [1 .. n -> Seq(S)]
    BY <1>1, <1>4
  <2> HIDE DEF b
  <2> QED
    BY <1>1, <2>1
<1>7. /\ \A i \in 1 .. m : ab[i] = a[i]
      /\ \A i \in 1 .. n : ab[m + i] = b[i]
  <2>1. \A i \in 1 .. m : ab[i] = a[i]
    BY <1>1, <1>3
  <2>2. ASSUME NEW i \in 1 .. n PROVE ab[m + i] = b[i]
    <3>1. m + i \in 1 .. m + n
      BY <1>1
    <3> QED
      BY <1>1, <1>3, <3>1
  <2> QED
    BY <2>1, <2>2
<1>8. /\ a \o b \in Seq(Seq(S)) /\ Len(a \o b) = m + n
      /\ \A i \in 1 .. m : (a \o b)[i] = a[i] /\ a[i] \in Seq(S)
      /\ \A i \in 1 .. n : (a \o b)[m + i] = b[i] /\ b[i] \in Seq(S)
  <2> HIDE DEF a, b
  <2>1. /\ a \o b \in Seq(Seq(S)) /\ Len(a \o b) = Len(a) + Len(b)
        /\ \A i \in 1 .. Len(a) : (a \o b)[i] = a[i] /\ a[i] \in Seq(S)
        /\ \A i \in 1 .. Len(b) : (a \o b)[Len(a) + i] = b[i] /\ b[i] \in Seq(S)
    <3>1. HasParts(Seq(S), a, b)
      BY <1>5, <1>6, JoinHasParts
    <3> QED
      BY <3>1 DEF HasParts
  <2> QED
    BY <1>5, <1>6, <2>1
<1> HIDE DEF a, b
<1>9. ASSUME NEW i \in 1 .. m + n
      PROVE  ab[i] = (a \o b)[i] /\ ab[i] \in Seq(S)
  <2> HIDE DEF ab
  <2>1. CASE i \in 1 .. m
    BY <1>7, <1>8, <2>1
  <2>2. CASE i - m \in 1 .. n /\ i = m + (i - m)
    BY <1>7, <1>8, <2>2
  <2> QED
    BY <1>1, <2>1, <2>2, PartOf
<1>10. ab \in Seq(Seq(S)) /\ Len(ab) = m + n
  <2>1. ab = [i \in 1 .. m + n |-> ab[i]]
    OBVIOUS
  <2> HIDE DEF ab
  <2>2. ab \in [1 .. m + n -> Seq(S)]
    BY <1>9, <2>1
  <2>3. m + n \in Nat
    BY <1>1
  <2> QED
    BY <2>2, <2>3
<1> HIDE DEF ab
<1>11. ab = a \o b
  BY <1>8, <1>9, <1>10, SeqEqual, SMTT(30)
<1>12. FlattenSeq(a \o b) = FlattenSeq(a) \o FlattenSeq(b) /\ FlattenSeq(a) \in Seq(S)
  BY <1>5, <1>6, FlattenJoined
<1> QED
  BY <1>2, <1>11, <1>12 DEF st

\* Tokens, those that the passes put into a line among them.
Words == STRING \cup {"str", "quote", ")", "/*", "*/", "//"}

\* Tokens of lines that _CollapseStrings does not leave alone.
Text == Words \ {"include"}

\* The pairs of quotes of a line, as CollapseStrings takes them.
QuotesOf(line) == {i \in DOMAIN line : line[i] \in Quotes}
OpensOf(line) == {i \in QuotesOf(line) : ~IsCppString(SubSeq(line, 1, i - 1))}
StringsOf(line) == Enclosed(OpensOf(line), QuotesOf(line) \ OpensOf(line), Len(line))
Collapsed(line) == [i \in DOMAIN line |-> IF i \in StringsOf(line) THEN "str" ELSE line[i]]

\* CollapseStrings in these terms.
LEMMA CollapseIs ==
  ASSUME NEW line \in Seq(Text)
  PROVE  CollapseStrings(line) = Without(Collapsed(line), StringsOf(line) \ OpensOf(line))
<1>1. ~(line # <<>> /\ Head(line) = "include")
  <2> SUFFICES ASSUME line # <<>> PROVE Head(line) # "include"
    OBVIOUS
  <2>1. Head(line) \in Text
    BY HeadTailProperties
  <2> QED
    BY <2>1 DEF Text
<1> QED
  BY <1>1 DEF CollapseStrings, Collapsed, StringsOf, OpensOf, QuotesOf

\* A quote starts or ends a string.
LEMMA StringFlips ==
  ASSUME NEW S, NEW s \in Seq(S), NEW k \in 1 .. Len(s)
  PROVE  IsCppString(SubSeq(s, 1, k)) <=> ~(IsCppString(SubSeq(s, 1, k - 1)) <=> s[k] \in Quotes)
<1>1. /\ SubSeq(s, 1, k - 1) \in Seq(S) /\ s[k] \in S /\ <<s[k]>> \in Seq(S)
      /\ SubSeq(s, 1, k) = SubSeq(s, 1, k - 1) \o <<s[k]>>
  <2>1. Len(s) \in Nat /\ 1 \in 1 .. Len(s) /\ k \in 1 .. Len(s) /\ k - 1 \in Int
    OBVIOUS
  <2>2. \A i \in 1 .. k - 1 : s[i] \in S
    BY <2>1, ElementOfSeq
  <2>3. SubSeq(s, 1, k) = SubSeq(s, 1, k - 1) \o <<s[k]>>
    BY <2>1, SubSeqRecursiveSecond
  <2> QED
    BY <2>1, <2>2, <2>3, SubSeqProperties, ElementOfSeq, SMTT(30)
<1>2. IsCppString(<<s[k]>>) <=> s[k] \in Quotes
  <2>1. CASE s[k] \in Quotes
    BY <2>1, StringOfOne
  <2>2. CASE s[k] \notin Quotes
    <3>1. HasNone(<<s[k]>>, Quotes)
      BY <2>2 DEF HasNone
    <3> QED
      BY <2>2, <3>1, StringOfNone
  <2> QED
    BY <2>1, <2>2
<1>3. IsCppString(SubSeq(s, 1, k - 1) \o <<s[k]>>)
        <=> ~(IsCppString(SubSeq(s, 1, k - 1)) <=> IsCppString(<<s[k]>>))
  <2> DEFINE a == SubSeq(s, 1, k - 1)
             b == <<s[k]>>
  <2>1. a \in Seq(S) /\ b \in Seq(S)
    BY <1>1
  <2> HIDE DEF a, b
  <2>2. IsCppString(a \o b) <=> ~(IsCppString(a) <=> IsCppString(b))
    BY <2>1, StringJoined
  <2> QED
    BY <2>2 DEF a, b
<1> QED
  BY <1>1, <1>2, <1>3

\* In a line that ends in no string every string is ended.
LEMMA StringsAreEnded ==
  ASSUME NEW S, NEW s \in Seq(S), ~IsCppString(s)
  PROVE  \A o \in OpensOf(s) : (QuotesOf(s) \ OpensOf(s)) \cap (o .. Len(s)) # {}
<1> SUFFICES ASSUME NEW o \in OpensOf(s), (QuotesOf(s) \ OpensOf(s)) \cap (o .. Len(s)) = {}
             PROVE  FALSE
  OBVIOUS
<1> DEFINE n == Len(s)
           In(k) == IsCppString(SubSeq(s, 1, k))
<1>1. n \in Nat /\ DOMAIN s = 1 .. n
  OBVIOUS
<1>2. o \in 1 .. n /\ s[o] \in Quotes /\ ~In(o - 1)
  BY <1>1 DEF OpensOf, QuotesOf
<1>3. \A k \in 1 .. n : In(k) <=> ~(In(k - 1) <=> s[k] \in Quotes)
  BY StringFlips
<1>4. \A k \in o .. n : s[k] \in Quotes => ~In(k - 1)
  <2> SUFFICES ASSUME NEW k \in o .. n, s[k] \in Quotes, In(k - 1) PROVE FALSE
    OBVIOUS
  <2>1. k \in QuotesOf(s) /\ k \notin OpensOf(s)
    BY <1>1, <1>2 DEF QuotesOf, OpensOf
  <2> QED
    BY <2>1
<1>5. In(n) <=> IsCppString(s)
  BY SubSeqFull
<1> HIDE DEF In
<1> DEFINE T == {k \in 0 .. n - o : In(o + k)}
<1> HIDE DEF n
<1>6. 0 \in T
  <2>1. In(o + 0)
    BY <1>1, <1>2, <1>3
  <2> QED
    BY <1>1, <1>2, <2>1
<1>7. ASSUME NEW k \in 0 .. (n - o) - 1, k \in T
      PROVE  k + 1 \in T
  <2>1. o + (k + 1) \in 1 .. n /\ o + (k + 1) \in o .. n /\ (o + (k + 1)) - 1 = o + k
    BY <1>1, <1>2
  <2>2. In(o + k)
    BY <1>7
  <2>3. In(o + (k + 1))
    BY <1>3, <1>4, <2>1, <2>2
  <2> QED
    BY <1>1, <1>2, <2>3
<1>8. n - o \in T
  <2>1. n - o \in Nat
    BY <1>1, <1>2
  <2> HIDE DEF T
  <2> QED
    BY <1>6, <1>7, <2>1, UpTo
<1>9. o + (n - o) = n
  BY <1>1, <1>2
<1> QED
  BY <1>5, <1>8, <1>9

\* The strings of a joined sequence are those of the parts.
LEMMA StringsJoined ==
  ASSUME NEW S, NEW s \in Seq(S), NEW t \in Seq(S), ~IsCppString(s)
  PROVE  /\ IsJoin(OpensOf(s \o t), OpensOf(s), Len(s), OpensOf(t), Len(t))
         /\ IsJoin(StringsOf(s \o t), StringsOf(s), Len(s), StringsOf(t), Len(t))
<1> DEFINE m == Len(s)
           n == Len(t)
           st == s \o t
           Closes(r) == QuotesOf(r) \ OpensOf(r)
<1>1. /\ m \in Nat /\ n \in Nat /\ Len(st) = m + n
      /\ DOMAIN s = 1 .. m /\ DOMAIN t = 1 .. n /\ DOMAIN st = 1 .. m + n
      /\ \A i \in 1 .. m : st[i] = s[i]
      /\ \A i \in 1 .. n : st[m + i] = t[i]
  BY Parts
<1>2. /\ \A i \in 1 .. m : SubSeq(st, 1, i - 1) = SubSeq(s, 1, i - 1)
      /\ \A j \in 1 .. n : IsCppString(SubSeq(st, 1, (m + j) - 1)) <=> IsCppString(SubSeq(t, 1, j - 1))
  <2>1. \A i \in 1 .. m : SubSeq(st, 1, i - 1) = SubSeq(s, 1, i - 1)
    BY PrefixJoined
  <2>2. ASSUME NEW j \in 1 .. n
        PROVE  IsCppString(SubSeq(st, 1, (m + j) - 1)) <=> IsCppString(SubSeq(t, 1, j - 1))
    <3>1. SubSeq(t, 1, j - 1) \in Seq(S) /\ SubSeq(st, 1, m + j - 1) = s \o SubSeq(t, 1, j - 1)
      BY PrefixJoined, SMTT(30)
    <3>2. IsCppString(s \o SubSeq(t, 1, j - 1)) <=> ~(IsCppString(s) <=> IsCppString(SubSeq(t, 1, j - 1)))
      <4> DEFINE a == SubSeq(t, 1, j - 1)
      <4>1. a \in Seq(S)
        BY <3>1
      <4> HIDE DEF a
      <4>2. IsCppString(s \o a) <=> ~(IsCppString(s) <=> IsCppString(a))
        BY <4>1, StringJoined
      <4> QED
        BY <4>2 DEF a
    <3>3. m + j - 1 = (m + j) - 1
      BY <1>1
    <3> QED
      BY <3>1, <3>2, <3>3
  <2> QED
    BY <2>1, <2>2
<1> HIDE DEF m, n, st
<1>3. \A i \in 1 .. n : m + i \in 1 .. m + n
  BY <1>1
<1>4. 1 .. m \subseteq 1 .. m + n
  BY <1>1
<1>5. \A r : \A i \in DOMAIN r :
        /\ i \in OpensOf(r) <=> r[i] \in Quotes /\ ~IsCppString(SubSeq(r, 1, i - 1))
        /\ i \in Closes(r) <=> r[i] \in Quotes /\ IsCppString(SubSeq(r, 1, i - 1))
  BY DEF OpensOf, QuotesOf
<1>6. \A r : OpensOf(r) \subseteq DOMAIN r /\ Closes(r) \subseteq DOMAIN r
  BY DEF OpensOf, QuotesOf
<1> HIDE DEF Closes
<1>7. /\ \A i \in 1 .. m : (i \in OpensOf(st) <=> i \in OpensOf(s)) /\ (i \in Closes(st) <=> i \in Closes(s))
      /\ \A i \in 1 .. n : (m + i \in OpensOf(st) <=> i \in OpensOf(t)) /\ (m + i \in Closes(st) <=> i \in Closes(t))
  <2>1. ASSUME NEW i \in 1 .. m
        PROVE  (i \in OpensOf(st) <=> i \in OpensOf(s)) /\ (i \in Closes(st) <=> i \in Closes(s))
    <3>1. i \in DOMAIN st /\ i \in DOMAIN s
      BY <1>1, <1>4
    <3>2. st[i] = s[i] /\ SubSeq(st, 1, i - 1) = SubSeq(s, 1, i - 1)
      BY <1>1, <1>2
    <3>3. /\ i \in OpensOf(st) <=> st[i] \in Quotes /\ ~IsCppString(SubSeq(st, 1, i - 1))
          /\ i \in Closes(st) <=> st[i] \in Quotes /\ IsCppString(SubSeq(st, 1, i - 1))
      BY <1>5, <3>1
    <3>4. /\ i \in OpensOf(s) <=> s[i] \in Quotes /\ ~IsCppString(SubSeq(s, 1, i - 1))
          /\ i \in Closes(s) <=> s[i] \in Quotes /\ IsCppString(SubSeq(s, 1, i - 1))
      BY <1>5, <3>1
    <3> QED
      BY <3>2, <3>3, <3>4
  <2>2. ASSUME NEW i \in 1 .. n
        PROVE  (m + i \in OpensOf(st) <=> i \in OpensOf(t)) /\ (m + i \in Closes(st) <=> i \in Closes(t))
    <3>1. m + i \in DOMAIN st /\ i \in DOMAIN t
      BY <1>1, <1>3
    <3>2. st[m + i] = t[i] /\ (IsCppString(SubSeq(st, 1, (m + i) - 1)) <=> IsCppString(SubSeq(t, 1, i - 1)))
      BY <1>1, <1>2
    <3> QED
      BY <1>5, <3>1, <3>2
  <2> QED
    BY <2>1, <2>2
<1>8. IsJoin(OpensOf(st), OpensOf(s), m, OpensOf(t), n) /\ IsJoin(Closes(st), Closes(s), m, Closes(t), n)
  BY <1>1, <1>6, <1>7 DEF IsJoin
<1>9. \A o \in OpensOf(s) : Closes(s) \cap (o .. m) # {}
  BY StringsAreEnded DEF Closes, m
<1>10. IsJoin(Enclosed(OpensOf(st), Closes(st), m + n), Enclosed(OpensOf(s), Closes(s), m), m,
              Enclosed(OpensOf(t), Closes(t), n), n)
  BY <1>1, <1>8, <1>9, EnclosedJoined
<1>11. StringsOf(st) = Enclosed(OpensOf(st), Closes(st), m + n)
  BY <1>1 DEF StringsOf, Closes
<1>12. StringsOf(s) = Enclosed(OpensOf(s), Closes(s), m) /\ StringsOf(t) = Enclosed(OpensOf(t), Closes(t), n)
  BY DEF StringsOf, Closes, m, n
<1> QED
  BY <1>8, <1>10, <1>11, <1>12 DEF st, m, n

\* The token of a collapsed string is text.
LEMMA StrIsText == "str" \in Text /\ "str" \in Words
BY DEF Text, Words

\* What is collapsed is text, of the length of the line.
LEMMA CollapsedType ==
  ASSUME NEW s \in Seq(Text)
  PROVE  /\ Collapsed(s) \in Seq(Words) /\ Len(Collapsed(s)) = Len(s)
         /\ \A i \in 1 .. Len(s) : Collapsed(s)[i] = IF i \in StringsOf(s) THEN "str" ELSE s[i]
<1>1. DOMAIN s = 1 .. Len(s) /\ Len(s) \in Nat
  BY LenProperties
<1>2. \A i \in 1 .. Len(s) : s[i] \in Words
  BY ElementOfSeq DEF Text
<1>3. \A i \in 1 .. Len(s) : Collapsed(s)[i] = IF i \in StringsOf(s) THEN "str" ELSE s[i]
  BY <1>1 DEF Collapsed
<1>4. Collapsed(s) \in [1 .. Len(s) -> Words]
  <2>1. ASSUME NEW i \in 1 .. Len(s)
        PROVE  (IF i \in StringsOf(s) THEN "str" ELSE s[i]) \in Words
    <3>1. CASE i \in StringsOf(s)
      BY <3>1, StrIsText
    <3>2. CASE i \notin StringsOf(s)
      BY <1>2, <3>2
    <3> QED
      BY <3>1, <3>2
  <2> QED
    BY <1>1, <2>1 DEF Collapsed
<1>5. Collapsed(s) \in Seq(Words)
  BY <1>1, <1>4
<1>6. Len(Collapsed(s)) = Len(s)
  BY <1>1, <1>4, <1>5, LenProperties
<1> QED
  BY <1>3, <1>5, <1>6

\* A sequence without some of its elements.
LEMMA WithoutIsWords ==
  ASSUME NEW S, NEW c \in Seq(S), NEW P
  PROVE  Without(c, P) \in Seq(S)
<1> DEFINE kept == [i \in DOMAIN c |-> IF i \in P THEN <<>> ELSE <<c[i]>>]
<1>1. DOMAIN c = 1 .. Len(c) /\ Len(c) \in Nat /\ \A i \in 1 .. Len(c) : c[i] \in S
  BY LenProperties, ElementOfSeq
<1>2. <<>> \in Seq(S) /\ \A x \in S : <<x>> \in Seq(S)
  BY EmptySeq
<1>3. kept \in [1 .. Len(c) -> Seq(S)]
  BY <1>1, <1>2
<1>4. Without(c, P) = FlattenSeq(kept)
  BY DEF Without
<1> HIDE DEF kept
<1>5. kept \in Seq(Seq(S))
  BY <1>1, <1>3
<1> QED
  BY <1>2, <1>4, <1>5, FlattenAppend

\* _CollapseStrings makes a sequence of words of a line.
LEMMA CollapseText ==
  ASSUME NEW s \in Seq(Text)
  PROVE  CollapseStrings(s) \in Seq(Words)
BY CollapseIs, CollapsedType, WithoutIsWords

\* Behind a string that is ended _CollapseStrings goes on as from the start.
LEMMA CollapseJoined ==
  ASSUME NEW s \in Seq(Text), NEW t \in Seq(Text), ~IsCppString(s)
  PROVE  /\ CollapseStrings(s \o t) = CollapseStrings(s) \o CollapseStrings(t)
         /\ CollapseStrings(s) \in Seq(Words)
<1> DEFINE m == Len(s)
           n == Len(t)
           st == s \o t
           Dropped(r) == StringsOf(r) \ OpensOf(r)
<1>1. /\ m \in Nat /\ n \in Nat /\ Len(st) = m + n /\ st \in Seq(Text)
      /\ \A i \in 1 .. m : st[i] = s[i]
      /\ \A i \in 1 .. n : st[m + i] = t[i]
  BY Parts
<1>2. IsJoin(OpensOf(st), OpensOf(s), m, OpensOf(t), n) /\ IsJoin(StringsOf(st), StringsOf(s), m, StringsOf(t), n)
  BY StringsJoined
<1>3. IsJoin(Dropped(st), Dropped(s), m, Dropped(t), n)
  BY <1>1, <1>2 DEF IsJoin
<1>4. Collapsed(st) = Collapsed(s) \o Collapsed(t)
  <2>1. /\ Collapsed(s) \in Seq(Words) /\ Len(Collapsed(s)) = m
        /\ \A i \in 1 .. m : Collapsed(s)[i] = IF i \in StringsOf(s) THEN "str" ELSE s[i]
    BY CollapsedType
  <2>2. /\ Collapsed(t) \in Seq(Words) /\ Len(Collapsed(t)) = n
        /\ \A i \in 1 .. n : Collapsed(t)[i] = IF i \in StringsOf(t) THEN "str" ELSE t[i]
    BY CollapsedType
  <2>3. /\ Collapsed(st) \in Seq(Words) /\ Len(Collapsed(st)) = m + n
        /\ \A i \in 1 .. m + n : Collapsed(st)[i] = IF i \in StringsOf(st) THEN "str" ELSE st[i]
    <3> HIDE DEF st
    <3> QED
      BY <1>1, CollapsedType
  <2>4. HasParts(Words, Collapsed(s), Collapsed(t))
    BY <2>1, <2>2, JoinHasParts
  <2> HIDE DEF st, m, n
  <2>5. /\ Collapsed(s) \o Collapsed(t) \in Seq(Words) /\ Len(Collapsed(s) \o Collapsed(t)) = m + n
        /\ \A i \in 1 .. m : (Collapsed(s) \o Collapsed(t))[i] = Collapsed(s)[i]
        /\ \A i \in 1 .. n : (Collapsed(s) \o Collapsed(t))[m + i] = Collapsed(t)[i]
    BY <2>1, <2>2, <2>4 DEF HasParts
  <2>6. ASSUME NEW i \in 1 .. m + n
        PROVE  Collapsed(st)[i] = (Collapsed(s) \o Collapsed(t))[i]
    <3>1. CASE i \in 1 .. m
      <4>1. Collapsed(st)[i] = Collapsed(s)[i]
        BY <1>1, <1>2, <2>1, <2>3, <3>1 DEF IsJoin
      <4> QED
        BY <2>5, <3>1, <4>1
    <3>2. CASE i - m \in 1 .. n /\ i = m + (i - m)
      <4> DEFINE j == i - m
      <4>0. j \in 1 .. n /\ i = m + j
        BY <3>2
      <4> HIDE DEF j
      <4>1. (m + j \in StringsOf(st) <=> j \in StringsOf(t)) /\ st[m + j] = t[j]
        BY <1>1, <1>2, <4>0 DEF IsJoin
      <4>2. Collapsed(st)[m + j] = Collapsed(t)[j]
        BY <2>2, <2>3, <4>0, <4>1
      <4> QED
        BY <2>5, <4>0, <4>2
    <3> QED
      BY <1>1, <3>1, <3>2, PartOf
  <2> QED
    BY <2>3, <2>5, <2>6, SeqEqual
<1>5. Collapsed(s) \in Seq(Words) /\ Len(Collapsed(s)) = m /\ Collapsed(t) \in Seq(Words) /\ Len(Collapsed(t)) = n
  BY CollapsedType
<1>6. IsJoin(Dropped(st), Dropped(s), Len(Collapsed(s)), Dropped(t), Len(Collapsed(t)))
  BY <1>3, <1>5
<1> HIDE DEF st, Dropped
<1>7. /\ Without(Collapsed(s) \o Collapsed(t), Dropped(st))
           = Without(Collapsed(s), Dropped(s)) \o Without(Collapsed(t), Dropped(t))
      /\ Without(Collapsed(s), Dropped(s)) \in Seq(Words)
  BY <1>5, <1>6, WithoutJoined
<1>8. CollapseStrings(st) = Without(Collapsed(st), Dropped(st))
  BY <1>1, CollapseIs DEF Dropped
<1>9. CollapseStrings(s) = Without(Collapsed(s), Dropped(s)) /\ CollapseStrings(t) = Without(Collapsed(t), Dropped(t))
  BY CollapseIs DEF Dropped
<1> QED
  BY <1>4, <1>7, <1>8, <1>9 DEF st

\* The end of a joined sequence is in a comment if one of the parts ends in one.
LEMMA LineCommentJoined ==
  ASSUME NEW S, NEW s \in Seq(S), NEW t \in Seq(S), ~IsCppString(s)
  PROVE  IsLineComment(s \o t) <=> IsLineComment(s) \/ IsLineComment(t)
<1> DEFINE m == Len(s)
           n == Len(t)
           st == s \o t
           Begins(r, i) == r[i] = "//" /\ ~IsCppString(SubSeq(r, 1, i - 1))
<1>1. /\ m \in Nat /\ n \in Nat /\ DOMAIN s = 1 .. m /\ DOMAIN t = 1 .. n /\ DOMAIN st = 1 .. m + n
      /\ \A i \in 1 .. m : st[i] = s[i]
      /\ \A i \in 1 .. n : st[m + i] = t[i]
  BY Parts
<1>2. ASSUME NEW i \in 1 .. m PROVE Begins(st, i) <=> Begins(s, i)
  <2>1. SubSeq(st, 1, i - 1) = SubSeq(s, 1, i - 1)
    BY PrefixJoined
  <2> QED
    BY <1>1, <2>1
<1>3. ASSUME NEW i \in 1 .. n PROVE Begins(st, m + i) <=> Begins(t, i)
  <2> DEFINE a == SubSeq(t, 1, i - 1)
  <2>1. a \in Seq(S) /\ SubSeq(st, 1, m + i - 1) = s \o a
    BY PrefixJoined, SMTT(30)
  <2>2. IsCppString(s \o a) <=> IsCppString(a)
    <3> HIDE DEF a
    <3> QED
      BY <2>1, StringJoined
  <2>3. m + i - 1 = (m + i) - 1 /\ st[m + i] = t[i]
    BY <1>1
  <2> QED
    BY <2>1, <2>2, <2>3
<1>4. \A r : IsLineComment(r) <=> \E i \in DOMAIN r : Begins(r, i)
  BY DEF IsLineComment
<1> HIDE DEF Begins, m, n, st
<1>5. ASSUME IsLineComment(st) PROVE IsLineComment(s) \/ IsLineComment(t)
  <2>1. PICK i \in 1 .. m + n : Begins(st, i)
    BY <1>1, <1>4, <1>5
  <2>2. CASE i \in 1 .. m
    BY <1>1, <1>2, <1>4, <2>1, <2>2
  <2>3. CASE i - m \in 1 .. n /\ i = m + (i - m)
    BY <1>1, <1>3, <1>4, <2>1, <2>3
  <2> QED
    BY <1>1, <2>2, <2>3, PartOf
<1>6. ASSUME IsLineComment(s) PROVE IsLineComment(st)
  <2>1. PICK i \in 1 .. m : Begins(s, i)
    BY <1>1, <1>4, <1>6
  <2>2. i \in 1 .. m + n
    BY <1>1
  <2> QED
    BY <1>1, <1>2, <1>4, <2>1, <2>2
<1>7. ASSUME IsLineComment(t) PROVE IsLineComment(st)
  <2>1. PICK i \in 1 .. n : Begins(t, i)
    BY <1>1, <1>4, <1>7
  <2>2. m + i \in 1 .. m + n
    BY <1>1
  <2> QED
    BY <1>1, <1>3, <1>4, <2>1, <2>2
<1> QED
  BY <1>5, <1>6, <1>7 DEF st

\* The passes of CleanseComments.
CommentPos(line) == SelectInSeq(line, LAMBDA token : token = "//")
CodeOf(line) ==
  IF CommentPos(line) # 0 /\ ~IsCppString(SubSeq(line, 1, CommentPos(line) - 1))
  THEN SubSeq(line, 1, CommentPos(line) - 1) ELSE line
Marks(code, token) == {i \in DOMAIN code : code[i] = token}
CommentsOf(code) == Enclosed(Marks(code, "/*"), Marks(code, "*/"), Len(code))

\* CleanseComments in these terms.
LEMMA CleanseIs ==
  ASSUME NEW line
  PROVE  CleanseComments(line) = Without(CodeOf(line), CommentsOf(CodeOf(line)))
BY DEF CleanseComments, CommentPos, CodeOf, Marks, CommentsOf

\* The position of the first // of a line.
LEMMA FirstComment ==
  ASSUME NEW S, NEW line \in Seq(S)
  PROVE  LET pos == CommentPos(line) IN
         \/ pos = 0 /\ \A i \in 1 .. Len(line) : line[i] # "//"
         \/ pos \in 1 .. Len(line) /\ line[pos] = "//" /\ \A i \in 1 .. Len(line) : line[i] = "//" => pos <= i
<1> DEFINE I == {i \in 1 .. Len(line) : line[i] = "//"}
<1>1. CommentPos(line) = IF I # {} THEN Min(I) ELSE 0
  BY DEF CommentPos, SelectInSeq
<1>2. CASE I = {}
  BY <1>1, <1>2
<1>3. CASE I # {}
  <2>1. I \in SUBSET Nat
    OBVIOUS
  <2>2. \E x \in I : \A y \in I : x <= y
    <3> HIDE DEF I
    <3> QED
      BY <1>3, <2>1, LeastElement
  <2>3. Min(I) \in I /\ \A y \in I : Min(I) <= y
    <3> HIDE DEF I
    <3> QED
      BY <2>2 DEF Min
  <2>4. CommentPos(line) = Min(I)
    BY <1>1, <1>3
  <2> QED
    BY <2>3, <2>4
<1> QED
  BY <1>2, <1>3

\* Code without // that ends in no string stays as it is.
LEMMA CodeJoined ==
  ASSUME NEW S, NEW s \in Seq(S), NEW t \in Seq(S), HasNone(s, {"//"}), ~IsCppString(s)
  PROVE  CodeOf(s \o t) = s \o CodeOf(t) /\ CodeOf(t) \in Seq(S) /\ CodeOf(s) = s
<1> DEFINE m == Len(s)
           n == Len(t)
           st == s \o t
           p == CommentPos(t)
           q == CommentPos(st)
<1>1. /\ m \in Nat /\ n \in Nat /\ DOMAIN s = 1 .. m /\ Len(st) = m + n /\ st \in Seq(S)
      /\ \A i \in 1 .. m : st[i] = s[i]
      /\ \A i \in 1 .. n : st[m + i] = t[i]
  BY Parts
<1>2. \A i \in 1 .. m : s[i] # "//"
  BY <1>1 DEF HasNone
<1>3. CodeOf(s) = s
  <2>1. CommentPos(s) = 0
    BY <1>2, FirstComment
  <2> QED
    BY <2>1 DEF CodeOf
<1>4. \/ p = 0 /\ \A i \in 1 .. n : t[i] # "//"
      \/ p \in 1 .. n /\ t[p] = "//" /\ \A i \in 1 .. n : t[i] = "//" => p <= i
  BY FirstComment
<1>5. \/ q = 0 /\ \A i \in 1 .. m + n : st[i] # "//"
      \/ q \in 1 .. m + n /\ st[q] = "//" /\ \A i \in 1 .. m + n : st[i] = "//" => q <= i
  <2> HIDE DEF st
  <2> QED
    BY <1>1, FirstComment
<1>6. \A i \in 1 .. n : SubSeq(t, 1, i - 1) \in Seq(S) /\ SubSeq(st, 1, m + i - 1) = s \o SubSeq(t, 1, i - 1)
  <2> SUFFICES ASSUME NEW i \in 1 .. n
               PROVE  SubSeq(t, 1, i - 1) \in Seq(S) /\ SubSeq(st, 1, m + i - 1) = s \o SubSeq(t, 1, i - 1)
    OBVIOUS
  <2> HIDE DEF p, q
  <2> QED
    BY PrefixJoined
<1> HIDE DEF m, n, st, p, q
<1>7. CASE p = 0
  <2>1. \A i \in 1 .. n : t[i] # "//"
    BY <1>1, <1>4, <1>7
  <2>2. ASSUME NEW i \in 1 .. m + n PROVE st[i] # "//"
    <3>1. CASE i \in 1 .. m
      BY <1>1, <1>2, <3>1
    <3>2. CASE i - m \in 1 .. n /\ i = m + (i - m)
      BY <1>1, <2>1, <3>2
    <3> QED
      BY <1>1, <3>1, <3>2, PartOf
  <2>3. q = 0
    BY <1>5, <2>2
  <2> QED
    BY <1>3, <1>7, <2>3 DEF CodeOf, p, q, st
<1>8. CASE p # 0
  <2>1. p \in 1 .. n /\ t[p] = "//" /\ \A i \in 1 .. n : t[i] = "//" => p <= i
    BY <1>4, <1>8
  <2>2. m + p \in 1 .. m + n /\ st[m + p] = "//"
    BY <1>1, <2>1
  <2>3. q \in 1 .. m + n /\ st[q] = "//" /\ q <= m + p
    BY <1>5, <2>2
  <2>4. q = m + p
    <3>1. q \notin 1 .. m
      BY <1>1, <1>2, <2>3
    <3>2. q - m \in 1 .. n /\ q = m + (q - m)
      BY <1>1, <2>3, <3>1, PartOf
    <3>3. t[q - m] = "//"
      BY <1>1, <2>3, <3>2
    <3>4. p <= q - m
      BY <2>1, <3>2, <3>3
    <3> QED
      BY <1>1, <2>1, <2>3, <3>4
  <2> DEFINE a == SubSeq(t, 1, p - 1)
  <2>5. a \in Seq(S) /\ SubSeq(st, 1, q - 1) = s \o a
    <3>1. SubSeq(t, 1, p - 1) \in Seq(S) /\ SubSeq(st, 1, m + p - 1) = s \o SubSeq(t, 1, p - 1)
      BY <1>6, <2>1
    <3>2. m + p - 1 = q - 1
      BY <1>1, <2>1, <2>4
    <3> QED
      BY <3>1, <3>2
  <2>6. IsCppString(s \o a) <=> IsCppString(a)
    <3> HIDE DEF a
    <3> QED
      BY <2>5, StringJoined
  <2>7. q # 0
    BY <1>1, <2>1, <2>4
  <2>8. CodeOf(st) = IF ~IsCppString(s \o a) THEN s \o a ELSE st
    BY <2>5, <2>7 DEF CodeOf, q
  <2>9. CodeOf(t) = IF ~IsCppString(a) THEN a ELSE t
    BY <1>8 DEF CodeOf, p
  <2> HIDE DEF a
  <2> QED
    BY <1>3, <2>5, <2>6, <2>8, <2>9 DEF st
<1> QED
  BY <1>7, <1>8

\* Every comment of code is ended in it.
CommentsAreEnded(code) ==
  \A i \in DOMAIN code : code[i] = "/*" => \E j \in DOMAIN code : i <= j /\ code[j] = "*/"

\* Code in which every string and comment is ended.
IsWhole(code) == HasNone(code, {"//"}) /\ ~IsCppString(code) /\ CommentsAreEnded(code)

\* Behind such code CleanseComments goes on as from the start.
LEMMA CleanseJoined ==
  ASSUME NEW S, NEW s \in Seq(S), NEW t \in Seq(S), IsWhole(s)
  PROVE  CleanseComments(s \o t) = CleanseComments(s) \o CleanseComments(t) /\ CleanseComments(s) \in Seq(S)
<1> DEFINE c == CodeOf(t)
           m == Len(s)
           n == Len(c)
           sc == s \o c
<1>1. CodeOf(s \o t) = sc /\ c \in Seq(S) /\ CodeOf(s) = s
  BY CodeJoined DEF IsWhole
<1> HIDE DEF c
<1>2. /\ m \in Nat /\ n \in Nat /\ DOMAIN s = 1 .. m /\ DOMAIN c = 1 .. n
      /\ DOMAIN sc = 1 .. m + n /\ Len(sc) = m + n
      /\ \A i \in 1 .. m : sc[i] = s[i]
      /\ \A i \in 1 .. n : sc[m + i] = c[i]
  BY <1>1, Parts
<1> HIDE DEF m, n, sc
<1>3. ASSUME NEW token
      PROVE  IsJoin(Marks(sc, token), Marks(s, token), m, Marks(c, token), n)
  <2>1. (\A i \in 1 .. m : i \in 1 .. m + n) /\ (\A i \in 1 .. n : m + i \in 1 .. m + n)
    BY <1>2
  <2> QED
    BY <1>2, <2>1 DEF IsJoin, Marks
<1>4. \A o \in Marks(s, "/*") : Marks(s, "*/") \cap (o .. m) # {}
  <2> SUFFICES ASSUME NEW o \in Marks(s, "/*") PROVE Marks(s, "*/") \cap (o .. m) # {}
    OBVIOUS
  <2>1. o \in 1 .. m /\ s[o] = "/*"
    BY <1>2 DEF Marks
  <2>2. PICK j \in 1 .. m : o <= j /\ s[j] = "*/"
    BY <1>2, <2>1 DEF IsWhole, CommentsAreEnded
  <2>3. j \in Marks(s, "*/") /\ j \in o .. m
    BY <1>2, <2>1, <2>2 DEF Marks
  <2> QED
    BY <2>3
<1>5. IsJoin(Enclosed(Marks(sc, "/*"), Marks(sc, "*/"), m + n), Enclosed(Marks(s, "/*"), Marks(s, "*/"), m), m,
             Enclosed(Marks(c, "/*"), Marks(c, "*/"), n), n)
  <2>1. /\ IsJoin(Marks(sc, "/*"), Marks(s, "/*"), m, Marks(c, "/*"), n)
        /\ IsJoin(Marks(sc, "*/"), Marks(s, "*/"), m, Marks(c, "*/"), n)
    BY <1>3
  <2> QED
    BY <1>2, <1>4, <2>1, EnclosedJoined
<1>6. IsJoin(CommentsOf(sc), CommentsOf(s), Len(s), CommentsOf(c), Len(c))
  BY <1>2, <1>5 DEF CommentsOf, m, n
<1>7. Without(sc, CommentsOf(sc)) = Without(s, CommentsOf(s)) \o Without(c, CommentsOf(c))
      /\ Without(s, CommentsOf(s)) \in Seq(S)
  BY <1>1, <1>6, WithoutJoined DEF sc
<1>8. /\ CleanseComments(s \o t) = Without(sc, CommentsOf(sc))
      /\ CleanseComments(s) = Without(s, CommentsOf(s))
      /\ CleanseComments(t) = Without(c, CommentsOf(c))
  BY <1>1, CleanseIs DEF c
<1> QED
  BY <1>7, <1>8

\* Whole code stays whole when more of it is joined to it.
LEMMA WholeJoined ==
  ASSUME NEW S, NEW s \in Seq(S), NEW t \in Seq(S), IsWhole(s), IsWhole(t)
  PROVE  IsWhole(s \o t)
<1> DEFINE m == Len(s)
           n == Len(t)
           st == s \o t
<1>1. /\ m \in Nat /\ n \in Nat /\ DOMAIN s = 1 .. m /\ DOMAIN t = 1 .. n /\ DOMAIN st = 1 .. m + n
      /\ \A i \in 1 .. m : st[i] = s[i]
      /\ \A i \in 1 .. n : st[m + i] = t[i]
  BY Parts
<1>2. ~IsCppString(st)
  BY StringJoined DEF IsWhole
<1> HIDE DEF m, n, st
<1>3. HasNone(st, {"//"})
  <2>1. ASSUME NEW i \in 1 .. m + n PROVE st[i] # "//"
    <3>1. CASE i \in 1 .. m
      BY <1>1, <3>1 DEF IsWhole, HasNone
    <3>2. CASE i - m \in 1 .. n /\ i = m + (i - m)
      <4>1. st[m + (i - m)] = t[i - m] /\ t[i - m] # "//"
        BY <1>1, <3>2 DEF IsWhole, HasNone
      <4> QED
        BY <3>2, <4>1
    <3> QED
      BY <1>1, <3>1, <3>2, PartOf
  <2> QED
    BY <1>1, <2>1 DEF HasNone
<1>4. ASSUME NEW i \in 1 .. m + n, st[i] = "/*"
      PROVE  \E j \in 1 .. m + n : i <= j /\ st[j] = "*/"
  <2>1. CASE i \in 1 .. m
    <3>1. s[i] = "/*"
      BY <1>1, <1>4, <2>1
    <3>2. PICK j \in 1 .. m : i <= j /\ s[j] = "*/"
      BY <1>1, <2>1, <3>1 DEF IsWhole, CommentsAreEnded
    <3>3. j \in 1 .. m + n /\ st[j] = "*/"
      BY <1>1, <3>2
    <3> QED
      BY <3>2, <3>3
  <2>2. CASE i - m \in 1 .. n /\ i = m + (i - m)
    <3> DEFINE k == i - m
    <3>0. k \in 1 .. n /\ i = m + k
      BY <2>2
    <3> HIDE DEF k
    <3>1. t[k] = "/*"
      BY <1>1, <1>4, <3>0
    <3>2. PICK j \in 1 .. n : k <= j /\ t[j] = "*/"
      BY <1>1, <3>0, <3>1 DEF IsWhole, CommentsAreEnded
    <3>3. m + j \in 1 .. m + n /\ st[m + j] = "*/" /\ i <= m + j
      BY <1>1, <3>0, <3>2
    <3> QED
      BY <3>3
  <2> QED
    BY <1>1, <2>1, <2>2, PartOf
<1> QED
  BY <1>1, <1>2, <1>3, <1>4 DEF IsWhole, CommentsAreEnded, st

----------------------------------------------------------------------------
(* What the passes make of code, strings and comments.                      *)

\* The line w, in which every string and comment is ended, becomes e.
IsRead(w, e) ==
  /\ w \in Seq(Text) /\ e \in Seq(Words)
  /\ ~IsCppString(w) /\ ~IsLineComment(w)
  /\ IsWhole(CollapseStrings(w)) /\ CleanseComments(CollapseStrings(w)) = e

\* Text is made of words.
LEMMA TextIsWords ==
  ASSUME NEW s \in Seq(Text)
  PROVE  s \in Seq(Words)
BY SeqMonotonic DEF Text

\* One such line behind the other.
LEMMA ReadJoined ==
  ASSUME NEW w, NEW e, NEW x, NEW f, IsRead(w, e), IsRead(x, f)
  PROVE  IsRead(w \o x, e \o f)
<1> DEFINE a == CollapseStrings(w)
           b == CollapseStrings(x)
<1>1. w \in Seq(Text) /\ x \in Seq(Text) /\ e \in Seq(Words) /\ f \in Seq(Words)
      /\ ~IsCppString(w) /\ ~IsCppString(x) /\ ~IsLineComment(w) /\ ~IsLineComment(x)
      /\ IsWhole(a) /\ IsWhole(b) /\ CleanseComments(a) = e /\ CleanseComments(b) = f
  BY DEF IsRead
<1>2. w \o x \in Seq(Text) /\ e \o f \in Seq(Words)
  BY <1>1, ConcatProperties
<1>3. ~IsCppString(w \o x)
  BY <1>1, StringJoined
<1>4. ~IsLineComment(w \o x)
  BY <1>1, LineCommentJoined
<1>5. CollapseStrings(w \o x) = a \o b /\ a \in Seq(Words)
  BY <1>1, CollapseJoined
<1>6. b \in Seq(Words)
  BY <1>1, CollapseJoined
<1> HIDE DEF a, b
<1>7. IsWhole(a \o b)
  BY <1>1, <1>5, <1>6, WholeJoined
<1>8. CleanseComments(a \o b) = e \o f
  BY <1>1, <1>5, <1>6, CleanseJoined
<1> QED
  BY <1>2, <1>3, <1>4, <1>5, <1>7, <1>8 DEF IsRead

\* Nothing is left of nothing.
LEMMA WithoutOfNone == \A P : Without(<<>>, P) = <<>>
<1> SUFFICES ASSUME NEW P PROVE Without(<<>>, P) = <<>>
  OBVIOUS
<1>1. DOMAIN <<>> = {} /\ Len(<<>>) = 0
  BY EmptySeq
<1>2. [i \in DOMAIN <<>> |-> IF i \in P THEN <<>> ELSE <<(<<>>)[i]>>] = <<>>
  BY <1>1
<1> QED
  BY <1>1, <1>2 DEF Without, FlattenSeq

\* All is left where no position is dropped.
LEMMA WithoutNothing ==
  ASSUME NEW S, NEW s \in Seq(S)
  PROVE  Without(s, {}) = s
<1> DEFINE P == {r \in Seq(S) : Without(r, {}) = r}
<1>1. <<>> \in P
  BY WithoutOfNone, EmptySeq
<1>2. ASSUME NEW r \in Seq(S), NEW x \in S, r \in P
      PROVE  Append(r, x) \in P
  <2>1. Append(r, x) \in Seq(S) /\ Append(r, x) = r \o <<x>> /\ <<x>> \in Seq(S)
    BY AppendProperties, AppendIsConcat
  <2>2. IsJoin({}, {}, Len(r), {}, Len(<<x>>))
    BY DEF IsJoin
  <2>3. Without(r \o <<x>>, {}) = Without(r, {}) \o Without(<<x>>, {})
    <3> DEFINE one == <<x>>
    <3>1. one \in Seq(S) /\ IsJoin({}, {}, Len(r), {}, Len(one))
      BY <2>1, <2>2
    <3> HIDE DEF one
    <3>2. Without(r \o one, {}) = Without(r, {}) \o Without(one, {})
      BY <3>1, WithoutJoined
    <3> QED
      BY <3>2 DEF one
  <2>4. Without(<<x>>, {}) = <<x>>
    <3>1. [i \in DOMAIN <<x>> |-> IF i \in {} THEN <<>> ELSE <<(<<x>>)[i]>>] = <<<<x>>>>
      OBVIOUS
    <3> QED
      BY <3>1, FlattenOne DEF Without
  <2> QED
    BY <1>2, <2>1, <2>3, <2>4
<1> HIDE DEF P
<1>3. s \in P
  BY <1>1, <1>2, SeqInduct
<1> QED
  BY <1>3 DEF P

\* Nothing is left where every position is dropped.
LEMMA WithoutAll ==
  ASSUME NEW S, NEW s \in Seq(S), NEW P, 1 .. Len(s) \subseteq P
  PROVE  Without(s, P) = <<>>
<1> DEFINE dropped == [i \in DOMAIN s |-> IF i \in P THEN <<>> ELSE <<s[i]>>]
<1>1. DOMAIN s = 1 .. Len(s) /\ Len(s) \in Nat
  BY LenProperties
<1>2. dropped = [i \in 1 .. Len(s) |-> <<>>]
  BY <1>1
<1>3. Without(s, P) = FlattenSeq(dropped)
  BY DEF Without
<1> HIDE DEF dropped
<1>4. dropped \in [1 .. Len(s) -> {<<>>}]
  BY <1>2
<1>5. dropped \in Seq({<<>>}) /\ Len(dropped) = Len(s)
  BY <1>1, <1>4
<1>6. CASE Len(s) = 0
  <2>1. dropped = <<>>
    BY <1>5, <1>6, EmptySeq
  <2> QED
    BY <1>3, <1>5, <1>6, <2>1 DEF FlattenSeq
<1>7. CASE Len(s) # 0
  <2>1. \A i \in 1 .. Len(dropped) : dropped[i] = <<>>
    BY <1>2, <1>5
  <2>2. Len(dropped) \in Nat \ {0}
    BY <1>1, <1>5, <1>7
  <2> QED
    BY <1>3, <2>1, <2>2, FlattenNothing
<1> QED
  BY <1>6, <1>7

\* Only the first element is left where every other position is dropped.
LEMMA WithoutRest ==
  ASSUME NEW S, NEW x \in S, NEW t \in Seq(S), NEW P, P = 2 .. 1 + Len(t)
  PROVE  Without(<<x>> \o t, P) = <<x>>
<1>1. <<x>> \in Seq(S) /\ Len(<<x>>) = 1 /\ Len(t) \in Nat
  OBVIOUS
<1>2. IsJoin(P, {}, Len(<<x>>), 1 .. Len(t), Len(t))
  BY <1>1 DEF IsJoin
<1>3. Without(<<x>> \o t, P) = Without(<<x>>, {}) \o Without(t, 1 .. Len(t))
  <2> DEFINE one == <<x>>
             rest == 1 .. Len(t)
  <2>1. one \in Seq(S) /\ IsJoin(P, {}, Len(one), rest, Len(t))
    BY <1>1, <1>2
  <2> HIDE DEF one, rest
  <2>2. Without(one \o t, P) = Without(one, {}) \o Without(t, rest)
    BY <2>1, WithoutJoined
  <2> QED
    BY <2>2 DEF one, rest
<1>4. Without(<<x>>, {}) = <<x>> /\ Without(t, 1 .. Len(t)) = <<>>
  BY <1>1, WithoutNothing, WithoutAll
<1> QED
  BY <1>1, <1>3, <1>4, ConcatEmptySeq

\* What has no quote is not changed by _CollapseStrings.
LEMMA CollapseNothing ==
  ASSUME NEW w \in Seq(Text), HasNone(w, Quotes)
  PROVE  CollapseStrings(w) = w
<1>1. QuotesOf(w) = {}
  BY DEF QuotesOf, HasNone
<1>2. OpensOf(w) = {}
  BY <1>1 DEF OpensOf
<1>3. StringsOf(w) = {}
  BY <1>2 DEF StringsOf, Enclosed
<1>4. /\ Collapsed(w) \in Seq(Words) /\ Len(Collapsed(w)) = Len(w)
      /\ \A i \in 1 .. Len(w) : Collapsed(w)[i] = w[i]
  BY <1>3, CollapsedType
<1>5. Collapsed(w) = w
  BY <1>4, TextIsWords, SeqEqual
<1>6. CollapseStrings(w) = Without(w, {})
  BY <1>2, <1>3, <1>5, CollapseIs
<1> QED
  BY <1>6, WithoutNothing

\* A line without quotes and // is in no string and no comment.
LEMMA PlainLine ==
  ASSUME NEW w \in Seq(Text), HasNone(w, Quotes), HasNone(w, {"//"})
  PROVE  /\ ~IsCppString(w) /\ ~IsLineComment(w) /\ CollapseStrings(w) = w
         /\ CleanseComments(w) = Without(w, CommentsOf(w))
<1>1. ~IsCppString(w)
  BY StringOfNone
<1>2. ~IsLineComment(w)
  BY DEF IsLineComment, HasNone
<1>3. CodeOf(w) = w
  BY <1>1, CodeJoined
<1> QED
  BY <1>1, <1>2, <1>3, CollapseNothing, CleanseIs

\* Nothing is left of nothing.
LEMMA ReadNothing == IsRead(<<>>, <<>>)
<1>1. <<>> \in Seq(Text) /\ <<>> \in Seq(Words) /\ DOMAIN <<>> = {}
  BY EmptySeq
<1>2. HasNone(<<>>, Quotes) /\ HasNone(<<>>, {"//"})
  BY <1>1 DEF HasNone
<1>3. ~IsCppString(<<>>) /\ ~IsLineComment(<<>>) /\ CollapseStrings(<<>>) = <<>>
      /\ CleanseComments(<<>>) = Without(<<>>, CommentsOf(<<>>))
  BY <1>1, <1>2, PlainLine
<1>4. IsWhole(<<>>)
  BY <1>1, <1>2, <1>3 DEF IsWhole, CommentsAreEnded
<1> QED
  BY <1>1, <1>3, <1>4, WithoutOfNone DEF IsRead

\* A token of code is left as it is.
LEMMA ReadToken ==
  ASSUME NEW t \in Text, t \notin Quotes, t \notin {"//", "/*"}
  PROVE  IsRead(<<t>>, <<t>>)
<1> DEFINE w == <<t>>
<1>1. w \in Seq(Text) /\ w \in Seq(Words) /\ DOMAIN w = {1} /\ w[1] = t /\ Len(w) = 1
  BY DEF Text
<1>2. HasNone(w, Quotes) /\ HasNone(w, {"//"})
  BY DEF HasNone
<1> HIDE DEF w
<1>3. ~IsCppString(w) /\ ~IsLineComment(w) /\ CollapseStrings(w) = w
      /\ CleanseComments(w) = Without(w, CommentsOf(w))
  BY <1>1, <1>2, PlainLine
<1>4. Marks(w, "/*") = {}
  BY <1>1 DEF Marks
<1>5. CommentsOf(w) = {}
  BY <1>4 DEF CommentsOf, Enclosed
<1>6. Without(w, {}) = w
  BY <1>1, WithoutNothing
<1>7. IsWhole(w)
  BY <1>1, <1>2, <1>3 DEF IsWhole, CommentsAreEnded
<1> QED
  BY <1>1, <1>3, <1>5, <1>6, <1>7 DEF IsRead, w

\* A comment that is ended leaves nothing.
LEMMA ReadComment ==
  ASSUME NEW v \in Seq(Text), HasNone(v, Quotes), HasNone(v, {"//", "*/"})
  PROVE  IsRead((<<"/*">> \o v) \o <<"*/">>, <<>>)
<1> DEFINE a == <<"/*">> \o v
           w == a \o <<"*/">>
           m == Len(v)
<1>1. /\ <<"/*">> \in Seq(Text) /\ <<"*/">> \in Seq(Text) /\ Len(<<"/*">>) = 1 /\ Len(<<"*/">>) = 1
      /\ <<>> \in Seq(Words) /\ m \in Nat
  BY EmptySeq DEF Text, Words
<1>2. /\ a \in Seq(Text) /\ Len(a) = m + 1 /\ a[1] = "/*"
      /\ \A i \in 1 .. m : a[1 + i] = v[i]
  <2>1. HasParts(Text, <<"/*">>, v)
    BY <1>1, JoinHasParts
  <2> QED
    BY <1>1, <2>1 DEF HasParts
<1>3. /\ w \in Seq(Text) /\ Len(w) = m + 2 /\ DOMAIN w = 1 .. m + 2 /\ w[m + 2] = "*/" /\ w[1] = "/*"
      /\ \A i \in 1 .. m : w[1 + i] = v[i]
  <2> HIDE DEF a
  <2>1. HasParts(Text, a, <<"*/">>)
    BY <1>1, <1>2, JoinHasParts
  <2>2. /\ w \in Seq(Text) /\ Len(w) = m + 2
        /\ \A i \in 1 .. m + 1 : w[i] = a[i]
        /\ w[(m + 1) + 1] = "*/"
    BY <1>1, <1>2, <2>1 DEF HasParts
  <2>3. DOMAIN w = 1 .. m + 2 /\ (m + 1) + 1 = m + 2 /\ 1 \in 1 .. m + 1 /\ \A i \in 1 .. m : 1 + i \in 1 .. m + 1
    <3> HIDE DEF w, m
    <3> QED
      BY <1>1, <2>2, LenProperties
  <2> QED
    BY <1>2, <2>2, <2>3
<1>4. \A i \in 1 .. m : v[i] \notin Quotes /\ v[i] # "//" /\ v[i] # "*/"
  <2>1. DOMAIN v = 1 .. m
    BY LenProperties
  <2> QED
    BY <2>1 DEF HasNone
<1> HIDE DEF a, w, m
<1>5. ASSUME NEW i \in 1 .. m + 2
      PROVE  w[i] \notin Quotes /\ w[i] # "//" /\ (w[i] = "*/" <=> i = m + 2)
  <2>1. CASE i = 1
    BY <1>1, <1>3, <2>1 DEF Quotes
  <2>2. CASE i = m + 2
    BY <1>3, <2>2 DEF Quotes
  <2>3. CASE i # 1 /\ i # m + 2
    <3>1. i - 1 \in 1 .. m /\ 1 + (i - 1) = i
      BY <1>1, <2>3
    <3>2. w[i] = v[i - 1]
      BY <1>3, <3>1
    <3> QED
      BY <1>4, <2>3, <3>1, <3>2
  <2> QED
    BY <2>1, <2>2, <2>3
<1>6. HasNone(w, Quotes) /\ HasNone(w, {"//"})
  BY <1>3, <1>5 DEF HasNone
<1>7. ~IsCppString(w) /\ ~IsLineComment(w) /\ CollapseStrings(w) = w
      /\ CleanseComments(w) = Without(w, CommentsOf(w))
  BY <1>3, <1>6, PlainLine
<1>8. IsWhole(w)
  <2>1. ASSUME NEW i \in 1 .. m + 2
        PROVE  m + 2 \in 1 .. m + 2 /\ i <= m + 2 /\ w[m + 2] = "*/"
    BY <1>1, <1>3
  <2> QED
    BY <1>3, <1>6, <1>7, <2>1 DEF IsWhole, CommentsAreEnded
<1>9. 1 .. Len(w) \subseteq CommentsOf(w)
  <2> SUFFICES ASSUME NEW i \in 1 .. Len(w) PROVE i \in CommentsOf(w)
    OBVIOUS
  <2>1. i \in 1 .. m + 2 /\ 1 \in 1 .. m + 2 /\ m + 2 \in 1 .. m + 2
    BY <1>1, <1>3
  <2>2. 1 \in Marks(w, "/*") /\ 1 <= i
    BY <1>3, <2>1 DEF Marks
  <2>3. Marks(w, "*/") \cap (1 .. i - 1) = {}
    <3> SUFFICES ASSUME NEW k \in Marks(w, "*/"), k \in 1 .. i - 1 PROVE FALSE
      OBVIOUS
    <3>1. k = m + 2
      BY <1>3, <1>5 DEF Marks
    <3> QED
      BY <1>1, <2>1, <3>1
  <2>4. m + 2 \in Marks(w, "*/") /\ m + 2 \in i .. Len(w)
    BY <1>1, <1>3, <2>1 DEF Marks
  <2> QED
    BY <2>2, <2>3, <2>4 DEF CommentsOf, Enclosed
<1>10. Without(w, CommentsOf(w)) = <<>>
  BY <1>3, <1>9, WithoutAll
<1>11. IsRead(w, <<>>)
  BY <1>1, <1>3, <1>7, <1>8, <1>10 DEF IsRead
<1> QED
  BY <1>11 DEF w, a

\* What is before a position of a line that starts with a quote and has no other before
\* it is in a string.
LEMMA InString ==
  ASSUME NEW q \in Quotes, q \in Text, NEW t \in Seq(Text), NEW j \in 1 .. Len(t),
         \A k \in 1 .. j - 1 : t[k] \notin Quotes
  PROVE  IsCppString(SubSeq(<<q>> \o t, 1, (1 + j) - 1))
<1> DEFINE a == SubSeq(t, 1, j - 1)
           one == <<q>>
<1>1. one \in Seq(Text) /\ Len(one) = 1 /\ Len(t) \in Nat
  OBVIOUS
<1> HIDE DEF one
<1>2. a \in Seq(Text) /\ SubSeq(one \o t, 1, Len(one) + j - 1) = one \o a
  <2>1. SplitsAt(Text, one, t, j)
    BY <1>1, PrefixOfSecond
  <2> QED
    BY <2>1 DEF SplitsAt
<1>3. HasNone(a, Quotes)
  <2>1. \A k \in 1 .. j - 1 : t[k] \in Text /\ 1 + k - 1 = k
    <3>1. \A k \in 1 .. j - 1 : k \in 1 .. Len(t)
      BY <1>1
    <3> QED
      BY <3>1, ElementOfSeq
  <2>2. /\ Len(a) = IF 1 <= j - 1 THEN j - 1 - 1 + 1 ELSE 0
        /\ \A k \in 1 .. j - 1 - 1 + 1 : a[k] = t[1 + k - 1]
    BY <2>1, SubSeqProperties
  <2> HIDE DEF a
  <2>3. DOMAIN a = 1 .. Len(a)
    BY <1>2, LenProperties
  <2>4. j - 1 - 1 + 1 = j - 1 /\ Len(a) = j - 1
    BY <2>2
  <2> QED
    BY <2>1, <2>2, <2>3, <2>4 DEF HasNone
<1> HIDE DEF a
<1>4. ~IsCppString(a) /\ IsCppString(one)
  BY <1>3, StringOfNone, StringOfOne DEF one
<1>5. IsCppString(one \o a)
  BY <1>1, <1>2, <1>4, StringJoined
<1>6. Len(one) + j - 1 = (1 + j) - 1
  BY <1>1
<1> QED
  BY <1>2, <1>5, <1>6 DEF one

\* A string that is ended leaves "str", whatever is in it.
LEMMA ReadString ==
  ASSUME NEW q \in Quotes, NEW r \in Quotes, q \in Text, r \in Text,
         NEW v \in Seq(Text), HasNone(v, Quotes)
  PROVE  IsRead((<<q>> \o v) \o <<r>>, <<"str">>)
<1> DEFINE t == v \o <<r>>
           w == <<q>> \o t
           m == Len(v)
<1>1. /\ <<q>> \in Seq(Text) /\ <<r>> \in Seq(Text) /\ Len(<<q>>) = 1 /\ Len(<<r>>) = 1
      /\ m \in Nat /\ DOMAIN v = 1 .. m
  OBVIOUS
<1>2. (<<q>> \o v) \o <<r>> = w
  BY <1>1, ConcatAssociative
<1>3. /\ t \in Seq(Text) /\ Len(t) = m + 1
      /\ (\A i \in 1 .. m : t[i] = v[i]) /\ t[m + 1] = r
  <2>1. HasParts(Text, v, <<r>>)
    BY <1>1, JoinHasParts
  <2> QED
    BY <1>1, <2>1 DEF HasParts
<1>4. /\ w \in Seq(Text) /\ Len(w) = m + 2 /\ DOMAIN w = 1 .. m + 2 /\ w[1] = q
      /\ \A i \in 1 .. m + 1 : w[1 + i] = t[i]
  <2> HIDE DEF t
  <2>1. HasParts(Text, <<q>>, t)
    BY <1>1, <1>3, JoinHasParts
  <2>2. w \in Seq(Text) /\ Len(w) = 1 + (m + 1)
        /\ w[1] = q
        /\ \A i \in 1 .. m + 1 : w[1 + i] = t[i]
    BY <1>1, <1>3, <2>1 DEF HasParts
  <2>3. DOMAIN w = 1 .. Len(w) /\ 1 + (m + 1) = m + 2
    <3> HIDE DEF w, m
    <3> QED
      BY <1>1, <2>2, LenProperties
  <2> QED
    BY <2>2, <2>3
<1>5. \A i \in 1 .. m : t[i] \notin Quotes
  BY <1>1, <1>3 DEF HasNone
<1>6. ASSUME NEW j \in 1 .. m + 1
      PROVE  IsCppString(SubSeq(w, 1, (1 + j) - 1))
  <2>1. j \in 1 .. Len(t) /\ \A k \in 1 .. j - 1 : t[k] \notin Quotes
    <3>1. \A k \in 1 .. j - 1 : k \in 1 .. m
      BY <1>1
    <3> QED
      BY <1>3, <1>5, <3>1
  <2> HIDE DEF t
  <2> QED
    BY <1>3, <2>1, InString
<1>7. ~IsCppString(SubSeq(w, 1, 1 - 1))
  <2>1. SubSeq(w, 1, 1 - 1) = <<>>
    BY SubSeqEmpty
  <2> QED
    BY <2>1, ReadNothing DEF IsRead
<1>8. ~IsCppString(w)
  <2> DEFINE a == <<q>> \o v
             last == <<r>>
  <2>1. IsCppString(<<q>>) /\ ~IsCppString(v) /\ IsCppString(last)
    BY StringOfOne, StringOfNone
  <2>2. IsCppString(a) /\ a \in Seq(Text)
    <3> DEFINE first == <<q>>
    <3>1. first \in Seq(Text) /\ IsCppString(first)
      BY <1>1, <2>1
    <3> HIDE DEF first
    <3>2. IsCppString(first \o v) /\ first \o v \in Seq(Text)
      BY <2>1, <3>1, StringJoined, ConcatProperties
    <3> QED
      BY <3>2 DEF first
  <2> HIDE DEF a
  <2>3. last \in Seq(Text)
    BY <1>1
  <2> HIDE DEF last
  <2>4. ~IsCppString(a \o last)
    BY <2>1, <2>2, <2>3, StringJoined
  <2> QED
    BY <1>2, <2>4 DEF a, last
<1> HIDE DEF t, w, m
<1>9. ASSUME NEW i \in 1 .. m + 2
      PROVE  i = 1 \/ (i - 1 \in 1 .. m + 1 /\ 1 + (i - 1) = i /\ w[i] = t[i - 1])
  BY <1>1, <1>4
<1>10. ~IsLineComment(w)
  <2> SUFFICES ASSUME NEW i \in 1 .. m + 2, w[i] = "//", ~IsCppString(SubSeq(w, 1, i - 1)) PROVE FALSE
    BY <1>4 DEF IsLineComment
  <2>1. CASE i = 1
    BY <1>4, <2>1 DEF Quotes
  <2>2. CASE i # 1
    <3>1. i - 1 \in 1 .. m + 1 /\ 1 + (i - 1) = i
      BY <1>9, <2>2
    <3>2. IsCppString(SubSeq(w, 1, (1 + (i - 1)) - 1))
      BY <1>6, <3>1
    <3> QED
      BY <3>1, <3>2
  <2> QED
    BY <2>1, <2>2
<1>11. OpensOf(w) = {1}
  <2>1. 1 \in OpensOf(w)
    BY <1>1, <1>4, <1>7 DEF OpensOf, QuotesOf
  <2>2. ASSUME NEW i \in OpensOf(w) PROVE i = 1
    <3>1. i \in 1 .. m + 2 /\ ~IsCppString(SubSeq(w, 1, i - 1))
      BY <1>4 DEF OpensOf, QuotesOf
    <3> SUFFICES ASSUME i # 1 PROVE FALSE
      OBVIOUS
    <3>2. i - 1 \in 1 .. m + 1 /\ 1 + (i - 1) = i
      BY <1>9, <3>1
    <3>3. IsCppString(SubSeq(w, 1, (1 + (i - 1)) - 1))
      BY <1>6, <3>2
    <3> QED
      BY <3>1, <3>2, <3>3
  <2> QED
    BY <2>1, <2>2
<1>12. QuotesOf(w) \ OpensOf(w) = {m + 2}
  <2>1. 1 + (m + 1) = m + 2 /\ m + 1 \in 1 .. m + 1 /\ m + 2 \in 1 .. m + 2 /\ m + 2 # 1
    BY <1>1
  <2>2. w[m + 2] = r
    BY <1>3, <1>4, <2>1
  <2>3. m + 2 \in QuotesOf(w)
    BY <1>4, <2>1, <2>2 DEF QuotesOf
  <2>4. ASSUME NEW i \in QuotesOf(w), i # 1 PROVE i = m + 2
    <3>1. i \in 1 .. m + 2 /\ w[i] \in Quotes
      BY <1>4 DEF QuotesOf
    <3>2. i - 1 \in 1 .. m + 1 /\ w[i] = t[i - 1]
      BY <1>9, <2>4, <3>1
    <3>3. i - 1 \notin 1 .. m
      BY <1>5, <3>1, <3>2
    <3> QED
      BY <1>1, <3>1, <3>2, <3>3
  <2> QED
    BY <1>11, <2>1, <2>3, <2>4
<1>13. StringsOf(w) = 1 .. m + 2
  <2>1. ASSUME NEW i \in 1 .. m + 2
        PROVE  1 <= i /\ {m + 2} \cap (1 .. i - 1) = {} /\ {m + 2} \cap (i .. m + 2) # {}
    <3>1. m + 2 \in i .. m + 2 /\ m + 2 \notin 1 .. i - 1
      BY <1>1
    <3> QED
      BY <3>1
  <2>2. StringsOf(w) = Enclosed({1}, {m + 2}, m + 2)
    BY <1>4, <1>11, <1>12 DEF StringsOf
  <2> QED
    BY <2>1, <2>2 DEF Enclosed
<1>14. /\ Collapsed(w) \in Seq(Words) /\ Len(Collapsed(w)) = m + 2
       /\ \A i \in 1 .. m + 2 : Collapsed(w)[i] = "str"
  BY <1>4, <1>13, CollapsedType
<1>15. CollapseStrings(w) = <<"str">>
  <2> DEFINE c == Collapsed(w)
  <2>1. CollapseStrings(w) = Without(c, StringsOf(w) \ OpensOf(w))
    BY <1>4, CollapseIs
  <2> HIDE DEF c
  <2>2. c \in Seq(Words) /\ Len(c) = m + 2 /\ c # <<>> /\ c[1] = "str"
    <3>1. c \in Seq(Words) /\ Len(c) = m + 2
      BY <1>14 DEF c
    <3>2. m + 2 # 0 /\ 1 \in 1 .. m + 2
      BY <1>1
    <3>3. c # <<>>
      BY <3>1, <3>2, EmptySeq
    <3> QED
      BY <1>14, <3>1, <3>2, <3>3 DEF c
  <2>3. c = <<"str">> \o Tail(c) /\ Tail(c) \in Seq(Words) /\ Len(Tail(c)) = m + 1
    <3>1. /\ Tail(c) \in Seq(Words) /\ Len(Tail(c)) = m + 1
          /\ \A i \in 1 .. m + 1 : Tail(c)[i] = c[i + 1]
      BY <1>1, <2>2, HeadTailProperties
    <3>2. <<"str">> \in Seq(Words) /\ Len(<<"str">>) = 1
      BY StrIsText DEF Text
    <3> DEFINE d == Tail(c)
               one == <<"str">>
    <3>3. one[1] = "str"
      OBVIOUS
    <3> HIDE DEF d, one
    <3>4. HasParts(Words, one, d)
      BY <3>1, <3>2, JoinHasParts DEF d, one
    <3>5. /\ one \o d \in Seq(Words) /\ Len(one \o d) = 1 + (m + 1)
          /\ (one \o d)[1] = "str" /\ \A i \in 1 .. m + 1 : (one \o d)[1 + i] = d[i]
      BY <3>1, <3>2, <3>3, <3>4 DEF HasParts, d, one
    <3>6. ASSUME NEW i \in 1 .. m + 2 PROVE c[i] = (one \o d)[i]
      <4>1. CASE i = 1
        BY <2>2, <3>5, <4>1
      <4>2. CASE i # 1
        <5>1. i - 1 \in 1 .. m + 1 /\ 1 + (i - 1) = i /\ (i - 1) + 1 = i
          BY <1>1, <4>2
        <5>2. (one \o d)[1 + (i - 1)] = d[i - 1] /\ d[i - 1] = c[(i - 1) + 1]
          BY <3>1, <3>5, <5>1 DEF d
        <5> QED
          BY <5>1, <5>2
      <4> QED
        BY <4>1, <4>2
    <3>7. 1 + (m + 1) = m + 2
      BY <1>1
    <3>8. c = one \o d
      BY <2>2, <3>5, <3>6, <3>7, SeqEqual
    <3> QED
      BY <3>1, <3>8 DEF d, one
  <2>4. StringsOf(w) \ OpensOf(w) = 2 .. 1 + (m + 1)
    BY <1>1, <1>11, <1>13
  <2> DEFINE rest == Tail(c)
             P == StringsOf(w) \ OpensOf(w)
             x == "str"
  <2>5. rest \in Seq(Words) /\ P = 2 .. 1 + Len(rest) /\ x \in Words
    BY <2>3, <2>4, StrIsText
  <2> HIDE DEF rest, P, x
  <2>6. Without(<<x>> \o rest, P) = <<x>>
    BY <2>5, WithoutRest
  <2> QED
    BY <2>1, <2>3, <2>6 DEF rest, P, x
<1>16. IsRead(<<"str">>, <<"str">>)
  <2>1. "str" \notin Quotes /\ "str" \notin {"//", "/*"}
    BY DEF Quotes
  <2> QED
    BY <2>1, StrIsText, ReadToken
<1>17. CollapseStrings(<<"str">>) = <<"str">>
  <2>1. <<"str">> \in Seq(Text) /\ HasNone(<<"str">>, Quotes)
    BY StrIsText DEF HasNone, Quotes
  <2> QED
    BY <2>1, CollapseNothing
<1>18. IsRead(w, <<"str">>)
  BY <1>4, <1>8, <1>10, <1>15, <1>16, <1>17 DEF IsRead
<1> QED
  BY <1>2, <1>18 DEF w

\* What is behind a // in code is no code.
LEMMA ReadLineComment ==
  ASSUME NEW w, NEW e, IsRead(w, e), NEW v \in Seq(Text)
  PROVE  /\ CleanseComments(CollapseStrings(w \o (<<"//">> \o v))) = e
         /\ IsLineComment(w \o (<<"//">> \o v)) /\ w \o (<<"//">> \o v) \in Seq(Text)
<1> DEFINE one == <<"//">>
           t == one \o v
           a == CollapseStrings(w)
           b == CollapseStrings(v)
           c == one \o b
<1>1. w \in Seq(Text) /\ ~IsCppString(w) /\ IsWhole(a) /\ CleanseComments(a) = e /\ e \in Seq(Words)
  BY DEF IsRead
<1>2. one \in Seq(Text) /\ one \in Seq(Words) /\ one[1] = "//" /\ Len(one) = 1 /\ DOMAIN one = {1}
  BY DEF Text, Words
<1>3. ~IsCppString(one) /\ HasNone(one, Quotes)
  <2>1. HasNone(one, Quotes)
    BY DEF HasNone, Quotes
  <2> QED
    BY <2>1, StringOfNone
<1> HIDE DEF one
<1>4. CollapseStrings(one) = one
  BY <1>2, <1>3, CollapseNothing
<1>5. CollapseStrings(t) = c /\ t \in Seq(Text)
  BY <1>2, <1>3, <1>4, CollapseJoined, ConcatProperties
<1>6. b \in Seq(Words)
  BY CollapseText
<1>7. CollapseStrings(w \o t) = a \o c /\ a \in Seq(Words)
  <2> HIDE DEF t, a, c
  <2>1. CollapseStrings(w \o t) = CollapseStrings(w) \o CollapseStrings(t) /\ CollapseStrings(w) \in Seq(Words)
    BY <1>1, <1>5, CollapseJoined
  <2> QED
    BY <1>5, <2>1 DEF a
<1> HIDE DEF a, b
<1>8. /\ c \in Seq(Words) /\ Len(c) \in Nat /\ 1 \in 1 .. Len(c) /\ c[1] = "//"
  <2>1. HasParts(Words, one, b)
    BY <1>2, <1>6, JoinHasParts
  <2>2. c \in Seq(Words) /\ Len(c) = 1 + Len(b) /\ c[1] = "//"
    BY <1>2, <2>1 DEF HasParts
  <2>3. Len(b) \in Nat
    BY <1>6, LenProperties
  <2> QED
    BY <2>2, <2>3
<1> HIDE DEF c
<1>9. CleanseComments(c) = <<>>
  <2>1. CommentPos(c) = 1
    BY <1>8, FirstComment
  <2>2. SubSeq(c, 1, CommentPos(c) - 1) = <<>> /\ CommentPos(c) # 0
    BY <2>1, SubSeqEmpty
  <2>3. ~IsCppString(<<>>)
    BY ReadNothing DEF IsRead
  <2>4. CodeOf(c) = <<>>
    BY <2>2, <2>3, Zenon DEF CodeOf
  <2> QED
    BY <2>4, CleanseIs, WithoutOfNone
<1>10. CleanseComments(a \o c) = e
  <2> HIDE DEF t
  <2>1. CleanseComments(a \o c) = CleanseComments(a) \o CleanseComments(c)
    BY <1>1, <1>7, <1>8, CleanseJoined
  <2> QED
    BY <1>1, <1>9, <2>1, ConcatEmptySeq
<1>11. IsLineComment(t)
  <2>1. IsLineComment(one)
    <3>1. SubSeq(one, 1, 1 - 1) = <<>>
      BY SubSeqEmpty
    <3>2. ~IsCppString(SubSeq(one, 1, 1 - 1))
      BY <3>1, ReadNothing DEF IsRead
    <3> QED
      BY <1>2, <3>2 DEF IsLineComment
  <2> QED
    BY <1>2, <1>3, <2>1, LineCommentJoined
<1> HIDE DEF t
<1>12. IsLineComment(w \o t) /\ w \o t \in Seq(Text)
  BY <1>1, <1>5, <1>11, LineCommentJoined, ConcatProperties
<1> QED
  BY <1>7, <1>10, <1>12 DEF t, one

----------------------------------------------------------------------------
(* One token after the other.                                               *)

\* What is left of a line so far, and whether its end is in a raw string.
RawStates == [line : Seq(Text), inside : BOOLEAN]

\* The line that CleanseRawStrings has made of what a lexer in mode m has read as e.
IsReadSoFar(c, m, e) ==
  /\ c.inside <=> m = "raw_string"
  /\ m \in {"code", "raw_string"} => IsRead(c.line, e)
  /\ m = "string" =>
       \E w, f, q, v : /\ IsRead(w, f) /\ q \in Quotes /\ q \in Text /\ v \in Seq(Text) /\ HasNone(v, Quotes)
                       /\ c.line = w \o (<<q>> \o v) /\ e = f \o <<"str">>
  /\ m = "block_comment" =>
       \E w, v : /\ IsRead(w, e) /\ v \in Seq(Text) /\ HasNone(v, Quotes) /\ HasNone(v, {"//", "*/"})
                 /\ c.line = w \o (<<"/*">> \o v)
  /\ m = "line_comment" =>
       \E w, v : IsRead(w, e) /\ v \in Seq(Text) /\ c.line = w \o (<<"//">> \o v)

\* The tokens of sequences of one or two.
LEMMA ShortText ==
  /\ \A x \in Text : <<x>> \in Seq(Text)
  /\ <<")", "quote">> \in Seq(Text) /\ <<")", "quote">> = <<")">> \o <<"quote">>
  /\ EmptyString \in Seq(Text) /\ EmptyString = (<<"quote">> \o <<>>) \o <<"quote">>
  /\ "quote" \in Text /\ "quote" \in Quotes /\ ")" \in Text /\ <<>> \in Seq(Text)
  /\ <<"/*">> \in Seq(Text) /\ <<"*/">> \in Seq(Text) /\ <<"//">> \in Seq(Text)
  /\ \A M : HasNone(<<>>, M)
  /\ ")" \notin Quotes /\ ")" \notin {"//", "/*"}
BY DEF Text, Words, EmptyString, Quotes, HasNone

\* One more token is added as it is, but for )".
Added(token) == IF token = ")raw" THEN <<")", "quote">> ELSE <<token>>

\* What is added is text.
LEMMA AddedTypes ==
  ASSUME NEW t \in Text
  PROVE  Added(t) \in Seq(Text)
BY ShortText DEF Added

\* The turn of the loop of CleanseRawStrings outside raw strings.
LEMMA TokenAdded ==
  ASSUME NEW c \in RawStates, ~c.inside, NEW t \in Text, t = "raw(" => IsLineComment(c.line)
  PROVE  /\ CleanseRawToken(c, t).line = c.line \o Added(t) /\ ~CleanseRawToken(c, t).inside
BY DEF CleanseRawToken, RawStates, Added

\* What is in a raw string is dropped, and )" ends it.
LEMMA TokenReadInRawString ==
  ASSUME NEW c \in RawStates, NEW e \in Seq(Words), NEW t \in Text, IsReadSoFar(c, "raw_string", e)
  PROVE  IsReadSoFar(CleanseRawToken(c, t), ModeAfter("raw_string", t), e \o Emitted("raw_string", t))
<1>1. c.inside /\ IsRead(c.line, e)
  BY DEF IsReadSoFar
<1>2. CleanseRawToken(c, t).line = c.line /\ (CleanseRawToken(c, t).inside <=> t # ")raw")
  BY <1>1 DEF CleanseRawToken, RawStates
<1>3. ModeAfter("raw_string", t) = IF t = ")raw" THEN "code" ELSE "raw_string"
  BY DEF ModeAfter
<1>4. Emitted("raw_string", t) = <<>>
  BY DEF Emitted
<1>5. e \o <<>> = e
  BY ConcatEmptySeq
<1> QED
  BY <1>1, <1>2, <1>3, <1>4, <1>5 DEF IsReadSoFar

\* Whatever follows // is kept behind it.
LEMMA TokenReadInLineComment ==
  ASSUME NEW c \in RawStates, NEW e \in Seq(Words), NEW t \in Text, IsReadSoFar(c, "line_comment", e)
  PROVE  IsReadSoFar(CleanseRawToken(c, t), ModeAfter("line_comment", t), e \o Emitted("line_comment", t))
<1>1. PICK w, v : IsRead(w, e) /\ v \in Seq(Text) /\ c.line = w \o (<<"//">> \o v)
  BY DEF IsReadSoFar
<1>2. ~c.inside
  BY DEF IsReadSoFar
<1>3. IsLineComment(c.line) /\ w \in Seq(Text)
  BY <1>1, ReadLineComment DEF IsRead
<1>4. CleanseRawToken(c, t).line = c.line \o Added(t) /\ ~CleanseRawToken(c, t).inside
  BY <1>2, <1>3, TokenAdded
<1>5. /\ c.line \o Added(t) = w \o (<<"//">> \o (v \o Added(t)))
      /\ v \o Added(t) \in Seq(Text)
  <2> DEFINE a == <<"//">>
             x == Added(t)
  <2>1. a \in Seq(Text) /\ x \in Seq(Text)
    BY ShortText, AddedTypes
  <2> HIDE DEF a, x
  <2>2. w \in Seq(Text) /\ v \in Seq(Text)
    BY <1>1, <1>3
  <2>3. Regroups(w, a, v, x) /\ v \o x \in Seq(Text)
    BY <2>1, <2>2, Regroup
  <2>4. c.line = w \o (a \o v)
    BY <1>1 DEF a
  <2>5. c.line \o x = w \o (a \o (v \o x))
    BY <2>3, <2>4 DEF Regroups
  <2> QED
    BY <2>3, <2>5 DEF a, x
<1>6. ModeAfter("line_comment", t) = "line_comment"
  BY DEF ModeAfter
<1>7. e \o Emitted("line_comment", t) = e
  BY ConcatEmptySeq DEF Emitted
<1> QED
  BY <1>1, <1>4, <1>5, <1>6, <1>7 DEF IsReadSoFar

\* A comment grows until */, which ends it.
LEMMA TokenReadInComment ==
  ASSUME NEW c \in RawStates, NEW e \in Seq(Words), NEW t \in Text, IsReadSoFar(c, "block_comment", e),
         t \notin Quotes, t # "//"
  PROVE  IsReadSoFar(CleanseRawToken(c, t), ModeAfter("block_comment", t), e \o Emitted("block_comment", t))
<1>1. PICK w, v : /\ IsRead(w, e) /\ v \in Seq(Text) /\ HasNone(v, Quotes) /\ HasNone(v, {"//", "*/"})
                  /\ c.line = w \o (<<"/*">> \o v)
  BY DEF IsReadSoFar
<1>2. ~c.inside /\ w \in Seq(Text)
  BY <1>1 DEF IsReadSoFar, IsRead
<1>3. t # "raw(" /\ Added(t) = <<t>>
  BY DEF Quotes, Added
<1>4. CleanseRawToken(c, t).line = c.line \o <<t>> /\ ~CleanseRawToken(c, t).inside
  BY <1>2, <1>3, TokenAdded
<1>5. /\ c.line \o <<t>> = w \o (<<"/*">> \o (v \o <<t>>))
      /\ c.line \o <<t>> = w \o ((<<"/*">> \o v) \o <<t>>)
      /\ v \o <<t>> \in Seq(Text)
  <2> DEFINE a == <<"/*">>
             x == <<t>>
  <2>1. a \in Seq(Text) /\ x \in Seq(Text)
    BY ShortText
  <2> HIDE DEF a, x
  <2>2. w \in Seq(Text) /\ v \in Seq(Text)
    BY <1>1, <1>2
  <2>3. Regroups(w, a, v, x) /\ v \o x \in Seq(Text)
    BY <2>1, <2>2, Regroup
  <2>4. c.line = w \o (a \o v)
    BY <1>1 DEF a
  <2>5. c.line \o x = w \o (a \o (v \o x)) /\ c.line \o x = w \o ((a \o v) \o x)
    BY <2>3, <2>4 DEF Regroups
  <2> QED
    BY <2>3, <2>5 DEF a, x
<1>6. ModeAfter("block_comment", t) = IF t = "*/" THEN "code" ELSE "block_comment"
  BY CommentModes
<1>7. e \o Emitted("block_comment", t) = e
  BY ConcatEmptySeq DEF Emitted
<1>8. CASE t = "*/"
  <2>1. IsRead((<<"/*">> \o v) \o <<"*/">>, <<>>)
    BY <1>1, ReadComment
  <2>2. IsRead(w \o ((<<"/*">> \o v) \o <<"*/">>), e \o <<>>)
    BY <1>1, <2>1, ReadJoined
  <2>3. e \o <<>> = e
    BY ConcatEmptySeq
  <2>4. IsRead(CleanseRawToken(c, t).line, e)
    BY <1>4, <1>5, <1>8, <2>2, <2>3
  <2> QED
    BY <1>4, <1>6, <1>7, <1>8, <2>4 DEF IsReadSoFar
<1>9. CASE t # "*/"
  <2>1. HasNone(v \o <<t>>, Quotes) /\ HasNone(v \o <<t>>, {"//", "*/"})
    <3> DEFINE x == <<t>>
               marks == {"//", "*/"}
    <3>1. x \in Seq(Text) /\ HasNone(x, Quotes) /\ HasNone(x, marks) /\ HasNone(v, marks)
      BY <1>1, <1>9, ShortText, NoneOfOne
    <3> HIDE DEF x, marks
    <3>2. HasNone(v \o x, Quotes) /\ HasNone(v \o x, marks)
      BY <1>1, <3>1, NoneJoined
    <3> QED
      BY <3>2 DEF x, marks
  <2> QED
    BY <1>1, <1>4, <1>5, <1>6, <1>7, <1>9, <2>1 DEF IsReadSoFar
<1> QED
  BY <1>8, <1>9

\* A string grows until the next quote, which ends it.
LEMMA TokenReadInString ==
  ASSUME NEW c \in RawStates, NEW e \in Seq(Words), NEW t \in Text, IsReadSoFar(c, "string", e), t # "raw("
  PROVE  IsReadSoFar(CleanseRawToken(c, t), ModeAfter("string", t), e \o Emitted("string", t))
<1>1. PICK w, f, q, v : /\ IsRead(w, f) /\ q \in Quotes /\ q \in Text /\ v \in Seq(Text) /\ HasNone(v, Quotes)
                        /\ c.line = w \o (<<q>> \o v) /\ e = f \o <<"str">>
  BY DEF IsReadSoFar
<1>2. ~c.inside /\ w \in Seq(Text)
  BY <1>1 DEF IsReadSoFar, IsRead
<1>3. CleanseRawToken(c, t).line = c.line \o Added(t) /\ ~CleanseRawToken(c, t).inside
  BY <1>2, TokenAdded
<1>4. ASSUME NEW x \in Seq(Text)
      PROVE  /\ c.line \o x = w \o (<<q>> \o (v \o x))
             /\ c.line \o x = w \o ((<<q>> \o v) \o x)
             /\ v \o x \in Seq(Text)
  <2> DEFINE a == <<q>>
  <2>1. a \in Seq(Text)
    BY <1>1, ShortText
  <2> HIDE DEF a
  <2>2. w \in Seq(Text) /\ v \in Seq(Text)
    BY <1>1, <1>2
  <2>3. Regroups(w, a, v, x) /\ v \o x \in Seq(Text)
    BY <2>1, <2>2, Regroup
  <2>4. c.line = w \o (a \o v)
    BY <1>1 DEF a
  <2>5. c.line \o x = w \o (a \o (v \o x)) /\ c.line \o x = w \o ((a \o v) \o x)
    BY <2>3, <2>4 DEF Regroups
  <2> QED
    BY <2>3, <2>5 DEF a
<1>5. ModeAfter("string", t) = IF t \in Quotes THEN "code" ELSE "string"
  BY DEF ModeAfter
<1>6. e \o Emitted("string", t) = e
  BY ConcatEmptySeq DEF Emitted
<1>7. ASSUME NEW u \in Seq(Text), HasNone(u, Quotes)
      PROVE  IsRead(w \o ((<<q>> \o u) \o <<"quote">>), e)
  <2>1. IsRead((<<q>> \o u) \o <<"quote">>, <<"str">>)
    BY <1>1, <1>7, ShortText, ReadString
  <2> QED
    BY <1>1, <2>1, ReadJoined
<1>8. CASE t = "quote"
  <2>1. Added(t) = <<"quote">> /\ <<"quote">> \in Seq(Text)
    BY <1>8, ShortText DEF Added
  <2>2. IsRead(CleanseRawToken(c, t).line, e)
    BY <1>1, <1>3, <1>4, <1>7, <2>1
  <2>3. ModeAfter("string", t) = "code"
    BY <1>5, <1>8 DEF Quotes
  <2> QED
    BY <1>3, <1>6, <2>2, <2>3 DEF IsReadSoFar
<1>9. CASE t = ")raw"
  <2> DEFINE p == <<")">>
             r == <<"quote">>
  <2>1. Added(t) = p \o r /\ p \in Seq(Text) /\ r \in Seq(Text) /\ HasNone(p, Quotes)
    BY <1>9, ShortText, NoneOfOne DEF Added
  <2>2. v \o p \in Seq(Text) /\ HasNone(v \o p, Quotes) /\ c.line \o p = w \o (<<q>> \o (v \o p))
    <3> HIDE DEF p
    <3> QED
      BY <1>1, <1>4, <2>1, NoneJoined
  <2>3. IsRead(w \o ((<<q>> \o (v \o p)) \o r), e)
    BY <1>7, <2>2
  <2>4. c.line \o Added(t) = w \o ((<<q>> \o (v \o p)) \o r)
    <3> DEFINE a == <<q>>
    <3>1. a \in Seq(Text) /\ c.line \in Seq(Text)
      BY <1>1, ShortText DEF RawStates
    <3> HIDE DEF a, p, r
    <3>2. c.line \o (p \o r) = (c.line \o p) \o r
      <4> DEFINE l == c.line
      <4>1. l \in Seq(Text) /\ p \in Seq(Text) /\ r \in Seq(Text)
        BY <2>1, <3>1
      <4> HIDE DEF l
      <4>2. l \o (p \o r) = (l \o p) \o r
        BY <4>1, ConcatAssociative, SMTT(30)
      <4> QED
        BY <4>2 DEF l
    <3>3. (w \o (a \o (v \o p))) \o r = w \o ((a \o (v \o p)) \o r)
      <4> DEFINE u == v \o p
      <4>1. w \in Seq(Text) /\ u \in Seq(Text) /\ r \in Seq(Text)
        BY <1>2, <2>1, <2>2
      <4> HIDE DEF u
      <4>2. Regroups(w, a, u, r)
        BY <3>1, <4>1, Regroup
      <4> QED
        BY <4>2 DEF u, Regroups
    <3>4. c.line \o p = w \o (a \o (v \o p))
      BY <2>2 DEF a
    <3>5. c.line \o Added(t) = c.line \o (p \o r)
      BY <2>1
    <3>6. c.line \o Added(t) = w \o ((a \o (v \o p)) \o r)
      BY <3>2, <3>3, <3>4, <3>5
    <3> QED
      BY <3>6 DEF a
  <2>5. ModeAfter("string", t) = "code"
    BY <1>5, <1>9 DEF Quotes
  <2> QED
    BY <1>3, <1>6, <2>3, <2>4, <2>5 DEF IsReadSoFar
<1>10. CASE t \notin Quotes
  <2>1. Added(t) = <<t>>
    BY <1>10 DEF Added, Quotes
  <2> DEFINE x == <<t>>
  <2>2. x \in Seq(Text) /\ HasNone(x, Quotes)
    BY <1>10, ShortText, NoneOfOne
  <2>3. v \o x \in Seq(Text) /\ HasNone(v \o x, Quotes) /\ c.line \o x = w \o (<<q>> \o (v \o x))
    <3> HIDE DEF x
    <3> QED
      BY <1>1, <1>4, <2>2, NoneJoined
  <2> QED
    BY <1>1, <1>3, <1>5, <1>6, <1>10, <2>1, <2>3 DEF IsReadSoFar
<1> QED
  BY <1>8, <1>9, <1>10 DEF Quotes

\* A token of code, or the start of a string, a raw string or a comment.
LEMMA TokenReadInCode ==
  ASSUME NEW c \in RawStates, NEW e \in Seq(Words), NEW t \in Text, IsReadSoFar(c, "code", e)
  PROVE  IsReadSoFar(CleanseRawToken(c, t), ModeAfter("code", t), e \o Emitted("code", t))
<1> DEFINE w == c.line
           d == CleanseRawToken(c, t)
<1>1. ~c.inside /\ IsRead(w, e) /\ w \in Seq(Text) /\ ~IsLineComment(w)
  BY DEF IsReadSoFar, IsRead
<1>2. t # "raw(" => d.line = w \o Added(t) /\ ~d.inside
  BY <1>1, TokenAdded
<1>3. t = "raw(" => d.line = w \o EmptyString /\ d.inside
  BY <1>1 DEF CleanseRawToken, RawStates
<1>4. e \o <<>> = e
  BY ConcatEmptySeq
<1> HIDE DEF d
<1>5. CASE t = "raw("
  <2>1. ModeAfter("code", t) = "raw_string" /\ Emitted("code", t) = <<"str">>
    <3>1. ModeAfter("code", "raw(") = "raw_string"
      BY DEF ModeAfter, Quotes
    <3>2. Emitted("code", "raw(") = <<"str">>
      BY DEF Emitted, Quotes
    <3> QED
      BY <1>5, <3>1, <3>2
  <2>2. IsRead(EmptyString, <<"str">>)
    <3>1. IsRead((<<"quote">> \o <<>>) \o <<"quote">>, <<"str">>)
      BY ShortText, ReadString
    <3> QED
      BY <3>1, ShortText
  <2>3. IsRead(w \o EmptyString, e \o <<"str">>)
    BY <1>1, <2>2, ReadJoined
  <2> QED
    BY <1>3, <1>5, <2>1, <2>3 DEF IsReadSoFar, d
<1>6. CASE t = ")raw"
  <2> DEFINE p == <<")">>
             r == <<"quote">>
             s == <<"str">>
             g == <<")", "str">>
  <2>1. ModeAfter("code", t) = "string" /\ Emitted("code", t) = g
    BY <1>6 DEF ModeAfter, Emitted, Quotes
  <2>2. d.line = w \o (p \o r) /\ ~d.inside
    BY <1>2, <1>6, ShortText DEF Added
  <2>3. IsRead(p, p) /\ p \in Seq(Text) /\ r \in Seq(Text) /\ p \in Seq(Words)
    BY ShortText, ReadToken, TextIsWords
  <2>4. g = p \o s /\ s \in Seq(Words)
    BY StrIsText
  <2>5. r = r \o <<>>
    BY <2>3, ConcatEmptySeq
  <2> HIDE DEF p, s, g
  <2>6. IsRead(w \o p, e \o p)
    BY <1>1, <2>3, ReadJoined
  <2>7. w \o (p \o r) = (w \o p) \o r
    <3> HIDE DEF w, r
    <3> QED
      BY <1>1, <2>3, ConcatAssociative, SMTT(30)
  <2>8. e \o (p \o s) = (e \o p) \o s
    BY <2>3, <2>4, ConcatAssociative
  <2>9. d.line = (w \o p) \o (r \o <<>>) /\ e \o g = (e \o p) \o s
    BY <2>2, <2>4, <2>5, <2>7, <2>8
  <2>10. \E w1, f, q, v : /\ IsRead(w1, f) /\ q \in Quotes /\ q \in Text /\ v \in Seq(Text) /\ HasNone(v, Quotes)
                          /\ d.line = w1 \o (<<q>> \o v) /\ e \o g = f \o <<"str">>
    BY <2>6, <2>9, ShortText DEF s
  <2> QED
    BY <2>1, <2>2, <2>10 DEF IsReadSoFar, d
<1>7. CASE t = "quote"
  <2> DEFINE r == <<"quote">>
  <2>1. ModeAfter("code", t) = "string" /\ Emitted("code", t) = <<"str">>
    BY <1>7 DEF ModeAfter, Emitted, Quotes
  <2>2. d.line = w \o r /\ ~d.inside /\ r \in Seq(Text)
    BY <1>2, <1>7, ShortText DEF Added
  <2>3. r = r \o <<>>
    BY <2>2, ConcatEmptySeq
  <2>4. d.line = w \o (r \o <<>>)
    BY <2>2, <2>3
  <2>5. \E w1, f, q, v : /\ IsRead(w1, f) /\ q \in Quotes /\ q \in Text /\ v \in Seq(Text) /\ HasNone(v, Quotes)
                         /\ d.line = w1 \o (<<q>> \o v) /\ e \o <<"str">> = f \o <<"str">>
    BY <1>1, <2>4, ShortText
  <2> QED
    BY <2>1, <2>2, <2>5 DEF IsReadSoFar, d
<1>8. CASE t \in {"/*", "//"}
  <2> DEFINE r == <<t>>
  <2>1. Emitted("code", t) = <<>> /\ Added(t) = r
    BY <1>8 DEF Emitted, Added
  <2>2. ModeAfter("code", t) = IF t = "/*" THEN "block_comment" ELSE "line_comment"
    <3>1. ModeAfter("code", "/*") = "block_comment"
      BY DEF ModeAfter, Quotes
    <3>2. ModeAfter("code", "//") = "line_comment"
      BY DEF ModeAfter, Quotes
    <3> QED
      BY <1>8, <3>1, <3>2
  <2>3. d.line = w \o r /\ ~d.inside /\ r \in Seq(Text)
    BY <1>2, <1>8, <2>1, ShortText
  <2>4. r = r \o <<>>
    BY <2>3, ConcatEmptySeq
  <2>5. d.line = w \o (r \o <<>>)
    BY <2>3, <2>4
  <2>6. CASE t = "/*"
    <3>1. \E w1, v : /\ IsRead(w1, e) /\ v \in Seq(Text) /\ HasNone(v, Quotes) /\ HasNone(v, {"//", "*/"})
                     /\ d.line = w1 \o (<<"/*">> \o v)
      BY <1>1, <2>5, <2>6, ShortText
    <3> QED
      BY <1>4, <2>1, <2>2, <2>3, <2>6, <3>1 DEF IsReadSoFar, d
  <2>7. CASE t = "//"
    <3>1. \E w1, v : IsRead(w1, e) /\ v \in Seq(Text) /\ d.line = w1 \o (<<"//">> \o v)
      BY <1>1, <2>5, <2>7, ShortText
    <3> QED
      BY <1>4, <2>1, <2>2, <2>3, <2>7, <3>1 DEF IsReadSoFar, d
  <2> QED
    BY <1>8, <2>6, <2>7
<1>9. CASE t \notin Quotes /\ t \notin {"/*", "//"}
  <2>1. ModeAfter("code", t) = "code" /\ Emitted("code", t) = <<t>> /\ Added(t) = <<t>> /\ t # "raw("
    BY <1>9 DEF ModeAfter, Emitted, Added, Quotes
  <2>2. IsRead(w \o <<t>>, e \o <<t>>)
    BY <1>1, <1>9, ReadToken, ReadJoined
  <2> QED
    BY <1>2, <2>1, <2>2 DEF IsReadSoFar, d
<1> QED
  BY <1>5, <1>6, <1>7, <1>8, <1>9 DEF Quotes

\* The tokens that the passes can tell apart.
IsTold(m, t) ==
  /\ m = "string" => t # "raw("
  /\ m = "block_comment" => t \notin Quotes \cup {"//"}

\* One turn of the loop of CleanseRawStrings.
LEMMA TokenRead ==
  ASSUME NEW c \in RawStates, NEW m \in LexModes, NEW e \in Seq(Words), NEW t \in Text,
         IsReadSoFar(c, m, e), IsTold(m, t)
  PROVE  IsReadSoFar(CleanseRawToken(c, t), ModeAfter(m, t), e \o Emitted(m, t))
<1>1. CASE m = "code"
  BY <1>1, TokenReadInCode
<1>2. CASE m = "raw_string"
  BY <1>2, TokenReadInRawString
<1>3. CASE m = "string"
  BY <1>3, TokenReadInString DEF IsTold
<1>4. CASE m = "block_comment"
  BY <1>4, TokenReadInComment DEF IsTold
<1>5. CASE m = "line_comment"
  BY <1>5, TokenReadInLineComment
<1> QED
  BY <1>1, <1>2, <1>3, <1>4, <1>5 DEF LexModes

\* What is left of a line is text, and what a lexer makes of a token is words.
LEMMA TokenTypes ==
  ASSUME NEW c \in RawStates, NEW m, NEW t \in Text
  PROVE  CleanseRawToken(c, t) \in RawStates /\ Emitted(m, t) \in Seq(Words)
<1>1. c.line \in Seq(Text) /\ c.inside \in BOOLEAN
  BY DEF RawStates
<1>2. c.line \o EmptyString \in Seq(Text) /\ c.line \o Added(t) \in Seq(Text)
  BY <1>1, ShortText, AddedTypes, ConcatProperties
<1>3. CleanseRawToken(c, t) \in RawStates
  <2>1. CASE c.inside
    BY <1>1, <2>1 DEF CleanseRawToken, RawStates
  <2>2. CASE ~c.inside
    BY <1>1, <1>2, <2>2 DEF CleanseRawToken, RawStates, Added
  <2> QED
    BY <2>1, <2>2
<1>4. Emitted(m, t) \in Seq(Words)
  <2>1. <<>> \in Seq(Words) /\ <<t>> \in Seq(Words) /\ <<"str">> \in Seq(Words) /\ <<")", "str">> \in Seq(Words)
    BY StrIsText DEF Text, Words
  <2> QED
    BY <2>1 DEF Emitted
<1> QED
  BY <1>3, <1>4

\* What a lexer has emitted by the end of a line becomes its code, wherever the line
\* ends but in a string or a comment that goes on.
LEMMA LineRead ==
  ASSUME NEW c, NEW m, NEW e, IsReadSoFar(c, m, e), m \in {"code", "raw_string", "line_comment"}
  PROVE  CleanseComments(CollapseStrings(c.line)) = e
<1>1. CASE m # "line_comment"
  BY <1>1 DEF IsReadSoFar, IsRead
<1>2. CASE m = "line_comment"
  <2>1. PICK w, v : IsRead(w, e) /\ v \in Seq(Text) /\ c.line = w \o (<<"//">> \o v)
    BY <1>2 DEF IsReadSoFar
  <2> QED
    BY <2>1, ReadLineComment
<1> QED
  BY <1>1, <1>2

----------------------------------------------------------------------------
(* The loops of CleanseRawStrings.                                          *)

\* Before the first token of a line.
RawStart(inside) == [line |-> IF inside THEN EmptyString ELSE <<>>, inside |-> inside]

\* c is what is left of line after each of its tokens.
CleansesRaw(c, line, inside) ==
  /\ c \in [0 .. Len(line) -> RawStates] /\ c[0] = RawStart(inside)
  /\ \A i \in 1 .. Len(line) : c[i] = CleanseRawToken(c[i - 1], line[i])

\* The line is read token by token.
LEMMA RawLineIsCleansed ==
  ASSUME NEW line \in Seq(Text), NEW inside \in BOOLEAN
  PROVE  \E c : CleansesRaw(c, line, inside) /\ CleanseRawLine(line, inside) = c[Len(line)]
<1> DEFINE n == Len(line)
           start == RawStart(inside)
           step == [p \in RawStates \X (1 .. n) |-> CleanseRawToken(p[1], line[p[2]])]
           Is(g) == g = [i \in 0 .. Len(line) |->
                           IF i = 0 THEN [line |-> IF inside THEN EmptyString ELSE <<>>, inside |-> inside]
                           ELSE CleanseRawToken(g[i - 1], line[i])]
           f == CHOOSE g : Is(g)
<1>1. n \in Nat /\ \A i \in 1 .. n : line[i] \in Text
  OBVIOUS
<1>2. start \in RawStates
  BY ShortText DEF RawStart, RawStates
<1>3. step \in [RawStates \X (1 .. n) -> RawStates]
  BY <1>1, TokenTypes
<1>4. PICK g : IsRecursion(g, RawStates, start, n, step)
  <2> HIDE DEF n, step, start
  <2> QED
    BY <1>1, <1>2, <1>3, IsRecursionExists
<1>5. g \in [0 .. n -> RawStates] /\ g[0] = start
  BY <1>4 DEF IsRecursion
<1>6. ASSUME NEW i \in 1 .. n
      PROVE  i - 1 \in 0 .. n /\ g[i] = CleanseRawToken(g[i - 1], line[i])
  <2>1. i - 1 \in 0 .. n /\ <<g[i - 1], i>> \in RawStates \X (1 .. n)
    BY <1>1, <1>5
  <2>2. g[i] = step[<<g[i - 1], i>>]
    BY <1>4 DEF IsRecursion
  <2> QED
    BY <2>1, <2>2
<1>7. Is(g)
  BY <1>5, <1>6 DEF RawStart
<1>8. Is(f)
  BY <1>7
<1>9. CleanseRawLine(line, inside) = f[n]
  BY DEF CleanseRawLine
<1> HIDE DEF f
<1>10. DOMAIN f = 0 .. n /\ f[0] = start
  BY <1>1, <1>8 DEF RawStart
<1>11. \A i \in 1 .. n : f[i] = CleanseRawToken(f[i - 1], line[i])
  BY <1>1, <1>8
<1>12. f = [i \in 0 .. n |-> f[i]]
  BY <1>8, <1>10
<1>13. ASSUME NEW i \in 0 .. n - 1, f[i] \in RawStates
       PROVE  f[i + 1] \in RawStates
  <2>1. i + 1 \in 1 .. n /\ (i + 1) - 1 = i
    BY <1>1
  <2>2. f[i + 1] = CleanseRawToken(f[i], line[i + 1])
    BY <1>11, <2>1
  <2> QED
    BY <1>1, <1>13, <2>1, <2>2, TokenTypes
<1> HIDE DEF start, n
<1>14. f \in [0 .. n -> RawStates]
  BY <1>1, <1>2, <1>10, <1>12, <1>13, StepTypes
<1> QED
  BY <1>9, <1>10, <1>11, <1>14 DEF CleansesRaw, start, n

\* c is what is left of each line of text, and whether it ends in a raw string.
CleansesLines(c, text) ==
  /\ c \in [0 .. Len(text) -> RawStates] /\ ~c[0].inside
  /\ \A l \in 1 .. Len(text) : c[l] = CleanseRawLine(text[l], c[l - 1].inside)

\* What is left of a line is a line and whether it ends in a raw string.
LEMMA RawLineTypes ==
  ASSUME NEW line \in Seq(Text), NEW inside \in BOOLEAN
  PROVE  CleanseRawLine(line, inside) \in RawStates
<1>1. PICK c : CleansesRaw(c, line, inside) /\ CleanseRawLine(line, inside) = c[Len(line)]
  BY RawLineIsCleansed
<1>2. Len(line) \in 0 .. Len(line)
  OBVIOUS
<1> QED
  BY <1>1, <1>2 DEF CleansesRaw

\* The file is read line by line.
LEMMA RawStringsAreCleansed ==
  ASSUME NEW text \in Seq(Seq(Text))
  PROVE  \E c : CleansesLines(c, text) /\ CleanseRawStrings(text) = [i \in DOMAIN text |-> c[i].line]
<1> DEFINE n == Len(text)
           start == [line |-> <<>>, inside |-> FALSE]
           step == [p \in RawStates \X (1 .. n) |-> CleanseRawLine(text[p[2]], p[1].inside)]
           Is(g) == g = [i \in 0 .. Len(text) |->
                           IF i = 0 THEN [line |-> <<>>, inside |-> FALSE]
                           ELSE CleanseRawLine(text[i], g[i - 1].inside)]
           f == CHOOSE g : Is(g)
<1>1. n \in Nat /\ \A i \in 1 .. n : text[i] \in Seq(Text)
  OBVIOUS
<1>2. start \in RawStates
  BY ShortText DEF RawStates
<1>3. \A s \in RawStates : s.inside \in BOOLEAN
  BY DEF RawStates
<1>4. step \in [RawStates \X (1 .. n) -> RawStates]
  BY <1>1, <1>3, RawLineTypes
<1>5. PICK g : IsRecursion(g, RawStates, start, n, step)
  <2> HIDE DEF n, step, start
  <2> QED
    BY <1>1, <1>2, <1>4, IsRecursionExists
<1>6. g \in [0 .. n -> RawStates] /\ g[0] = start
  BY <1>5 DEF IsRecursion
<1>7. ASSUME NEW i \in 1 .. n
      PROVE  i - 1 \in 0 .. n /\ g[i] = CleanseRawLine(text[i], g[i - 1].inside)
  <2>1. i - 1 \in 0 .. n /\ <<g[i - 1], i>> \in RawStates \X (1 .. n)
    <3> HIDE DEF n, start
    <3>1. i - 1 \in 0 .. n
      BY <1>1
    <3> QED
      BY <1>6, <3>1
  <2>2. g[i] = step[<<g[i - 1], i>>]
    BY <1>5 DEF IsRecursion
  <2> QED
    BY <2>1, <2>2
<1>8. Is(g)
  BY <1>6, <1>7
<1>9. Is(f)
  BY <1>8
<1>10. CleanseRawStrings(text) = [i \in DOMAIN text |-> f[i].line]
  BY DEF CleanseRawStrings
<1> HIDE DEF f
<1>11. DOMAIN f = 0 .. n /\ f[0] = start
  BY <1>1, <1>9
<1>12. ASSUME NEW i \in 1 .. n
       PROVE  f[i] = CleanseRawLine(text[i], f[i - 1].inside)
  <2>1. i \in 0 .. Len(text) /\ i # 0
    BY <1>1
  <2> HIDE DEF n
  <2> QED
    BY <1>9, <2>1
<1>13. f = [i \in 0 .. n |-> f[i]]
  BY <1>9, <1>11
<1>14. ASSUME NEW i \in 0 .. n - 1, f[i] \in RawStates
       PROVE  f[i + 1] \in RawStates
  <2>1. i + 1 \in 1 .. n /\ (i + 1) - 1 = i
    BY <1>1
  <2>2. f[i + 1] = CleanseRawLine(text[i + 1], f[i].inside)
    BY <1>12, <2>1
  <2> QED
    BY <1>1, <1>3, <1>14, <2>1, <2>2, RawLineTypes
<1>15. ~f[0].inside
  BY <1>11
<1> HIDE DEF start, n
<1>16. f \in [0 .. n -> RawStates]
  BY <1>1, <1>2, <1>11, <1>13, <1>14, StepTypes
<1> QED
  BY <1>10, <1>12, <1>15, <1>16 DEF CleansesLines, n

----------------------------------------------------------------------------
(* What the passes leave of a line.                                         *)

\* What a lexer in the modes m emits for the tokens of line.
Emissions(m, line) == [i \in DOMAIN line |-> Emitted(m[i - 1], line[i])]

\* The token for the rest of a raw string of an earlier line.
Lead(mode) == IF mode = "raw_string" THEN <<"str">> ELSE <<>>

\* What is left of a line is, token by token, what the lexer has emitted.
LEMMA LineReadSoFar ==
  ASSUME NEW line \in Seq(Text), NEW m, Lexes(m, line), m[0] \in {"code", "raw_string"},
         NEW inside \in BOOLEAN, inside <=> m[0] = "raw_string",
         \A i \in 1 .. Len(line) : IsTold(m[i - 1], line[i]),
         NEW c, CleansesRaw(c, line, inside)
  PROVE  IsReadSoFar(c[Len(line)], m[Len(line)], LexedCode(m, line)) /\ LexedCode(m, line) \in Seq(Words)
<1> DEFINE n == Len(line)
           E == Emissions(m, line)
           lead == Lead(m[0])
           Code(k) == lead \o Flat(E, k)
<1>1. n \in Nat /\ DOMAIN line = 1 .. n /\ \A i \in 1 .. n : line[i] \in Text
  OBVIOUS
<1>2. /\ m \in [0 .. n -> LexModes] /\ \A i \in 1 .. n : m[i] = ModeAfter(m[i - 1], line[i])
  BY DEF Lexes
<1>3. /\ c \in [0 .. n -> RawStates] /\ c[0] = RawStart(inside)
      /\ \A i \in 1 .. n : c[i] = CleanseRawToken(c[i - 1], line[i])
  BY DEF CleansesRaw
<1>4. lead \in Seq(Words)
  BY StrIsText DEF Lead
<1>5. E \in Seq(Seq(Words)) /\ Len(E) = n /\ \A i \in 1 .. n : E[i] = Emitted(m[i - 1], line[i])
  <2>1. \A i \in 1 .. n : Emitted(m[i - 1], line[i]) \in Seq(Words)
    <3>1. RawStart(TRUE) \in RawStates
      BY ShortText DEF RawStart, RawStates
    <3> QED
      BY <1>1, <3>1, TokenTypes
  <2> QED
    BY <1>1, <2>1 DEF Emissions
<1>6. LexedCode(m, line) = lead \o FlattenSeq(E)
  BY DEF LexedCode, Lead, Emissions
<1> HIDE DEF n, E, lead
<1>7. Flat(E, 0) = <<>> /\ Flat(E, n) = FlattenSeq(E)
  BY <1>5, FlatEnds
<1> DEFINE T == {k \in 0 .. n : Code(k) \in Seq(Words) /\ IsReadSoFar(c[k], m[k], Code(k))}
<1>8. 0 \in T
  <2>1. lead \o <<>> = lead
    BY <1>4, ConcatEmptySeq
  <2>2. Code(0) = lead
    BY <1>7, <2>1
  <2>3. IsReadSoFar(RawStart(inside), m[0], lead)
    <3>1. CASE m[0] = "code"
      BY <3>1, ReadNothing DEF RawStart, IsReadSoFar, lead, Lead
    <3>2. CASE m[0] = "raw_string"
      <4>1. IsRead((<<"quote">> \o <<>>) \o <<"quote">>, <<"str">>)
        BY ShortText, ReadString
      <4>2. IsRead(EmptyString, <<"str">>)
        BY <4>1, ShortText
      <4> QED
        BY <3>2, <4>2 DEF RawStart, IsReadSoFar, lead, Lead
    <3> QED
      BY <3>1, <3>2
  <2> HIDE DEF Code
  <2>4. Code(0) \in Seq(Words) /\ IsReadSoFar(c[0], m[0], Code(0))
    BY <1>3, <1>4, <2>2, <2>3
  <2> QED
    BY <1>1, <2>4
<1>9. ASSUME NEW k \in 0 .. n - 1, k \in T
      PROVE  k + 1 \in T
  <2>1. k + 1 \in 1 .. n /\ (k + 1) - 1 = k /\ k + 1 \in 0 .. n /\ k \in 0 .. n
    BY <1>1
  <2>2. Code(k) \in Seq(Words) /\ IsReadSoFar(c[k], m[k], Code(k))
    BY <1>9
  <2>3. Flat(E, k) \in Seq(Words) /\ E[k + 1] \in Seq(Words) /\ Flat(E, k + 1) = Flat(E, k) \o E[k + 1]
    BY <1>5, <2>1, FlatGrows
  <2>4. Code(k + 1) = Code(k) \o E[k + 1]
    <3> DEFINE f == Flat(E, k)
               g == E[k + 1]
    <3>1. f \in Seq(Words) /\ g \in Seq(Words) /\ Flat(E, k + 1) = f \o g
      BY <2>3
    <3> HIDE DEF f, g
    <3>2. lead \o (f \o g) = (lead \o f) \o g
      <4>1. f \in Seq(Words) /\ g \in Seq(Words)
        BY <3>1
      <4> HIDE DEF Code, T
      <4> QED
        BY <1>4, <4>1, ConcatAssociative, SMTT(30)
    <3>3. Code(k + 1) = (lead \o f) \o g
      BY <3>1, <3>2
    <3> QED
      BY <3>3 DEF f, g
  <2>5. /\ c[k + 1] = CleanseRawToken(c[k], line[k + 1])
        /\ m[k + 1] = ModeAfter(m[k], line[k + 1])
        /\ E[k + 1] = Emitted(m[k], line[k + 1])
    BY <1>2, <1>3, <1>5, <2>1
  <2>6. /\ c[k] \in RawStates /\ m[k] \in LexModes /\ line[k + 1] \in Text
        /\ IsTold(m[k], line[k + 1])
    BY <1>1, <1>2, <1>3, <2>1 DEF n
  <2>7. Code(k) \o E[k + 1] \in Seq(Words)
    BY <2>2, <2>3, ConcatProperties
  <2> HIDE DEF Code
  <2>8. IsReadSoFar(c[k + 1], m[k + 1], Code(k) \o E[k + 1])
    BY <2>2, <2>5, <2>6, TokenRead
  <2> QED
    BY <2>1, <2>4, <2>7, <2>8
<1> HIDE DEF T
<1>10. \A k \in 0 .. n : k \in T
  BY <1>1, <1>8, <1>9, UpTo
<1>11. n \in T
  BY <1>1, <1>10
<1> QED
  BY <1>6, <1>7, <1>11 DEF T, n

----------------------------------------------------------------------------
(* What the passes leave of a file.                                         *)

\* The files the passes are made for, as text.
IsSupportedFile ==
  file \in Seq(Seq(STRING)) /\ IsSupported(Modes) /\ ~HasInclude /\ ~EndsInComment

\* The lines of comments that RemoveMultiLineComments finds are those a lexer finds.
LEMMA MultiLineCommentsAreFound ==
  ASSUME IsSupportedFile, NEW l \in 1 .. Len(file)
  PROVE  l \in MultiLineComments(file) <=> IsCommentLine(Modes[l], file[l])
<1> DEFINE n == Len(file)
           S == CommentStarts(file)
           E == CommentEnds(file)
           Open(k) == \E open \in S : open <= k /\ E \cap (open .. k - 1) = {}
<1>1. n \in Nat /\ S \subseteq 1 .. n /\ file \in Seq(Seq(STRING)) /\ IsSupported(Modes) /\ ~EndsInComment
  BY DEF CommentStarts, IsSupportedFile
<1>2. l - 1 \in 0 .. n /\ (l - 1) + 1 = l /\ l \in 1 .. n
  BY <1>1
<1>3. OpenAfter(l - 1) <=> StartOf(l) = "block_comment"
  BY <1>1, <1>2, OpenComments
<1>4. Open(l) <=> OpenAfter(l - 1) \/ l \in S
  <2>1. ASSUME Open(l) PROVE OpenAfter(l - 1) \/ l \in S
    <3>1. PICK open \in S : open <= l /\ E \cap (open .. l - 1) = {}
      BY <2>1
    <3>2. CASE open = l
      BY <3>2
    <3>3. CASE open # l
      <4>1. open <= l - 1
        BY <1>1, <3>1, <3>3
      <4> QED
        BY <3>1, <4>1 DEF OpenAfter
    <3> QED
      BY <3>2, <3>3
  <2>2. ASSUME OpenAfter(l - 1) PROVE Open(l)
    <3>1. PICK open \in S : open <= l - 1 /\ E \cap (open .. l - 1) = {}
      BY <2>2 DEF OpenAfter
    <3>2. open <= l
      BY <1>1, <3>1
    <3> QED
      BY <3>1, <3>2
  <2>3. ASSUME l \in S PROVE Open(l)
    <3>1. l .. l - 1 = {} /\ l <= l
      BY <1>1
    <3> QED
      BY <2>3, <3>1
  <2> QED
    BY <2>1, <2>2, <2>3
<1>5. StartOf(l) # "block_comment" => (l \in S <=> EndOf(l) = "block_comment")
  BY <1>1, CommentLines
<1>6. Open(l) <=> StartOf(l) = "block_comment" \/ EndOf(l) = "block_comment"
                  \/ (StartOf(l) = "block_comment" /\ l \in S)
  BY <1>3, <1>4, <1>5
<1>7. Open(l) => E \cap (l .. n) # {}
  <2> SUFFICES ASSUME Open(l), E \cap (l .. n) = {} PROVE FALSE
    OBVIOUS
  <2>1. PICK open \in S : open <= l /\ E \cap (open .. l - 1) = {}
    OBVIOUS
  <2>2. open .. n = (open .. l - 1) \cup (l .. n) /\ open <= n
    BY <1>1, <2>1
  <2>3. E \cap (open .. n) = {}
    <3> HIDE DEF E
    <3> QED
      BY <2>1, <2>2
  <2>4. OpenAfter(n)
    BY <2>2, <2>3 DEF OpenAfter
  <2>5. n \in 0 .. n
    BY <1>1
  <2>6. StartOf(n + 1) = "block_comment"
    BY <1>1, <2>4, <2>5, OpenComments
  <2> QED
    BY <1>1, <2>6 DEF EndsInComment, StartOf
<1>8. l \in MultiLineComments(file) <=> Open(l) /\ E \cap (l .. n) # {}
  BY <1>2 DEF MultiLineComments, Enclosed
<1>9. Modes[l][0] = StartOf(l)
  BY <1>1, SupportedLine
<1>10. IsCommentLine(Modes[l], file[l]) <=> StartOf(l) = "block_comment" \/ EndOf(l) = "block_comment"
  BY <1>9 DEF IsCommentLine, EndOf
<1> HIDE DEF Open
<1> QED
  BY <1>6, <1>7, <1>8, <1>10

\* No code is on the lines of a comment of several lines, and they do not go on in a raw
\* string.
LEMMA CommentLineIsSilent ==
  ASSUME IsSupportedFile, NEW l \in 1 .. Len(file), IsCommentLine(Modes[l], file[l])
  PROVE  /\ LexedCode(Modes[l], file[l]) = <<>>
         /\ StartOf(l) # "raw_string" /\ StartOf(l + 1) # "raw_string"
<1> DEFINE m == Modes[l]
           line == file[l]
           n == Len(line)
           E == Emissions(m, line)
           Silent == (\A i \in 1 .. n : E[i] = <<>>) /\ m[0] # "raw_string" /\ StartOf(l + 1) # "raw_string"
<1>1. file \in Seq(Seq(STRING)) /\ IsSupported(Modes) /\ line \in Seq(STRING) /\ n \in Nat
  BY DEF IsSupportedFile
<1>2. /\ Lexes(m, line) /\ IsSupportedLine(m, line) /\ m[0] = StartOf(l)
      /\ StartOf(l + 1) = NextLine(m[n])
  BY <1>1, SupportedLine DEF EndOf
<1>3. StartOf(l) \in {"code", "raw_string", "block_comment"}
  <2>1. l \in 1 .. Len(file) + 1
    BY <1>1
  <2> QED
    BY <1>1, <2>1, LineStarts
<1>4. m[0] = "block_comment" \/ m[n] = "block_comment"
  BY DEF IsCommentLine
<1>5. DOMAIN line = 1 .. n /\ Len(E) = n /\ \A i \in 1 .. n : E[i] = Emitted(m[i - 1], line[i])
  BY <1>1 DEF Emissions
<1>6. LexedCode(m, line) = Lead(m[0]) \o FlattenSeq(E)
  BY DEF LexedCode, Lead, Emissions
<1> HIDE DEF m, line, n, E
<1>7. ASSUME m[0] = "block_comment" PROVE Silent
  <2>1. \A i \in DOMAIN line : m[i] = "code" => i = Len(line)
    BY <1>2, <1>7 DEF IsSupportedLine
  <2>2. m[n] \in {"code", "block_comment"} /\ \A i \in 0 .. n - 1 : m[i] = "block_comment"
    BY <1>1, <1>2, <1>7, <2>1, LineInComment DEF n
  <2>3. \A i \in 1 .. n : E[i] = <<>>
    <3> SUFFICES ASSUME NEW i \in 1 .. n PROVE E[i] = <<>>
      OBVIOUS
    <3>1. i - 1 \in 0 .. n - 1
      BY <1>1
    <3>2. m[i - 1] = "block_comment"
      BY <2>2, <3>1
    <3> QED
      BY <1>5, <3>2 DEF Emitted
  <2> QED
    BY <1>2, <1>7, <2>2, <2>3 DEF NextLine
<1>8. ASSUME m[0] # "block_comment" PROVE Silent
  <2>1. StartsMultiLineComment(line) /\ m[0] = "code" /\ m[n] = "block_comment"
    BY <1>2, <1>3, <1>4, <1>8 DEF IsSupportedLine, n
  <2>2. \A i \in 1 .. n : m[i] = "block_comment"
    BY <1>1, <1>2, <2>1, LineStartsComment DEF n
  <2>3. \A i \in 1 .. n : E[i] = <<>>
    <3> SUFFICES ASSUME NEW i \in 1 .. n PROVE E[i] = <<>>
      OBVIOUS
    <3>1. CASE i = 1
      <4>1. line[1] = "/*"
        BY <2>1 DEF StartsMultiLineComment
      <4> QED
        BY <1>5, <3>1, <4>1 DEF Emitted
    <3>2. CASE i # 1
      <4>1. i - 1 \in 1 .. n
        BY <1>1, <3>2
      <4>2. m[i - 1] = "block_comment"
        BY <2>2, <4>1
      <4> QED
        BY <1>5, <4>2 DEF Emitted
    <3> QED
      BY <3>1, <3>2
  <2> QED
    BY <1>2, <2>1, <2>3 DEF NextLine
<1>9. Silent
  BY <1>7, <1>8
<1>10. FlattenSeq(E) = <<>>
  <2>1. CASE n = 0
    BY <1>5, <2>1 DEF FlattenSeq
  <2>2. CASE n # 0
    BY <1>1, <1>5, <1>9, <2>2, FlattenNothing
  <2> QED
    BY <2>1, <2>2
<1>11. Lead(m[0]) = <<>>
  BY <1>9 DEF Lead
<1>12. LexedCode(m, line) = <<>>
  BY <1>6, <1>10, <1>11, ConcatEmptySeq, EmptySeq
<1> QED
  BY <1>2, <1>9, <1>12 DEF m, line

\* A line that RemoveMultiLineComments has replaced is empty after the passes.
LEMMA ReplacedLineRead ==
  LET line == <<"/*", "*/">>
  IN  /\ ~CleanseRawLine(line, FALSE).inside
      /\ CleanseComments(CollapseStrings(CleanseRawLine(line, FALSE).line)) = <<>>
      /\ line \in Seq(Text)
<1> DEFINE line == <<"/*", "*/">>
           m == [i \in 0 .. 2 |-> IF i = 1 THEN "block_comment" ELSE "code"]
           E == Emissions(m, line)
<1>1. line \in Seq(Text) /\ Len(line) = 2 /\ line[1] = "/*" /\ line[2] = "*/" /\ DOMAIN line = 1 .. 2
  BY DEF Text, Words
<1> HIDE DEF line
<1>2. m[0] = "code" /\ m[1] = "block_comment" /\ m[2] = "code" /\ m \in [0 .. 2 -> LexModes]
  BY DEF LexModes
<1> HIDE DEF m
<1>3. Lexes(m, line)
  <2>1. m[1] = ModeAfter(m[1 - 1], line[1]) /\ m[2] = ModeAfter(m[2 - 1], line[2])
    BY <1>1, <1>2, CommentModes
  <2>2. \A i \in 1 .. 2 : i = 1 \/ i = 2
    OBVIOUS
  <2> QED
    BY <1>1, <1>2, <2>1, <2>2 DEF Lexes
<1>4. ASSUME NEW i \in 1 .. Len(line)
      PROVE  IsTold(m[i - 1], line[i])
  <2>1. i = 1 \/ i = 2
    BY <1>1
  <2>2. IsTold(m[1 - 1], line[1]) /\ IsTold(m[2 - 1], line[2])
    BY <1>1, <1>2 DEF IsTold, Quotes
  <2> QED
    BY <2>1, <2>2
<1>5. PICK c : CleansesRaw(c, line, FALSE) /\ CleanseRawLine(line, FALSE) = c[Len(line)]
  BY <1>1, RawLineIsCleansed
<1>6. IsReadSoFar(c[2], "code", LexedCode(m, line))
  <2>1. m[0] \in {"code", "raw_string"} /\ (FALSE <=> m[0] = "raw_string")
    BY <1>2
  <2> QED
    BY <1>1, <1>2, <1>3, <1>4, <1>5, <2>1, LineReadSoFar
<1>7. LexedCode(m, line) = <<>>
  <2>1. Len(E) = 2 /\ E[1] = Emitted(m[1 - 1], line[1]) /\ E[2] = Emitted(m[2 - 1], line[2])
    BY <1>1 DEF Emissions
  <2>2. E[1] = <<>> /\ E[2] = <<>>
    BY <1>1, <1>2, <2>1 DEF Emitted
  <2>3. LexedCode(m, line) = Lead(m[0]) \o FlattenSeq(E)
    BY DEF LexedCode, Lead, Emissions
  <2> HIDE DEF E
  <2>4. \A i \in 1 .. 2 : i = 1 \/ i = 2
    OBVIOUS
  <2>5. FlattenSeq(E) = <<>>
    BY <2>1, <2>2, <2>4, FlattenNothing
  <2>6. Lead(m[0]) = <<>>
    BY <1>2 DEF Lead
  <2> QED
    BY <2>3, <2>5, <2>6, ConcatEmptySeq, EmptySeq
<1>8. ~c[2].inside
  BY <1>6 DEF IsReadSoFar
<1>9. CleanseComments(CollapseStrings(c[2].line)) = <<>>
  BY <1>6, <1>7, LineRead
<1> QED
  BY <1>1, <1>5, <1>8, <1>9 DEF line

\* Any other line becomes its code, and goes on in a raw string if the lexer does.
LEMMA OtherLineRead ==
  ASSUME IsSupportedFile, NEW l \in 1 .. Len(file), ~IsCommentLine(Modes[l], file[l]),
         file[l] \in Seq(Text), NEW inside \in BOOLEAN, inside <=> StartOf(l) = "raw_string"
  PROVE  /\ CleanseRawLine(file[l], inside).inside <=> StartOf(l + 1) = "raw_string"
         /\ CleanseComments(CollapseStrings(CleanseRawLine(file[l], inside).line))
              = LexedCode(Modes[l], file[l])
<1> DEFINE m == Modes[l]
           line == file[l]
           n == Len(line)
<1>1. file \in Seq(Seq(STRING)) /\ IsSupported(Modes) /\ line \in Seq(Text) /\ n \in Nat
      /\ DOMAIN line = 1 .. n
  BY DEF IsSupportedFile
<1>2. /\ Lexes(m, line) /\ IsSupportedLine(m, line) /\ m[0] = StartOf(l)
      /\ StartOf(l + 1) = NextLine(m[n]) /\ m[n] # "string" /\ m[n] \in LexModes
  BY <1>1, SupportedLine DEF EndOf
<1>3. StartOf(l) \in {"code", "raw_string", "block_comment"}
  <2>1. l \in 1 .. Len(file) + 1
    BY <1>1
  <2> QED
    BY <1>1, <2>1, LineStarts
<1>4. m[0] # "block_comment" /\ m[n] # "block_comment"
  BY DEF IsCommentLine
<1>5. ~IsCommentLine(m, line)
  OBVIOUS
<1> HIDE DEF m, line
<1>6. ASSUME NEW i \in 1 .. n
      PROVE  IsTold(m[i - 1], line[i])
  <2>1. i \in DOMAIN line
    BY <1>1
  <2> QED
    BY <1>2, <1>5, <2>1 DEF IsSupportedLine, IsTold
<1>7. PICK c : CleansesRaw(c, line, inside) /\ CleanseRawLine(line, inside) = c[n]
  BY <1>1, RawLineIsCleansed
<1>8. m[0] \in {"code", "raw_string"} /\ (inside <=> m[0] = "raw_string")
  BY <1>2, <1>3, <1>4
<1>9. IsReadSoFar(c[n], m[n], LexedCode(m, line))
  BY <1>1, <1>2, <1>6, <1>7, <1>8, LineReadSoFar
<1>10. m[n] \in {"code", "raw_string", "line_comment"}
  BY <1>2, <1>4 DEF LexModes
<1>11. CleanseComments(CollapseStrings(c[n].line)) = LexedCode(m, line)
  BY <1>9, <1>10, LineRead
<1>12. c[n].inside <=> StartOf(l + 1) = "raw_string"
  BY <1>2, <1>9, <1>10 DEF IsReadSoFar, NextLine
<1> QED
  BY <1>7, <1>11, <1>12 DEF m, line

\* A line without #include is text.
LEMMA LinesAreText ==
  ASSUME IsSupportedFile, NEW l \in 1 .. Len(file)
  PROVE  file[l] \in Seq(Text)
<1>1. file[l] \in Seq(STRING) /\ DOMAIN file = 1 .. Len(file)
  BY DEF IsSupportedFile
<1>2. "include" \notin ToSet(file[l])
  BY <1>1 DEF IsSupportedFile, HasInclude
<1>3. \A i \in 1 .. Len(file[l]) : file[l][i] \in Text
  <2>1. \A i \in 1 .. Len(file[l]) : file[l][i] \in STRING /\ file[l][i] # "include"
    BY <1>1, <1>2 DEF ToSet
  <2> QED
    BY <2>1 DEF Text, Words
<1> DEFINE s == file[l]
<1>4. s \in Seq(STRING) /\ \A i \in 1 .. Len(s) : s[i] \in Text
  BY <1>1, <1>3
<1> HIDE DEF s
<1>5. s \in Seq(Text)
  <2>1. Len(s) \in Nat /\ s = [i \in 1 .. Len(s) |-> s[i]]
    BY <1>4
  <2> QED
    BY <1>4, <2>1
<1> QED
  BY <1>5 DEF s

\* The lines of a supported file become their code.
LEMMA FileRead ==
  ASSUME IsSupportedFile, NEW l \in DOMAIN file
  PROVE  ElidedLinesOf(RemoveMultiLineComments(file))[l] = LexedCode(Modes[l], file[l])
<1> DEFINE n == Len(file)
           text == RemoveMultiLineComments(file)
           replaced == <<"/*", "*/">>
<1>1. n \in Nat /\ DOMAIN file = 1 .. n
  BY DEF IsSupportedFile
<1>2. replaced \in Seq(Text)
  BY ReplacedLineRead
<1>3. \A k \in 1 .. n : text[k] = IF IsCommentLine(Modes[k], file[k]) THEN replaced ELSE file[k]
  BY <1>1, MultiLineCommentsAreFound DEF RemoveMultiLineComments
<1>4. text \in Seq(Seq(Text)) /\ Len(text) = n /\ DOMAIN text = 1 .. n
  <2> HIDE DEF replaced
  <2>1. \A k \in 1 .. n : text[k] \in Seq(Text)
    BY <1>2, <1>3, LinesAreText
  <2>2. text = [k \in 1 .. n |-> text[k]]
    BY <1>1 DEF RemoveMultiLineComments
  <2> HIDE DEF text, n
  <2> QED
    BY <1>1, <2>1, <2>2
<1> HIDE DEF text
<1>5. PICK c : CleansesLines(c, text) /\ CleanseRawStrings(text) = [i \in DOMAIN text |-> c[i].line]
  BY <1>4, RawStringsAreCleansed
<1>6. /\ c \in [0 .. n -> RawStates] /\ ~c[0].inside
      /\ \A k \in 1 .. n : c[k] = CleanseRawLine(text[k], c[k - 1].inside)
  BY <1>4, <1>5 DEF CleansesLines
<1>7. \A k \in 0 .. n : c[k].inside \in BOOLEAN
  BY <1>6 DEF RawStates
<1> DEFINE Follows(k) == c[k].inside <=> StartOf(k + 1) = "raw_string"
           Elided(k) == CleanseComments(CollapseStrings(c[k].line))
           T == {k \in 0 .. n : Follows(k)}
<1> HIDE DEF n, replaced
<1>8. ASSUME NEW k \in 0 .. n - 1, Follows(k)
      PROVE  Follows(k + 1) /\ Elided(k + 1) = LexedCode(Modes[k + 1], file[k + 1])
  <2>1. k + 1 \in 1 .. n /\ (k + 1) - 1 = k /\ k \in 0 .. n
    BY <1>1
  <2>2. c[k + 1] = CleanseRawLine(text[k + 1], c[k].inside)
    BY <1>6, <2>1
  <2>3. c[k].inside \in BOOLEAN /\ (c[k].inside <=> StartOf(k + 1) = "raw_string")
    BY <1>7, <1>8, <2>1
  <2>4. CASE IsCommentLine(Modes[k + 1], file[k + 1])
    <3>1. text[k + 1] = replaced
      BY <1>3, <2>1, <2>4
    <3>2. /\ LexedCode(Modes[k + 1], file[k + 1]) = <<>>
          /\ StartOf(k + 1) # "raw_string" /\ StartOf((k + 1) + 1) # "raw_string"
      BY <2>1, <2>4, CommentLineIsSilent DEF n
    <3>3. c[k].inside = FALSE
      BY <2>3, <3>2
    <3>4. c[k + 1] = CleanseRawLine(replaced, FALSE)
      BY <2>2, <3>1, <3>3
    <3>5. ~CleanseRawLine(replaced, FALSE).inside
          /\ CleanseComments(CollapseStrings(CleanseRawLine(replaced, FALSE).line)) = <<>>
      BY ReplacedLineRead DEF replaced
    <3> QED
      BY <3>2, <3>4, <3>5
  <2>5. CASE ~IsCommentLine(Modes[k + 1], file[k + 1])
    <3>1. text[k + 1] = file[k + 1] /\ file[k + 1] \in Seq(Text)
      BY <1>3, <2>1, <2>5, LinesAreText DEF n
    <3> DEFINE inside == c[k].inside
    <3>2. inside \in BOOLEAN /\ (inside <=> StartOf(k + 1) = "raw_string")
      BY <2>3
    <3>3. c[k + 1] = CleanseRawLine(file[k + 1], inside) /\ k + 1 \in 1 .. Len(file)
      BY <2>1, <2>2, <3>1 DEF n
    <3> HIDE DEF inside
    <3>4. /\ CleanseRawLine(file[k + 1], inside).inside <=> StartOf((k + 1) + 1) = "raw_string"
          /\ CleanseComments(CollapseStrings(CleanseRawLine(file[k + 1], inside).line))
               = LexedCode(Modes[k + 1], file[k + 1])
      BY <2>5, <3>1, <3>2, <3>3, OtherLineRead
    <3> QED
      BY <3>3, <3>4
  <2> QED
    BY <2>4, <2>5
<1>9. Follows(0)
  <2>1. StartOf(0 + 1) = "code"
    BY LinesAreLexed DEF Starts, StartOf, IsSupportedFile
  <2> QED
    BY <1>6, <2>1
<1> HIDE DEF Follows, Elided
<1>10. \A k \in 0 .. n : k \in T
  <2>1. 0 \in T
    BY <1>1, <1>9
  <2>2. \A k \in 0 .. n - 1 : k \in T => k + 1 \in T
    BY <1>1, <1>8
  <2> HIDE DEF T
  <2> QED
    BY <1>1, <2>1, <2>2, UpTo
<1>11. l - 1 \in 0 .. n - 1 /\ l - 1 \in 0 .. n /\ (l - 1) + 1 = l /\ l \in 1 .. n
  BY <1>1
<1>12. Elided(l) = LexedCode(Modes[l], file[l])
  <2>1. Follows(l - 1)
    BY <1>10, <1>11
  <2>2. Elided((l - 1) + 1) = LexedCode(Modes[(l - 1) + 1], file[(l - 1) + 1])
    BY <1>8, <1>11, <2>1
  <2> QED
    BY <1>11, <2>2
<1>13. ElidedLinesOf(text)[l] = Elided(l)
  BY <1>4, <1>5, <1>11 DEF ElidedLinesOf, Elided
<1> QED
  BY <1>12, <1>13 DEF text

\* "elided member contains lines without strings and comments" (cpplint.py:1374): the
\* four passes leave exactly the code a lexer sees, in every file they are made for.
THEOREM ElidesToTheLexedCode == TextSpec => []ElidedIsTheLexedCode
<1>1. PassesInv => ElidedIsTheLexedCode
  <2> SUFFICES ASSUME PassesInv, phase = "cleansed", IsSupported(Modes), ~HasInclude, ~EndsInComment,
                      NEW l \in DOMAIN file
               PROVE  elided[l] = LexedCode(Modes[l], file[l])
    BY DEF ElidedIsTheLexedCode
  <2>1. IsSupportedFile
    BY FilesAreText DEF PassesInv, IsSupportedFile
  <2>2. elided = ElidedLinesOf(RemoveMultiLineComments(file))
    BY DEF PassesInv
  <2> QED
    BY <2>1, <2>2, FileRead
<1> QED
  BY <1>1, PassesInOrder, PTL

----------------------------------------------------------------------------
(* One turn of the loops that look for an end or a start.                   *)

\* The brackets that are pushed and those that pop, forwards and backwards, and the
\* pending operator.
Pushes(forwards) == IF forwards THEN Opening ELSE Closing
Pops(forwards) == IF forwards THEN Closing ELSE Opening
Angle(forwards) == IF forwards THEN "<" ELSE ">"
Pairs(forwards, pushed, char) == IF forwards THEN Matches(pushed, char) ELSE Matches(char, pushed)

\* What a turn makes of a character that is no bracket.
OtherTurn(forwards, y, stack, r) ==
  LET rest == DropOperators(stack, Angle(forwards)) IN
  \/ r = Scanning(stack) \/ r = Scanning(Append(stack, Angle(forwards)))
  \/ /\ stack # <<>> /\ Last(stack) = Angle(forwards)
     /\ \/ r = FoundAt(y, Front(stack))
        \/ Len(stack) = 1 /\ r = Failed
        \/ Len(stack) # 1 /\ r = Scanning(Front(stack))
  \/ rest = <<>> /\ r = Failed
  \/ rest # <<>> /\ r = Scanning(rest)

\* What a turn makes of a bracket that may pop one.
PopTurn(forwards, y, stack, char, r) ==
  LET rest == DropOperators(stack, Angle(forwards)) IN
  \/ (rest = <<>> \/ ~Pairs(forwards, Last(rest), char)) /\ r = Failed
  \/ rest # <<>> /\ Pairs(forwards, Last(rest), char) /\ r = FoundAt(y, Front(rest))

\* What both loops do with a character: r is what they come to, y what they find.
Turn(forwards, y, stack, char, r) ==
  /\ char \in Pushes(forwards) => r = Scanning(Append(stack, char))
  /\ char \in Pops(forwards) => PopTurn(forwards, y, stack, char, r)
  /\ char \notin Opening \cup Closing => OtherTurn(forwards, y, stack, r)

\* Brackets, and what is no bracket.
LEMMA CharKinds ==
  /\ Opening \cap Closing = {}
  /\ \A t \in Opening : Closer(t) \in Closing
  /\ \A t \in Opening \cup Closing : t # "<" /\ t # ">" /\ t # " >= " /\ t # ";"
  /\ "<" # ">" /\ "<" # " >= " /\ "<" # ";" /\ ">" # ";" /\ " >= " # ";"
<1>1. Opening \cap Closing = {}
  BY Zenon DEF Opening, Closing
<1>2. \A t \in Opening : Closer(t) \in Closing
  BY Zenon DEF Opening, Closing, Closer
<1>3. \A t \in Opening : t # "<" /\ t # ">" /\ t # " >= " /\ t # ";"
  BY Zenon DEF Opening
<1>4. \A t \in Closing : t # "<" /\ t # ">" /\ t # " >= " /\ t # ";"
  BY Zenon DEF Closing
<1>5. "<" # ">" /\ "<" # " >= " /\ "<" # ";" /\ ">" # ";" /\ " >= " # ";"
  BY Zenon
<1> QED
  BY <1>1, <1>2, <1>3, <1>4, <1>5, Zenon

\* EndStep is such a turn.
LEMMA EndTurn ==
  ASSUME NEW line, NEW i, NEW stack
  PROVE  Turn(TRUE, i + 1, stack, line[i], EndStep(line, i, stack))
<1> DEFINE char == line[i]
           rest == DropOperators(stack, "<")
           r == EndStep(line, i, stack)
<1>0. /\ Pushes(TRUE) = Opening /\ Pops(TRUE) = Closing /\ Angle(TRUE) = "<"
      /\ \A a, b : Pairs(TRUE, a, b) <=> Matches(a, b)
  BY Zenon DEF Pushes, Pops, Angle, Pairs
<1>1. char \in Opening => r = Scanning(Append(stack, char))
  BY CharKinds, Zenon DEF EndStep
<1>2. ASSUME char \in Closing
      PROVE  PopTurn(TRUE, i + 1, stack, char, r)
  <2>1. r = IF rest = <<>> \/ ~Matches(Last(rest), char) THEN Failed ELSE FoundAt(i + 1, Front(rest))
    BY <1>2, CharKinds, Zenon DEF EndStep
  <2> QED
    BY <1>0, <2>1, Zenon DEF PopTurn
<1>3. ASSUME char \notin Opening \cup Closing
      PROVE  OtherTurn(TRUE, i + 1, stack, r)
  <2>1. ASSUME char = "<", Before(line, i) = "<"
        PROVE  OtherTurn(TRUE, i + 1, stack, r)
    <3>1. r = IF stack = <<>> \/ Last(stack) # "<" THEN Scanning(stack)
              ELSE IF Len(stack) = 1 THEN Failed ELSE Scanning(Front(stack))
      BY <1>3, <2>1, CharKinds, Zenon DEF EndStep
    <3> QED
      BY <1>0, <3>1, Zenon DEF OtherTurn
  <2>2. ASSUME char = "<", Before(line, i) # "<"
        PROVE  OtherTurn(TRUE, i + 1, stack, r)
    <3>1. r = IF Before(line, i) = "operator" THEN Scanning(stack) ELSE Scanning(Append(stack, "<"))
      BY <1>3, <2>2, CharKinds, Zenon DEF EndStep
    <3> QED
      BY <1>0, <3>1, Zenon DEF OtherTurn
  <2>3. ASSUME char \in {">", " >= "}
        PROVE  OtherTurn(TRUE, i + 1, stack, r)
    <3>1. r = IF IgnoredEnd(line, i) \/ stack = <<>> \/ Last(stack) # "<" THEN Scanning(stack)
              ELSE FoundAt(i + 1, Front(stack))
      BY <1>3, <2>3, CharKinds, Zenon DEF EndStep
    <3> QED
      BY <1>0, <3>1, Zenon DEF OtherTurn
  <2>4. ASSUME char = ";"
        PROVE  OtherTurn(TRUE, i + 1, stack, r)
    <3>1. r = IF rest = <<>> THEN Failed ELSE Scanning(rest)
      BY <1>3, <2>4, CharKinds, Zenon DEF EndStep
    <3> QED
      BY <1>0, <3>1, Zenon DEF OtherTurn
  <2>5. ASSUME char # "<", char \notin {">", " >= "}, char # ";"
        PROVE  OtherTurn(TRUE, i + 1, stack, r)
    <3>1. r = Scanning(stack)
      BY <1>3, <2>5, CharKinds, Zenon DEF EndStep
    <3> QED
      BY <1>0, <3>1, Zenon DEF OtherTurn
  <2> QED
    BY <2>1, <2>2, <2>3, <2>4, <2>5, Zenon
<1> QED
  BY <1>0, <1>1, <1>2, <1>3, Zenon DEF Turn

\* StartStep is such a turn.
LEMMA StartTurn ==
  ASSUME NEW line, NEW i, NEW stack
  PROVE  Turn(FALSE, i, stack, line[i], StartStep(line, i, stack))
<1> DEFINE char == line[i]
           rest == DropOperators(stack, ">")
           r == StartStep(line, i, stack)
<1>0. /\ Pushes(FALSE) = Closing /\ Pops(FALSE) = Opening /\ Angle(FALSE) = ">"
      /\ \A a, b : Pairs(FALSE, a, b) <=> Matches(b, a)
  BY Zenon DEF Pushes, Pops, Angle, Pairs
<1>1. char \in Closing => r = Scanning(Append(stack, char))
  BY CharKinds, Zenon DEF StartStep
<1>2. ASSUME char \in Opening
      PROVE  PopTurn(FALSE, i, stack, char, r)
  <2>1. r = IF rest = <<>> \/ ~Matches(char, Last(rest)) THEN Failed ELSE FoundAt(i, Front(rest))
    BY <1>2, CharKinds, Zenon DEF StartStep
  <2> QED
    BY <1>0, <2>1, Zenon DEF PopTurn
<1>3. ASSUME char \notin Opening \cup Closing
      PROVE  OtherTurn(FALSE, i, stack, r)
  <2>1. ASSUME char \in {">", " >= "}
        PROVE  OtherTurn(FALSE, i, stack, r)
    <3>1. r = IF IgnoredStart(line, i) THEN Scanning(stack) ELSE Scanning(Append(stack, ">"))
      BY <1>3, <2>1, CharKinds, Zenon DEF StartStep
    <3> QED
      BY <1>0, <3>1, Zenon DEF OtherTurn
  <2>2. ASSUME char = "<"
        PROVE  OtherTurn(FALSE, i, stack, r)
    <3>1. r = IF InShift(line, i) \/ stack = <<>> \/ Last(stack) # ">" THEN Scanning(stack)
              ELSE FoundAt(i, Front(stack))
      BY <1>3, <2>2, CharKinds, Zenon DEF StartStep
    <3> QED
      BY <1>0, <3>1, Zenon DEF OtherTurn
  <2>3. ASSUME char = ";"
        PROVE  OtherTurn(FALSE, i, stack, r)
    <3>1. r = IF rest = <<>> THEN Failed ELSE Scanning(rest)
      BY <1>3, <2>3, CharKinds, Zenon DEF StartStep
    <3> QED
      BY <1>0, <3>1, Zenon DEF OtherTurn
  <2>4. ASSUME char # "<", char \notin {">", " >= "}, char # ";"
        PROVE  OtherTurn(FALSE, i, stack, r)
    <3>1. r = Scanning(stack)
      BY <1>3, <2>4, CharKinds, Zenon DEF StartStep
    <3> QED
      BY <1>0, <3>1, Zenon DEF OtherTurn
  <2> QED
    BY <2>1, <2>2, <2>3, <2>4, Zenon
<1> QED
  BY <1>0, <1>1, <1>2, <1>3, Zenon DEF Turn

----------------------------------------------------------------------------
(* The brackets on a stack of pending operators and brackets.               *)

\* What is pending on a stack: the closing brackets that are waited for, or that
\* wait for an opening one.
Piece(forwards, pending) ==
  IF forwards THEN IF pending \in Opening THEN <<Closer(pending)>> ELSE <<>>
  ELSE IF pending \in Closing THEN <<pending>> ELSE <<>>

Pieces(forwards, stack) == [k \in DOMAIN stack |-> Piece(forwards, stack[k])]

Kept(forwards, stack) == FlattenSeq(Pieces(forwards, stack))

\* Pieces are sequences of closing brackets, those of what is pushed not empty, that of
\* the pending operator empty.
LEMMA PieceTypes ==
  ASSUME NEW f \in BOOLEAN
  PROVE  /\ \A x : Piece(f, x) \in Seq(Closing)
         /\ \A x \in Pushes(f) : Piece(f, x) # <<>> /\ Len(Piece(f, x)) = 1
         /\ Piece(f, Angle(f)) = <<>>
<1>1. \A x \in Opening : Closer(x) \in Closing
  BY CharKinds, Zenon
<1>2. "<" \notin Opening /\ ">" \notin Closing
  BY CharKinds, Zenon
<1>3. \A x \in Closing : <<x>> \in Seq(Closing) /\ <<x>> # <<>> /\ Len(<<x>>) = 1
  OBVIOUS
<1>4. <<>> \in Seq(Closing)
  OBVIOUS
<1>5. Piece(f, Angle(f)) = <<>>
  BY <1>2, Zenon DEF Piece, Angle
<1>6. ASSUME NEW x PROVE Piece(f, x) \in Seq(Closing)
  BY <1>1, <1>3, <1>4, Zenon DEF Piece
<1>7. ASSUME NEW x \in Pushes(f) PROVE Piece(f, x) # <<>> /\ Len(Piece(f, x)) = 1
  BY <1>1, <1>3, Zenon DEF Piece, Pushes
<1> QED
  BY <1>5, <1>6, <1>7, Zenon

\* What is pushed comes last.
LEMMA KeptAppend ==
  ASSUME NEW f \in BOOLEAN, NEW S, NEW stack \in Seq(S), NEW x \in S
  PROVE  /\ Kept(f, stack) \in Seq(Closing)
         /\ Kept(f, Append(stack, x)) = Kept(f, stack) \o Piece(f, x)
<1> DEFINE n == Len(stack)
           a == Pieces(f, stack)
           b == Pieces(f, Append(stack, x))
           p == Piece(f, x)
           longer == Append(stack, x)
<1>1. n \in Nat /\ DOMAIN stack = 1 .. n
  BY LenProperties
<1>2. /\ DOMAIN longer = 1 .. n + 1 /\ longer[n + 1] = x
      /\ \A i \in 1 .. n : longer[i] = stack[i]
  BY AppendProperties
<1>3. \A y : Piece(f, y) \in Seq(Closing)
  BY PieceTypes
<1>4. a = [k \in 1 .. n |-> Piece(f, stack[k])] /\ b = [k \in 1 .. n + 1 |-> Piece(f, longer[k])]
  BY <1>1, <1>2 DEF Pieces
<1> HIDE DEF n, longer, a, b
<1>5. a \in Seq(Seq(Closing)) /\ Len(a) = n /\ p \in Seq(Closing)
  BY <1>1, <1>3, <1>4
<1> HIDE DEF p
<1>6. Append(a, p) \in [1 .. n + 1 -> Seq(Closing)] /\ Append(a, p)[n + 1] = p
      /\ \A i \in 1 .. n : Append(a, p)[i] = a[i]
  <2> DEFINE T == Seq(Closing)
  <2>1. a \in Seq(T) /\ p \in T /\ Len(a) = n /\ n \in Nat
    BY <1>1, <1>5
  <2> HIDE DEF T
  <2>2. /\ Append(a, p) \in Seq(T) /\ Len(Append(a, p)) = n + 1
        /\ Append(a, p)[n + 1] = p /\ \A i \in 1 .. n : Append(a, p)[i] = a[i]
    BY <2>1, AppendProperties
  <2>3. Append(a, p) \in [1 .. n + 1 -> T]
    BY <2>2, LenProperties
  <2> QED
    BY <2>2, <2>3 DEF T
<1>7. b \in [1 .. n + 1 -> Seq(Closing)]
  BY <1>3, <1>4
<1>8. ASSUME NEW i \in 1 .. n + 1 PROVE b[i] = Append(a, p)[i]
  <2>1. CASE i = n + 1
    BY <1>1, <1>2, <1>4, <1>6, <2>1 DEF p
  <2>2. CASE i \in 1 .. n
    BY <1>2, <1>4, <1>6, <2>2
  <2>3. i = n + 1 \/ i \in 1 .. n
    BY <1>1
  <2> QED
    BY <2>1, <2>2, <2>3
<1>9. b = Append(a, p)
  <2>1. n + 1 \in Nat
    BY <1>1
  <2> QED
    BY <1>6, <1>7, <1>8, <2>1, SameFunction
<1>10. FlattenSeq(a) \in Seq(Closing) /\ FlattenSeq(Append(a, p)) = FlattenSeq(a) \o p
  BY <1>5, FlattenAppend
<1> QED
  BY <1>9, <1>10 DEF Kept, a, b, p, longer

\* Nothing is pending on the empty stack.
LEMMA KeptNothing ==
  ASSUME NEW f \in BOOLEAN
  PROVE  Kept(f, <<>>) = <<>>
<1>1. Pieces(f, <<>>) = <<>>
  BY DEF Pieces
<1>2. FlattenSeq(<<>>) = <<>>
  <2>1. Len(<<>>) = 0
    BY EmptySeq
  <2> QED
    BY <2>1 DEF FlattenSeq
<1> QED
  BY <1>1, <1>2 DEF Kept

\* A bracket at the bottom stays pending.
LEMMA KeptBottom ==
  ASSUME NEW f \in BOOLEAN, NEW S, NEW stack \in Seq(S), stack # <<>>, stack[1] \in Pushes(f)
  PROVE  Kept(f, stack) # <<>>
<1> DEFINE P == {s \in Seq(S) : s # <<>> /\ s[1] \in Pushes(f) => Len(Kept(f, s)) > 0}
<1>1. <<>> \in P
  OBVIOUS
<1>2. ASSUME NEW s \in Seq(S), NEW x \in S, s \in P
      PROVE  Append(s, x) \in P
  <2> DEFINE longer == Append(s, x)
             k == Kept(f, s)
             p == Piece(f, x)
  <2>1. longer \in Seq(S) /\ (s = <<>> => longer[1] = x) /\ (s # <<>> => longer[1] = s[1])
    OBVIOUS
  <2>2. k \in Seq(Closing) /\ p \in Seq(Closing) /\ Kept(f, longer) = k \o p
    BY KeptAppend, PieceTypes
  <2>3. s # <<>> /\ s[1] \in Pushes(f) => Len(k) > 0
    BY <1>2
  <2>4. x \in Pushes(f) => Len(p) = 1
    BY PieceTypes
  <2> HIDE DEF longer, k, p
  <2>5. Len(k) \in Nat /\ Len(p) \in Nat /\ Len(k \o p) = Len(k) + Len(p)
    BY <2>2
  <2>6. longer # <<>> /\ longer[1] \in Pushes(f) => Len(Kept(f, longer)) > 0
    BY <2>1, <2>2, <2>3, <2>4, <2>5
  <2> QED
    BY <2>1, <2>6 DEF longer
<1> HIDE DEF P
<1>3. \A s \in Seq(S) : s \in P
  BY <1>1, <1>2, SeqInduct
<1>4. Len(Kept(f, stack)) > 0
  BY <1>3 DEF P
<1>5. Len(<<>>) = 0
  OBVIOUS
<1> QED
  BY <1>4, <1>5

\* The pending operators that are dropped are all at the end.
LEMMA DropIs ==
  ASSUME NEW S, NEW stack \in Seq(S), NEW c
  PROVE  \E m \in 0 .. Len(stack) : /\ DropOperators(stack, c) = SubSeq(stack, 1, m)
                                    /\ \A k \in m + 1 .. Len(stack) : stack[k] = c
                                    /\ m # 0 => stack[m] # c
<1> DEFINE n == Len(stack)
           I == {i \in 1 .. n : stack[i] # c}
           m == SelectLastInSeq(stack, LAMBDA pending : pending # c)
<1>1. n \in Nat
  BY LenProperties
<1>2. DropOperators(stack, c) = SubSeq(stack, 1, m)
  BY DEF DropOperators
<1>3. m = IF I # {} THEN Max(I) ELSE 0
  BY DEF SelectLastInSeq
<1> HIDE DEF m, n
<1>4. CASE I = {}
  <2>1. m = 0 /\ m \in 0 .. n /\ \A k \in m + 1 .. n : stack[k] = c
    BY <1>1, <1>3, <1>4
  <2> QED
    BY <1>2, <2>1 DEF n
<1>5. CASE I # {}
  <2>1. I \in SUBSET (1 .. n)
    OBVIOUS
  <2>2. m = Max(I)
    BY <1>3, <1>5
  <2> HIDE DEF I
  <2>3. m \in I /\ \A k \in I : m >= k
    BY <1>1, <1>5, <2>1, <2>2, GreatestElement DEF Max
  <2>7. m \in 1 .. n /\ stack[m] # c /\ \A k \in 1 .. n : stack[k] # c => m >= k
    BY <2>3 DEF I
  <2>8. m \in 0 .. n /\ \A k \in m + 1 .. n : stack[k] = c
    BY <1>1, <2>7
  <2> QED
    BY <1>2, <2>7, <2>8 DEF n
<1> QED
  BY <1>4, <1>5

\* A stack without the operators pending at its end.
IsDropped(f, S, stack, rest) ==
  /\ rest \in Seq(S) /\ Kept(f, rest) = Kept(f, stack)
  /\ rest # <<>> => stack # <<>> /\ rest[1] = stack[1]
  /\ stack # <<>> /\ stack[1] \in Pushes(f) => rest # <<>>
  /\ rest # <<>> => Last(rest) # Angle(f)

\* Dropping operators leaves the brackets.
LEMMA DropKept ==
  ASSUME NEW f \in BOOLEAN, NEW S, NEW stack \in Seq(S)
  PROVE  IsDropped(f, S, stack, DropOperators(stack, Angle(f)))
<1> DEFINE n == Len(stack)
           c == Angle(f)
           rest == DropOperators(stack, c)
           top(k) == SubSeq(stack, 1, k)
<1>1. n \in Nat
  BY LenProperties
<1>2. PICK m \in 0 .. n : /\ rest = top(m)
                          /\ \A k \in m + 1 .. n : stack[k] = c
                          /\ m # 0 => stack[m] # c
  BY DropIs
<1>3. ASSUME NEW k \in 0 .. n
      PROVE  /\ top(k) \in Seq(S) /\ Len(top(k)) = k
             /\ k # 0 => top(k) # <<>> /\ stack # <<>> /\ top(k)[1] = stack[1]
             /\ k # 0 => top(k)[k] = stack[k]
             /\ k = 0 => top(k) = <<>>
  OBVIOUS
<1>4. ASSUME NEW k \in 0 .. n - 1
      PROVE  top(k + 1) = Append(top(k), stack[k + 1]) /\ stack[k + 1] \in S
  <2>1. k + 1 \in 1 .. n /\ stack[k + 1] \in S /\ 1 \in 1 .. n
    BY <1>1
  <2>2. SubSeq(stack, 1, k + 1) = SubSeq(stack, 1, (k + 1) - 1) \o <<stack[k + 1]>>
    BY <2>1, SubSeqRecursiveSecond
  <2>3. (k + 1) - 1 = k
    BY <1>1
  <2>4. top(k + 1) = top(k) \o <<stack[k + 1]>>
    BY <2>2, <2>3
  <2>5. k \in 0 .. n
    BY <1>1
  <2>6. top(k) \in Seq(S)
    BY <1>3, <2>5
  <2> HIDE DEF top
  <2> QED
    BY <2>1, <2>4, <2>6, AppendIsConcat
<1>5. top(n) = stack
  BY SubSeqFull
<1> HIDE DEF n, c, rest, top
<1>6. ASSUME NEW k \in 0 .. n - 1, k >= m
      PROVE  Kept(f, top(k + 1)) = Kept(f, top(k))
  <2>1. stack[k + 1] = c /\ k \in 0 .. n
    BY <1>1, <1>2, <1>6
  <2>2. top(k) \in Seq(S) /\ top(k + 1) = Append(top(k), c) /\ c \in S
    BY <1>3, <1>4, <2>1
  <2>3. Kept(f, Append(top(k), c)) = Kept(f, top(k)) \o Piece(f, c) /\ Kept(f, top(k)) \in Seq(Closing)
    BY <2>2, KeptAppend
  <2>4. Piece(f, c) = <<>>
    BY PieceTypes DEF c
  <2> QED
    BY <2>2, <2>3, <2>4, ConcatEmptySeq
<1> DEFINE T == {k \in 0 .. n : k >= m => Kept(f, top(k)) = Kept(f, top(m))}
<1>7. 0 \in T
  BY <1>1, <1>2
<1>8. \A k \in 0 .. n - 1 : k \in T => k + 1 \in T
  <2> SUFFICES ASSUME NEW k \in 0 .. n - 1, k \in T PROVE k + 1 \in T
    OBVIOUS
  <2>1. k + 1 \in 0 .. n
    BY <1>1
  <2>2. CASE k >= m
    BY <1>6, <2>1, <2>2
  <2>3. CASE ~(k >= m)
    <3>1. k + 1 >= m => k + 1 = m
      BY <1>1, <1>2, <2>3
    <3> QED
      BY <2>1, <3>1
  <2> QED
    BY <2>2, <2>3
<1> HIDE DEF T
<1>9. n \in T
  <2>1. \A k \in 0 .. n : k \in T
    BY <1>1, <1>7, <1>8, UpTo
  <2> QED
    BY <1>1, <2>1
<1>10. Kept(f, stack) = Kept(f, rest)
  BY <1>1, <1>2, <1>5, <1>9 DEF T
<1>11. rest \in Seq(S) /\ (rest # <<>> => stack # <<>> /\ rest[1] = stack[1])
  BY <1>2, <1>3
<1>12. stack # <<>> /\ stack[1] \in Pushes(f) => rest # <<>>
  <2> SUFFICES ASSUME stack # <<>>, stack[1] \in Pushes(f), m = 0 PROVE FALSE
    <3>1. Len(<<>>) = 0
      OBVIOUS
    <3> QED
      BY <1>2, <1>3, <3>1
  <2>1. 1 \in m + 1 .. n
    BY <1>1, <1>5, <1>3
  <2>2. stack[1] = c
    BY <1>2, <2>1
  <2>3. c \notin Pushes(f)
    BY PieceTypes DEF c
  <2> QED
    BY <2>2, <2>3
<1>13. rest # <<>> => Last(rest) # c
  <2> SUFFICES ASSUME rest # <<>> PROVE Last(rest) # c
    OBVIOUS
  <2>1. m # 0 /\ Len(rest) = m /\ rest[m] = stack[m]
    BY <1>2, <1>3
  <2> QED
    BY <1>2, <2>1 DEF Last
<1> QED
  BY <1>10, <1>11, <1>12, <1>13 DEF IsDropped, rest, c

\* A sequence is what is before its last element, and that element.
EndsIn(S, s, front, last) ==
  /\ front \in Seq(S) /\ last \in S /\ s = Append(front, last)
  /\ front # <<>> => front[1] = s[1]
  /\ Len(s) = Len(front) + 1

\* Front and Last.
LEMMA FrontLast ==
  ASSUME NEW S, NEW s \in Seq(S), s # <<>>
  PROVE  EndsIn(S, s, Front(s), Last(s))
<1>1. Len(s) \in Nat \ {0} /\ Len(s) \in 1 .. Len(s) /\ 1 \in 1 .. Len(s)
  BY EmptySeq
<1>2. s = Front(s) \o <<Last(s)>>
  <2>1. SubSeq(s, 1, Len(s)) = SubSeq(s, 1, Len(s) - 1) \o <<s[Len(s)]>>
    BY <1>1, SubSeqRecursiveSecond
  <2> QED
    BY <2>1, SubSeqFull DEF Front, Last
<1>3. Last(s) \in S
  BY <1>1, ElementOfSeq DEF Last
<1>4. Front(s) \in Seq(S) /\ Len(Front(s)) = Len(s) - 1 /\ (Front(s) # <<>> => Front(s)[1] = s[1])
  <2> DEFINE n == Len(s) - 1
  <2>1. n \in Nat /\ n \in Int /\ 1 \in Int /\ \A i \in 1 .. n : s[i] \in S
    BY <1>1, ElementOfSeq
  <2>2. Front(s) = SubSeq(s, 1, n)
    BY DEF Front
  <2> HIDE DEF n
  <2>3. /\ SubSeq(s, 1, n) \in Seq(S) /\ Len(SubSeq(s, 1, n)) = IF 1 <= n THEN n - 1 + 1 ELSE 0
        /\ \A i \in 1 .. n - 1 + 1 : SubSeq(s, 1, n)[i] = s[1 + i - 1]
    BY <2>1, SubSeqProperties
  <2>4. Len(SubSeq(s, 1, n)) = n
    BY <2>1, <2>3
  <2>5. SubSeq(s, 1, n) # <<>> => SubSeq(s, 1, n)[1] = s[1]
    <3>1. SubSeq(s, 1, n) # <<>> => n # 0
      BY <2>3, <2>4, EmptySeq
    <3>2. n # 0 => 1 \in 1 .. n - 1 + 1 /\ 1 + 1 - 1 = 1
      BY <2>1
    <3>3. n # 0 => SubSeq(s, 1, n)[1] = s[1 + 1 - 1]
      BY <2>3, <3>2
    <3> QED
      BY <3>1, <3>2, <3>3
  <2> QED
    BY <2>2, <2>3, <2>4, <2>5 DEF n
<1> QED
  BY <1>1, <1>2, <1>3, <1>4, AppendIsConcat DEF EndsIn

\* What is on the stack of a scan.
Pendings(forwards) == Pushes(forwards) \cup {Angle(forwards)}

\* How the brackets still waited for change over a character, from left to right.
Moves(before, char, after) ==
  /\ char \in Opening => after = Append(before, Closer(char))
  /\ char \in Closing => before = Append(after, char)
  /\ char \notin Opening \cup Closing => before = after

\* The same for a scan in either direction.
Goes(forwards, old, char, new) == IF forwards THEN Moves(old, char, new) ELSE Moves(new, char, old)

\* A bracket that does not match the one waited for.
IsMismatch(forwards, kept, char) == Last(kept) # IF forwards THEN char ELSE Closer(char)

\* What a turn with stack and char comes to: it goes on with s, finds y or fails.
GoesOn(f, stack, char, s) ==
  /\ s \in Seq(Pendings(f)) /\ Goes(f, Kept(f, stack), char, Kept(f, s))
  /\ stack = <<>> /\ char \in Pushes(f) => s # <<>> /\ s[1] = char
  /\ stack # <<>> /\ stack[1] \in Pushes(f) => s # <<>> /\ s[1] = stack[1]

\* The same where the end is found.
Finds(f, stack, char) ==
  /\ Goes(f, Kept(f, stack), char, <<>>)
  /\ stack = <<>> => char \notin Pushes(f)

\* The same where there is none.
Fails(f, stack, char) ==
  /\ stack = <<>> => char \notin Pushes(f)
  /\ stack # <<>> /\ stack[1] \in Pushes(f) =>
       /\ char \in Pops(f) /\ Kept(f, stack) # <<>>
       /\ IsMismatch(f, Kept(f, stack), char)

\* One of the three.
ComesTo(f, y, stack, char, r) ==
  \/ \E s : r = Scanning(s) /\ GoesOn(f, stack, char, s)
  \/ r = Found(y) /\ Finds(f, stack, char)
  \/ r = Failed /\ Fails(f, stack, char)

\* Where the rest of the stack is empty the end is found.
LEMMA FoundOrGoesOn ==
  ASSUME NEW f \in BOOLEAN, NEW stack, NEW char, NEW y, NEW s,
         s # <<>> => GoesOn(f, stack, char, s),
         s = <<>> => Finds(f, stack, char)
  PROVE  ComesTo(f, y, stack, char, FoundAt(y, s))
<1>1. CASE s = <<>>
  BY <1>1 DEF ComesTo, FoundAt
<1>2. CASE s # <<>>
  BY <1>2 DEF ComesTo, FoundAt
<1> QED
  BY <1>1, <1>2

\* A bracket is pushed.
LEMMA PushComes ==
  ASSUME NEW f \in BOOLEAN, NEW stack \in Seq(Pendings(f)), NEW y, NEW char \in Pushes(f)
  PROVE  ComesTo(f, y, stack, char, Scanning(Append(stack, char)))
<1> DEFINE s == Append(stack, char)
           k == Kept(f, stack)
<1>1. char \in Pendings(f)
  BY DEF Pendings
<1>2. /\ s \in Seq(Pendings(f)) /\ s # <<>>
      /\ stack = <<>> => s[1] = char
      /\ stack # <<>> => s[1] = stack[1]
  BY <1>1, AppendIsLonger
<1>3. k \in Seq(Closing) /\ Kept(f, s) = k \o Piece(f, char)
  BY <1>1, KeptAppend
<1> HIDE DEF s, k
<1>4. Goes(f, k, char, Kept(f, s))
  <2>1. CASE f
    <3>1. char \in Opening /\ char \notin Closing /\ Closer(char) \in Closing
      BY <2>1, CharKinds, Zenon DEF Pushes
    <3>2. Piece(f, char) = <<Closer(char)>>
      BY <2>1, <3>1 DEF Piece
    <3>3. Kept(f, s) = Append(k, Closer(char))
      BY <1>3, <3>1, <3>2, AppendIsConcat
    <3> QED
      BY <2>1, <3>1, <3>3, Zenon DEF Goes, Moves
  <2>2. CASE ~f
    <3>1. char \in Closing /\ char \notin Opening
      BY <2>2, CharKinds, Zenon DEF Pushes
    <3>2. Piece(f, char) = <<char>>
      BY <2>2, <3>1 DEF Piece
    <3>3. Kept(f, s) = Append(k, char)
      BY <1>3, <3>1, <3>2, AppendIsConcat
    <3> QED
      BY <2>2, <3>1, <3>3, Zenon DEF Goes, Moves
  <2> QED
    BY <2>1, <2>2
<1>5. GoesOn(f, stack, char, s)
  BY <1>2, <1>4 DEF GoesOn, k
<1> QED
  BY <1>5 DEF ComesTo, s

\* The last bracket of a stack is the last that is pending.
LEMMA KeptLast ==
  ASSUME NEW f \in BOOLEAN, NEW s \in Seq(Pendings(f)), s # <<>>, Last(s) # Angle(f)
  PROVE  LET bracket == IF f THEN Closer(Last(s)) ELSE Last(s) IN
         /\ Last(s) \in Pushes(f) /\ bracket \in Closing
         /\ Kept(f, Front(s)) \in Seq(Closing)
         /\ Kept(f, s) = Append(Kept(f, Front(s)), bracket)
         /\ Kept(f, s) # <<>> /\ Last(Kept(f, s)) = bracket
<1> DEFINE bracket == IF f THEN Closer(Last(s)) ELSE Last(s)
           k == Kept(f, Front(s))
<1>1. /\ Front(s) \in Seq(Pendings(f)) /\ Last(s) \in Pendings(f)
      /\ s = Append(Front(s), Last(s))
  BY FrontLast DEF EndsIn
<1>2. Last(s) \in Pushes(f)
  BY <1>1 DEF Pendings
<1>3. k \in Seq(Closing) /\ Kept(f, Append(Front(s), Last(s))) = k \o Piece(f, Last(s))
  BY <1>1, KeptAppend
<1>4. Piece(f, Last(s)) = <<bracket>> /\ bracket \in Closing
  <2>1. CASE f
    BY <1>2, <2>1, CharKinds, Zenon DEF Piece, Pushes
  <2>2. CASE ~f
    BY <1>2, <2>2, Zenon DEF Piece, Pushes
  <2> QED
    BY <2>1, <2>2
<1> HIDE DEF bracket, k
<1>5. k \o <<bracket>> = Append(k, bracket)
  BY <1>3, <1>4, AppendIsConcat
<1>6. Append(k, bracket) # <<>> /\ Last(Append(k, bracket)) = bracket
  BY <1>3, <1>4, AppendIsLonger
<1>7. Kept(f, s) = Append(k, bracket)
  BY <1>1, <1>3, <1>4, <1>5
<1> QED
  BY <1>2, <1>3, <1>4, <1>6, <1>7 DEF bracket, k

\* A bracket that may pop one.
LEMMA PopComes ==
  ASSUME NEW f \in BOOLEAN, NEW stack \in Seq(Pendings(f)), NEW y, NEW char \in Pops(f), NEW r,
         PopTurn(f, y, stack, char, r)
  PROVE  ComesTo(f, y, stack, char, r)
<1> DEFINE rest == DropOperators(stack, Angle(f))
           bracket == IF f THEN Closer(Last(rest)) ELSE Last(rest)
<1>0. char \notin Pushes(f)
  BY CharKinds, Zenon DEF Pops, Pushes
<1>1. /\ rest \in Seq(Pendings(f)) /\ Kept(f, rest) = Kept(f, stack)
      /\ rest # <<>> => stack # <<>> /\ rest[1] = stack[1]
      /\ stack # <<>> /\ stack[1] \in Pushes(f) => rest # <<>>
      /\ rest # <<>> => Last(rest) # Angle(f)
  BY DropKept DEF IsDropped
<1>2. rest # <<>> =>
        /\ Last(rest) \in Pushes(f) /\ bracket \in Closing
        /\ Kept(f, Front(rest)) \in Seq(Closing)
        /\ Kept(f, rest) = Append(Kept(f, Front(rest)), bracket)
        /\ Kept(f, rest) # <<>> /\ Last(Kept(f, rest)) = bracket
  BY <1>1, KeptLast
<1>3. rest # <<>> => /\ Front(rest) \in Seq(Pendings(f))
                     /\ Front(rest) # <<>> => Front(rest)[1] = rest[1]
  BY <1>1, FrontLast DEF EndsIn
<1>4. \/ (rest = <<>> \/ ~Pairs(f, Last(rest), char)) /\ r = Failed
      \/ rest # <<>> /\ Pairs(f, Last(rest), char) /\ r = FoundAt(y, Front(rest))
  BY DEF PopTurn
<1> HIDE DEF rest
<1>5. ASSUME rest = <<>> \/ ~Pairs(f, Last(rest), char)
      PROVE  Fails(f, stack, char)
  <2>1. ASSUME stack # <<>>, stack[1] \in Pushes(f)
        PROVE  IsMismatch(f, Kept(f, stack), char) /\ Kept(f, stack) # <<>>
    <3>1. rest # <<>> /\ ~Pairs(f, Last(rest), char)
      BY <1>1, <1>5, <2>1
    <3>2. Last(rest) \in Pushes(f) /\ Last(Kept(f, stack)) = bracket /\ Kept(f, stack) # <<>>
      BY <1>1, <1>2, <3>1
    <3>3. CASE f
      BY <3>1, <3>2, <3>3, Zenon DEF Pairs, Matches, IsMismatch, Pushes
    <3>4. CASE ~f
      BY <3>1, <3>2, <3>4, Zenon DEF Pairs, Matches, IsMismatch, Pops
    <3> QED
      BY <3>2, <3>3, <3>4
  <2> QED
    BY <1>0, <2>1 DEF Fails
<1>6. ASSUME rest # <<>>, Pairs(f, Last(rest), char)
      PROVE  ComesTo(f, y, stack, char, FoundAt(y, Front(rest)))
  <2> DEFINE s == Front(rest)
             k == Kept(f, s)
  <2>1. Goes(f, Kept(f, stack), char, k)
    <3>1. Kept(f, stack) = Append(k, bracket) /\ Last(rest) \in Pushes(f)
      BY <1>1, <1>2, <1>6
    <3> HIDE DEF k
    <3>2. CASE f
      <4>1. bracket = char /\ char \in Closing /\ char \notin Opening
        BY <1>6, <3>2, CharKinds, Zenon DEF Pairs, Matches, Pops
      <4> QED
        BY <3>1, <3>2, <4>1, Zenon DEF Goes, Moves
    <3>3. CASE ~f
      <4>1. bracket = Closer(char) /\ char \in Opening /\ char \notin Closing
        BY <1>6, <3>3, CharKinds, Zenon DEF Pairs, Matches, Pops
      <4> QED
        BY <3>1, <3>3, <4>1, Zenon DEF Goes, Moves
    <3> QED
      BY <3>2, <3>3
  <2>2. k = <<>> \/ s # <<>>
    BY KeptNothing
  <2>3. stack # <<>> /\ (s # <<>> => s[1] = stack[1]) /\ s \in Seq(Pendings(f))
    BY <1>1, <1>3, <1>6
  <2> HIDE DEF s
  <2>4. s # <<>> => GoesOn(f, stack, char, s)
    BY <2>1, <2>3 DEF GoesOn
  <2>5. s = <<>> => Finds(f, stack, char)
    BY <2>1, <2>2, <2>3 DEF Finds
  <2> QED
    BY <2>4, <2>5, FoundOrGoesOn DEF s
<1> QED
  BY <1>4, <1>5, <1>6 DEF ComesTo

\* Anything else leaves the brackets.
LEMMA OtherComes ==
  ASSUME NEW f \in BOOLEAN, NEW stack \in Seq(Pendings(f)), NEW y, NEW char, NEW r,
         char \notin Opening \cup Closing, OtherTurn(f, y, stack, r)
  PROVE  ComesTo(f, y, stack, char, r)
<1> DEFINE rest == DropOperators(stack, Angle(f))
           k == Kept(f, stack)
<1>1. /\ rest \in Seq(Pendings(f)) /\ Kept(f, rest) = Kept(f, stack)
      /\ rest # <<>> => stack # <<>> /\ rest[1] = stack[1]
      /\ stack # <<>> /\ stack[1] \in Pushes(f) => rest # <<>>
  BY DropKept DEF IsDropped
<1> HIDE DEF rest
<1>2. char \notin Pushes(f) /\ \A a : Goes(f, a, char, a)
  BY Zenon DEF Pushes, Goes, Moves
<1>3. ASSUME NEW s \in Seq(Pendings(f)), Kept(f, s) = k,
             stack # <<>> /\ stack[1] \in Pushes(f) => s # <<>> /\ s[1] = stack[1]
      PROVE  GoesOn(f, stack, char, s)
  BY <1>2, <1>3 DEF GoesOn
<1>4. k \in Seq(Closing) /\ Angle(f) \in Pendings(f) /\ Angle(f) \notin Pushes(f)
  BY KeptAppend, PieceTypes DEF Pendings
<1>5. ComesTo(f, y, stack, char, Scanning(stack))
  BY <1>3 DEF ComesTo
<1>6. ComesTo(f, y, stack, char, Scanning(Append(stack, Angle(f))))
  <2> DEFINE s == Append(stack, Angle(f))
  <2>1. /\ s \in Seq(Pendings(f)) /\ s # <<>> /\ (stack # <<>> => s[1] = stack[1])
    BY <1>4, AppendIsLonger
  <2>2. Kept(f, s) = k
    <3>1. Kept(f, s) = k \o Piece(f, Angle(f)) /\ Piece(f, Angle(f)) = <<>>
      BY <1>4, KeptAppend, PieceTypes
    <3> QED
      BY <1>4, <3>1, ConcatEmptySeq
  <2> HIDE DEF s
  <2>3. GoesOn(f, stack, char, s)
    BY <1>3, <2>1, <2>2
  <2> QED
    BY <2>3 DEF ComesTo, s
<1>7. ASSUME rest = <<>>
      PROVE  ComesTo(f, y, stack, char, Failed)
  BY <1>1, <1>2, <1>7 DEF ComesTo, Fails
<1>8. ASSUME rest # <<>>
      PROVE  ComesTo(f, y, stack, char, Scanning(rest))
  <2>1. GoesOn(f, stack, char, rest)
    BY <1>1, <1>3, <1>8
  <2> QED
    BY <2>1 DEF ComesTo
<1>9. ASSUME stack # <<>>, Last(stack) = Angle(f)
      PROVE  /\ ComesTo(f, y, stack, char, FoundAt(y, Front(stack)))
             /\ Len(stack) = 1 => ComesTo(f, y, stack, char, Failed)
             /\ Len(stack) # 1 => ComesTo(f, y, stack, char, Scanning(Front(stack)))
  <2> DEFINE s == Front(stack)
  <2>1. /\ s \in Seq(Pendings(f)) /\ stack = Append(s, Angle(f)) /\ Len(stack) = Len(s) + 1
        /\ s # <<>> => s[1] = stack[1]
    BY <1>9, FrontLast DEF EndsIn
  <2>2. Kept(f, s) = k
    <3>1. /\ Kept(f, Append(s, Angle(f))) = Kept(f, s) \o Piece(f, Angle(f))
          /\ Piece(f, Angle(f)) = <<>> /\ Kept(f, s) \in Seq(Closing)
      BY <1>4, <2>1, KeptAppend, PieceTypes
    <3> QED
      BY <2>1, <3>1, ConcatEmptySeq
  <2> HIDE DEF s
  <2>3. s = <<>> => stack[1] = Angle(f) /\ Kept(f, s) = <<>>
    BY <1>4, <2>1, AppendIsLonger, KeptNothing
  <2>4. Len(s) = 0 <=> s = <<>>
    BY <2>1, EmptySeq
  <2>5. s # <<>> => GoesOn(f, stack, char, s)
    BY <1>3, <2>1, <2>2
  <2>6. s = <<>> => Finds(f, stack, char)
    BY <1>2, <1>9, <2>2, <2>3 DEF Finds
  <2>7. s = <<>> => Fails(f, stack, char)
    BY <1>4, <1>9, <2>3 DEF Fails
  <2>8. ComesTo(f, y, stack, char, FoundAt(y, s))
    BY <2>5, <2>6, FoundOrGoesOn
  <2>9. Len(stack) = 1 => s = <<>>
    BY <2>1, <2>4, LenProperties
  <2>10. Len(stack) # 1 => s # <<>>
    BY <2>1, <2>4
  <2> QED
    BY <2>5, <2>7, <2>8, <2>9, <2>10 DEF ComesTo, s
<1> QED
  BY <1>5, <1>6, <1>7, <1>8, <1>9 DEF OtherTurn, rest

\* Every turn comes to one of the three.
LEMMA TurnComes ==
  ASSUME NEW f \in BOOLEAN, NEW stack \in Seq(Pendings(f)), NEW y, NEW char, NEW r,
         Turn(f, y, stack, char, r)
  PROVE  ComesTo(f, y, stack, char, r)
<1>1. char \in Pushes(f) \/ char \in Pops(f) \/ char \notin Opening \cup Closing
  BY Zenon DEF Pushes, Pops
<1> QED
  BY <1>1, PushComes, PopComes, OtherComes DEF Turn

----------------------------------------------------------------------------
(* A scan over the characters W, in the order it reads them.                *)

\* G is the brackets waited for after each of the first x characters.
IsRun(f, W, G, x) ==
  /\ G \in [0 .. x -> Seq(Closing)] /\ G[0] = <<>>
  /\ \A k \in 1 .. x : Goes(f, G[k - 1], W[k], G[k])

\* What starts with a bracket is open all the time.
StaysOpen(f, W, G, x) == W[1] \in Pushes(f) => \A k \in 1 .. x : G[k] # <<>>

\* The scan goes on with stack behind x characters,
Runs(f, W, x, stack) ==
  /\ stack \in Seq(Pendings(f))
  /\ x = 0 => stack = <<>>
  /\ x # 0 /\ W[1] \in Pushes(f) => stack # <<>> /\ stack[1] = W[1]
  /\ \E G : IsRun(f, W, G, x) /\ StaysOpen(f, W, G, x) /\ G[x] = Kept(f, stack)

\* has found the end there,
Closes(f, W, x) == \E G : IsRun(f, W, G, x) /\ StaysOpen(f, W, G, x - 1) /\ G[x] = <<>>

\* or has failed: what starts with a bracket, at one that does not match.
GetsStuck(f, W, x) ==
  W[1] \in Pushes(f) =>
    /\ x > 1 /\ W[x] \in Pops(f)
    /\ \E G : /\ IsRun(f, W, G, x - 1) /\ StaysOpen(f, W, G, x - 1)
              /\ IsMismatch(f, G[x - 1], W[x])

\* A run can be continued.
LEMMA RunGrows ==
  ASSUME NEW f \in BOOLEAN, NEW W, NEW x \in Nat, NEW G, IsRun(f, W, G, x),
         NEW K \in Seq(Closing), Goes(f, G[x], W[x + 1], K)
  PROVE  \E H : IsRun(f, W, H, x + 1) /\ H[x + 1] = K /\ \A k \in 0 .. x : H[k] = G[k]
<1> DEFINE H == [k \in 0 .. x + 1 |-> IF k = x + 1 THEN K ELSE G[k]]
<1>1. G \in [0 .. x -> Seq(Closing)] /\ G[0] = <<>>
      /\ \A k \in 1 .. x : Goes(f, G[k - 1], W[k], G[k])
  BY DEF IsRun
<1>2. H[x + 1] = K /\ \A k \in 0 .. x : H[k] = G[k]
  OBVIOUS
<1>3. H \in [0 .. x + 1 -> Seq(Closing)]
  <2>1. \A k \in 0 .. x + 1 : k = x + 1 \/ k \in 0 .. x
    OBVIOUS
  <2> QED
    BY <1>1, <2>1
<1> HIDE DEF H
<1>4. ASSUME NEW k \in 1 .. x + 1
      PROVE  Goes(f, H[k - 1], W[k], H[k])
  <2>1. CASE k = x + 1
    <3>1. k - 1 = x /\ x \in 0 .. x
      BY <2>1
    <3> QED
      BY <1>2, <2>1, <3>1
  <2>2. CASE k \in 1 .. x
    <3>1. k - 1 \in 0 .. x /\ k \in 0 .. x
      BY <2>2
    <3> QED
      BY <1>1, <1>2, <2>2, <3>1
  <2>3. k = x + 1 \/ k \in 1 .. x
    OBVIOUS
  <2> QED
    BY <2>1, <2>2, <2>3
<1>5. H[0] = <<>>
  BY <1>1, <1>2
<1>6. IsRun(f, W, H, x + 1)
  BY <1>3, <1>4, <1>5 DEF IsRun
<1> QED
  BY <1>2, <1>6

\* What a scan has come to with character x, where it would find y.
IsWalked(f, W, x, y, r) ==
  \/ \E s : r = Scanning(s) /\ Runs(f, W, x, s)
  \/ r = Found(y) /\ Closes(f, W, x)
  \/ r = Failed /\ GetsStuck(f, W, x)

\* One turn more.
LEMMA RunTurn ==
  ASSUME NEW f \in BOOLEAN, NEW W, NEW x \in Nat, NEW stack, Runs(f, W, x, stack),
         NEW y, NEW r, Turn(f, y, stack, W[x + 1], r)
  PROVE  IsWalked(f, W, x + 1, y, r)
<1> DEFINE char == W[x + 1]
<1>1. PICK G : IsRun(f, W, G, x) /\ StaysOpen(f, W, G, x) /\ G[x] = Kept(f, stack)
  BY DEF Runs
<1>2. /\ stack \in Seq(Pendings(f))
      /\ x = 0 => stack = <<>>
      /\ x # 0 /\ W[1] \in Pushes(f) => stack # <<>> /\ stack[1] = W[1]
  BY DEF Runs
<1>3. ComesTo(f, y, stack, char, r)
  BY <1>2, TurnComes
<1>4. x = 0 => char = W[1]
  OBVIOUS
<1> HIDE DEF char
<1>5. ASSUME NEW s, r = Scanning(s), GoesOn(f, stack, char, s)
      PROVE  Runs(f, W, x + 1, s)
  <2> DEFINE K == Kept(f, s)
  <2>1. /\ s \in Seq(Pendings(f)) /\ Goes(f, G[x], char, K)
        /\ stack = <<>> /\ char \in Pushes(f) => s # <<>> /\ s[1] = char
        /\ stack # <<>> /\ stack[1] \in Pushes(f) => s # <<>> /\ s[1] = stack[1]
    BY <1>1, <1>5 DEF GoesOn
  <2>2. W[1] \in Pushes(f) => s # <<>> /\ s[1] = W[1]
    BY <1>2, <1>4, <2>1
  <2>3. K \in Seq(Closing)
    <3>1. \A t \in Seq(Pendings(f)) : Kept(f, t) \in Seq(Closing)
      BY KeptAppend DEF Pendings
    <3> QED
      BY <2>1, <3>1
  <2>4. W[1] \in Pushes(f) => K # <<>>
    BY <2>1, <2>2, KeptBottom
  <2> HIDE DEF K
  <2>5. PICK H : IsRun(f, W, H, x + 1) /\ H[x + 1] = K /\ \A k \in 0 .. x : H[k] = G[k]
    BY <1>1, <2>1, <2>3, RunGrows DEF char
  <2>6. StaysOpen(f, W, H, x + 1)
    <3> SUFFICES ASSUME W[1] \in Pushes(f), NEW k \in 1 .. x + 1 PROVE H[k] # <<>>
      BY DEF StaysOpen
    <3>1. CASE k = x + 1
      BY <2>4, <2>5, <3>1
    <3>2. CASE k \in 1 .. x
      <4>1. G[k] # <<>> /\ k \in 0 .. x
        BY <1>1, <3>2 DEF StaysOpen
      <4> QED
        BY <2>5, <4>1
    <3>3. k = x + 1 \/ k \in 1 .. x
      OBVIOUS
    <3> QED
      BY <3>1, <3>2, <3>3
  <2>7. x + 1 # 0
    OBVIOUS
  <2> QED
    BY <2>1, <2>2, <2>5, <2>6, <2>7 DEF Runs, K
<1>6. ASSUME Finds(f, stack, char)
      PROVE  Closes(f, W, x + 1)
  <2> DEFINE K == <<>>
  <2>1. Goes(f, G[x], char, K) /\ K \in Seq(Closing)
    BY <1>1, <1>6 DEF Finds
  <2> HIDE DEF K
  <2>2. PICK H : IsRun(f, W, H, x + 1) /\ H[x + 1] = K /\ \A k \in 0 .. x : H[k] = G[k]
    BY <1>1, <2>1, RunGrows DEF char
  <2>3. StaysOpen(f, W, H, (x + 1) - 1)
    <3>1. (x + 1) - 1 = x /\ \A k \in 1 .. x : k \in 0 .. x
      OBVIOUS
    <3> QED
      BY <1>1, <2>2, <3>1 DEF StaysOpen
  <2> QED
    BY <2>2, <2>3 DEF Closes, K
<1>7. ASSUME Fails(f, stack, char)
      PROVE  GetsStuck(f, W, x + 1)
  <2> SUFFICES ASSUME W[1] \in Pushes(f)
               PROVE  /\ x + 1 > 1 /\ W[x + 1] \in Pops(f)
                      /\ \E H : /\ IsRun(f, W, H, (x + 1) - 1) /\ StaysOpen(f, W, H, (x + 1) - 1)
                                /\ IsMismatch(f, H[(x + 1) - 1], W[x + 1])
    BY DEF GetsStuck
  <2>1. /\ stack = <<>> => char \notin Pushes(f)
        /\ stack # <<>> /\ stack[1] \in Pushes(f) =>
             char \in Pops(f) /\ IsMismatch(f, Kept(f, stack), char)
    BY <1>7 DEF Fails
  <2>2. x # 0
    BY <1>2, <1>4, <2>1
  <2>3. char \in Pops(f) /\ IsMismatch(f, G[x], char)
    BY <1>1, <1>2, <2>1, <2>2
  <2>4. (x + 1) - 1 = x /\ x + 1 > 1
    BY <2>2
  <2> QED
    BY <1>1, <2>3, <2>4 DEF char
<1> QED
  BY <1>3, <1>5, <1>6, <1>7 DEF ComesTo, IsWalked

\* What a scan comes to with the n characters behind the first b, where it would find
\* y[j] at the j-th.
EndsUp(f, W, b, n, y, r) ==
  \/ \E s : r = Scanning(s) /\ Runs(f, W, b + n, s)
  \/ \E j \in 1 .. n : r = Found(y[j]) /\ Closes(f, W, b + j)
  \/ \E j \in 1 .. n : r = Failed /\ GetsStuck(f, W, b + j)

\* g is what it has come to after each of them.
Scans(f, W, b, n, y, g) ==
  \A k \in 1 .. n : IF g[k - 1].state = "scanning" THEN Turn(f, y[k], g[k - 1].stack, W[b + k], g[k])
                    ELSE g[k] = g[k - 1]

\* It is one of the three.
LEMMA ScanEndsUp ==
  ASSUME NEW f \in BOOLEAN, NEW W, NEW b \in Nat, NEW n \in Nat, NEW y, NEW g,
         NEW stack, g[0] = Scanning(stack), Runs(f, W, b, stack), Scans(f, W, b, n, y, g)
  PROVE  EndsUp(f, W, b, n, y, g[n])
<1> DEFINE T == {k \in 0 .. n : EndsUp(f, W, b, k, y, g[k])}
<1>1. 0 \in T
  <2>1. b + 0 = b /\ 0 \in 0 .. n
    OBVIOUS
  <2> QED
    BY <2>1 DEF EndsUp
<1>2. ASSUME NEW k \in 0 .. n - 1, k \in T
      PROVE  k + 1 \in T
  <2>1. k + 1 \in 1 .. n /\ (k + 1) - 1 = k /\ k + 1 \in 0 .. n /\ k \in Nat /\ b + k \in Nat
        /\ b + (k + 1) = (b + k) + 1
    OBVIOUS
  <2>2. EndsUp(f, W, b, k, y, g[k])
    BY <1>2
  <2>3. IF g[k].state = "scanning" THEN Turn(f, y[k + 1], g[k].stack, W[(b + k) + 1], g[k + 1])
        ELSE g[k + 1] = g[k]
    BY <2>1 DEF Scans
  <2>4. ASSUME NEW s, g[k] = Scanning(s), Runs(f, W, b + k, s)
        PROVE  EndsUp(f, W, b, k + 1, y, g[k + 1])
    <3>1. g[k].state = "scanning" /\ g[k].stack = s
      BY <2>4 DEF Scanning
    <3>2. IsWalked(f, W, (b + k) + 1, y[k + 1], g[k + 1])
      BY <2>1, <2>3, <2>4, <3>1, RunTurn
    <3>3. k + 1 \in 1 .. k + 1
      BY <2>1
    <3> QED
      BY <2>1, <3>2, <3>3 DEF IsWalked, EndsUp
  <2>5. ASSUME NEW j \in 1 .. k, \/ g[k] = Found(y[j]) /\ Closes(f, W, b + j)
                                 \/ g[k] = Failed /\ GetsStuck(f, W, b + j)
        PROVE  EndsUp(f, W, b, k + 1, y, g[k + 1])
    <3>1. g[k].state # "scanning"
      BY <2>5 DEF Found, Failed
    <3>2. j \in 1 .. k + 1 /\ g[k + 1] = g[k]
      BY <2>1, <2>3, <3>1
    <3> QED
      BY <2>5, <3>2 DEF EndsUp
  <2>6. EndsUp(f, W, b, k + 1, y, g[k + 1])
    BY <2>2, <2>4, <2>5 DEF EndsUp
  <2> QED
    BY <2>1, <2>6
<1> HIDE DEF T
<1>3. n \in T
  <2>1. \A k \in 0 .. n : k \in T
    BY <1>1, <1>2, UpTo
  <2> QED
    BY <2>1
<1> QED
  BY <1>3 DEF T

----------------------------------------------------------------------------
(* The loops over a line.                                                   *)

\* What a scan holds.
ScanStates(f) == [state : {"scanning", "found", "failed"}, stack : Seq(Pendings(f)), pos : Int]

\* Its stack is one.
LEMMA ScanTypes ==
  ASSUME NEW f \in BOOLEAN
  PROVE  /\ \A s \in Seq(Pendings(f)) : Scanning(s) \in ScanStates(f)
         /\ \A h \in ScanStates(f) : h.stack \in Seq(Pendings(f))
BY DEF Scanning, ScanStates

\* A turn makes such a state.
LEMMA TurnTypes ==
  ASSUME NEW f \in BOOLEAN, NEW stack \in Seq(Pendings(f)), NEW y \in Int, NEW char, NEW r,
         Turn(f, y, stack, char, r)
  PROVE  r \in ScanStates(f)
<1>1. ComesTo(f, y, stack, char, r)
  BY TurnComes
<1>2. \A s \in Seq(Pendings(f)) : Scanning(s) \in ScanStates(f)
  BY DEF Scanning, ScanStates
<1>3. Found(y) \in ScanStates(f) /\ Failed \in ScanStates(f)
  BY DEF Found, Failed, ScanStates
<1> QED
  BY <1>1, <1>2, <1>3 DEF ComesTo, GoesOn

\* g is what the loop of FindEndOfExpressionInLine has come to after each character.
EndScan(g, line, startpos, n, stack) ==
  /\ FindEndOfExpressionInLine(line, startpos, stack) = g[n]
  /\ g[0] = Scanning(stack)
  /\ \A k \in 1 .. n :
       IF g[k - 1].state = "scanning"
       THEN Turn(TRUE, startpos + k, g[k - 1].stack, line[startpos + k - 1], g[k])
       ELSE g[k] = g[k - 1]
  /\ g[n] \in ScanStates(TRUE)

\* The loop of FindEndOfExpressionInLine.
LEMMA EndIsScanned ==
  ASSUME NEW line, NEW startpos \in Int, NEW n \in Nat, n = Len(line) - startpos + 1,
         NEW stack \in Seq(Pendings(TRUE))
  PROVE  \E g : EndScan(g, line, startpos, n, stack)
<1> DEFINE S == ScanStates(TRUE)
           start == Scanning(stack)
           turn(h, k) == IF h.state # "scanning" THEN h ELSE EndStep(line, startpos + (k - 1) * 1, h.stack)
           step == [p \in S \X (1 .. n) |-> turn(p[1], p[2])]
           Is(g) == g = [k \in 0 .. n |-> IF k = 0 THEN start ELSE turn(g[k - 1], k)]
           f == CHOOSE g : Is(g)
<1>1. start \in S
  BY ScanTypes, Zenon
<1>2. ASSUME NEW h, NEW k \in 1 .. n
      PROVE  IF h.state = "scanning"
             THEN Turn(TRUE, startpos + k, h.stack, line[startpos + k - 1], turn(h, k))
             ELSE turn(h, k) = h
  <2> DEFINE i == startpos + (k - 1) * 1
  <2>1. i = startpos + k - 1 /\ i + 1 = startpos + k
    OBVIOUS
  <2>2. Turn(TRUE, i + 1, h.stack, line[i], EndStep(line, i, h.stack))
    BY EndTurn
  <2>3. turn(h, k) = IF h.state # "scanning" THEN h ELSE EndStep(line, i, h.stack)
    OBVIOUS
  <2> HIDE DEF i, turn
  <2> QED
    BY <2>1, <2>2, <2>3
<1> HIDE DEF turn
<1>3. ASSUME NEW h \in S, NEW k \in 1 .. n PROVE turn(h, k) \in S
  <2>1. CASE h.state = "scanning"
    <3>1. h.stack \in Seq(Pendings(TRUE))
      BY ScanTypes, Zenon
    <3>2. startpos + k \in Int
      OBVIOUS
    <3> QED
      BY <1>2, <2>1, <3>1, <3>2, TurnTypes
  <2>2. CASE h.state # "scanning"
    BY <1>2, <2>2
  <2> QED
    BY <2>1, <2>2
<1>4. step \in [S \X (1 .. n) -> S]
  BY <1>3
<1>5. PICK g : IsRecursion(g, S, start, n, step)
  <2> HIDE DEF step, start, S
  <2> QED
    BY <1>1, <1>4, IsRecursionExists
<1>6. g \in [0 .. n -> S] /\ g[0] = start
  BY <1>5 DEF IsRecursion
<1>7. ASSUME NEW k \in 1 .. n
      PROVE  g[k] = turn(g[k - 1], k)
  <2> HIDE DEF S
  <2>1. k - 1 \in 0 .. n /\ <<g[k - 1], k>> \in S \X (1 .. n)
    BY <1>6
  <2>2. g[k] = step[<<g[k - 1], k>>]
    BY <1>5 DEF IsRecursion
  <2> QED
    BY <2>1, <2>2
<1>8. Is(g)
  BY <1>6, <1>7
<1>9. Is(f)
  BY <1>8
<1>10. FindEndOfExpressionInLine(line, startpos, stack) = f[n]
  BY DEF FindEndOfExpressionInLine, ScanLine, turn
<1> HIDE DEF f
<1>11. f[0] = start /\ \A k \in 1 .. n : f[k] = turn(f[k - 1], k)
  BY <1>9
<1>12. \A k \in 1 .. n :
         IF f[k - 1].state = "scanning"
         THEN Turn(TRUE, startpos + k, f[k - 1].stack, line[startpos + k - 1], f[k])
         ELSE f[k] = f[k - 1]
  BY <1>2, <1>11
<1>13. f[n] \in S
  <2> DEFINE T == {k \in 0 .. n : f[k] \in S}
  <2> HIDE DEF S
  <2>1. 0 \in T
    BY <1>1, <1>11
  <2>2. ASSUME NEW k \in 0 .. n - 1, k \in T
        PROVE  k + 1 \in T
    <3>1. k + 1 \in 1 .. n /\ (k + 1) - 1 = k /\ k + 1 \in 0 .. n
      OBVIOUS
    <3>2. f[k + 1] = turn(f[k], k + 1) /\ f[k] \in S
      BY <1>11, <2>2, <3>1
    <3> QED
      BY <1>3, <3>1, <3>2
  <2> HIDE DEF T
  <2>3. \A k \in 0 .. n : k \in T
    BY <2>1, <2>2, UpTo
  <2> QED
    BY <2>3 DEF T
<1> QED
  BY <1>10, <1>11, <1>12, <1>13 DEF EndScan

\* g is what the loop of FindStartOfExpressionInLine has come to after each character.
StartScan(g, line, n, stack) ==
  /\ FindStartOfExpressionInLine(line, n, stack) = g[n]
  /\ g[0] = Scanning(stack)
  /\ \A k \in 1 .. n :
       IF g[k - 1].state = "scanning"
       THEN Turn(FALSE, n - k + 1, g[k - 1].stack, line[n - k + 1], g[k])
       ELSE g[k] = g[k - 1]
  /\ g[n] \in ScanStates(FALSE)

\* The loop of FindStartOfExpressionInLine.
LEMMA StartIsScanned ==
  ASSUME NEW line, NEW n \in Nat, NEW stack \in Seq(Pendings(FALSE))
  PROVE  \E g : StartScan(g, line, n, stack)
<1> DEFINE S == ScanStates(FALSE)
           start == Scanning(stack)
           turn(h, k) == IF h.state # "scanning" THEN h ELSE StartStep(line, n + (k - 1) * (-1), h.stack)
           step == [p \in S \X (1 .. n) |-> turn(p[1], p[2])]
           Is(g) == g = [k \in 0 .. n |-> IF k = 0 THEN start ELSE turn(g[k - 1], k)]
           f == CHOOSE g : Is(g)
<1>1. start \in S
  BY ScanTypes, Zenon
<1>2. ASSUME NEW h, NEW k \in 1 .. n
      PROVE  IF h.state = "scanning"
             THEN Turn(FALSE, n - k + 1, h.stack, line[n - k + 1], turn(h, k))
             ELSE turn(h, k) = h
  <2> DEFINE i == n + (k - 1) * (-1)
  <2>1. i = n - k + 1
    OBVIOUS
  <2>2. Turn(FALSE, i, h.stack, line[i], StartStep(line, i, h.stack))
    BY StartTurn
  <2>3. turn(h, k) = IF h.state # "scanning" THEN h ELSE StartStep(line, i, h.stack)
    OBVIOUS
  <2> HIDE DEF i, turn
  <2> QED
    BY <2>1, <2>2, <2>3
<1> HIDE DEF turn
<1>3. ASSUME NEW h \in S, NEW k \in 1 .. n PROVE turn(h, k) \in S
  <2>1. CASE h.state = "scanning"
    <3>1. h.stack \in Seq(Pendings(FALSE))
      BY ScanTypes, Zenon
    <3>2. n - k + 1 \in Int
      OBVIOUS
    <3> QED
      BY <1>2, <2>1, <3>1, <3>2, TurnTypes
  <2>2. CASE h.state # "scanning"
    BY <1>2, <2>2
  <2> QED
    BY <2>1, <2>2
<1>4. step \in [S \X (1 .. n) -> S]
  BY <1>3
<1>5. PICK g : IsRecursion(g, S, start, n, step)
  <2> HIDE DEF step, start, S
  <2> QED
    BY <1>1, <1>4, IsRecursionExists
<1>6. g \in [0 .. n -> S] /\ g[0] = start
  BY <1>5 DEF IsRecursion
<1>7. ASSUME NEW k \in 1 .. n
      PROVE  g[k] = turn(g[k - 1], k)
  <2> HIDE DEF S
  <2>1. k - 1 \in 0 .. n /\ <<g[k - 1], k>> \in S \X (1 .. n)
    BY <1>6
  <2>2. g[k] = step[<<g[k - 1], k>>]
    BY <1>5 DEF IsRecursion
  <2> QED
    BY <2>1, <2>2
<1>8. Is(g)
  BY <1>6, <1>7
<1>9. Is(f)
  BY <1>8
<1>10. FindStartOfExpressionInLine(line, n, stack) = f[n]
  BY DEF FindStartOfExpressionInLine, ScanLine, turn
<1> HIDE DEF f
<1>11. f[0] = start /\ \A k \in 1 .. n : f[k] = turn(f[k - 1], k)
  BY <1>9
<1>12. \A k \in 1 .. n :
         IF f[k - 1].state = "scanning"
         THEN Turn(FALSE, n - k + 1, f[k - 1].stack, line[n - k + 1], f[k])
         ELSE f[k] = f[k - 1]
  BY <1>2, <1>11
<1>13. f[n] \in S
  <2> DEFINE T == {k \in 0 .. n : f[k] \in S}
  <2> HIDE DEF S
  <2>1. 0 \in T
    BY <1>1, <1>11
  <2>2. ASSUME NEW k \in 0 .. n - 1, k \in T
        PROVE  k + 1 \in T
    <3>1. k + 1 \in 1 .. n /\ (k + 1) - 1 = k /\ k + 1 \in 0 .. n
      OBVIOUS
    <3>2. f[k + 1] = turn(f[k], k + 1) /\ f[k] \in S
      BY <1>11, <2>2, <3>1
    <3> QED
      BY <1>3, <3>1, <3>2
  <2> HIDE DEF T
  <2>3. \A k \in 0 .. n : k \in T
    BY <2>1, <2>2, UpTo
  <2> QED
    BY <2>3 DEF T
<1> QED
  BY <1>10, <1>11, <1>12, <1>13 DEF StartScan

\* What the characters of a line from startpos on come to.
LEMMA EndInLine ==
  ASSUME NEW line, NEW startpos \in Int, NEW n \in Nat, n = Len(line) - startpos + 1,
         NEW W, NEW b \in Nat, NEW stack, Runs(TRUE, W, b, stack), NEW y,
         \A k \in 1 .. n : W[b + k] = line[startpos + k - 1] /\ y[k] = startpos + k
  PROVE  EndsUp(TRUE, W, b, n, y, FindEndOfExpressionInLine(line, startpos, stack))
<1>1. stack \in Seq(Pendings(TRUE))
  BY Zenon DEF Runs
<1>2. PICK g : EndScan(g, line, startpos, n, stack)
  BY <1>1, EndIsScanned
<1>3. Scans(TRUE, W, b, n, y, g)
  BY <1>2 DEF Scans, EndScan
<1>4. EndsUp(TRUE, W, b, n, y, g[n])
  BY <1>2, <1>3, ScanEndsUp DEF EndScan
<1> QED
  BY <1>2, <1>4 DEF EndScan

\* What the first n characters of a line come to, from the last to the first.
LEMMA StartInLine ==
  ASSUME NEW line, NEW n \in Nat,
         NEW W, NEW b \in Nat, NEW stack, Runs(FALSE, W, b, stack), NEW y,
         \A k \in 1 .. n : W[b + k] = line[n - k + 1] /\ y[k] = n - k + 1
  PROVE  EndsUp(FALSE, W, b, n, y, FindStartOfExpressionInLine(line, n, stack))
<1>1. stack \in Seq(Pendings(FALSE))
  BY Zenon DEF Runs
<1>2. PICK g : StartScan(g, line, n, stack)
  BY <1>1, StartIsScanned
<1>3. Scans(FALSE, W, b, n, y, g)
  BY <1>2 DEF Scans, StartScan
<1>4. EndsUp(FALSE, W, b, n, y, g[n])
  BY <1>2, <1>3, ScanEndsUp DEF StartScan
<1> QED
  BY <1>2, <1>4 DEF StartScan

----------------------------------------------------------------------------
(* The loops over the lines.                                                *)

\* h[k] is what a scan has come to with the k-th line it reads: n[k] characters of W
\* behind the first b[k], where it would find y[k][j] at the j-th.
ScansLines(f, W, m, b, n, y, h) ==
  /\ b[1] = 0 /\ n[1] # 0
  /\ \A k \in 1 .. m : b[k] \in Nat /\ n[k] \in Nat /\ (k # m => b[k + 1] = b[k] + n[k])
  /\ Runs(f, W, 0, <<>>) => EndsUp(f, W, 0, n[1], y[1], h[1])
  /\ \A k \in 1 .. m - 1 :
       /\ \A s : h[k] = Scanning(s) /\ s # <<>> /\ Runs(f, W, b[k + 1], s)
                   => EndsUp(f, W, b[k + 1], n[k + 1], y[k + 1], h[k + 1])
       /\ ~(h[k].state = "scanning" /\ h[k].stack # <<>>) => h[k + 1] = h[k]

\* It goes on behind line k,
GoesOnBehind(f, W, b, n, h, k) == \E s : h[k] = Scanning(s) /\ Runs(f, W, b[k] + n[k], s)

\* has found the end at the j-th character of line i,
HasFound(f, W, b, n, y, h, k) ==
  \E i \in 1 .. k : \E j \in 1 .. n[i] :
    /\ h[k] = Found(y[i][j]) /\ h[i] = h[k] /\ Closes(f, W, b[i] + j)

\* or has stopped; from a bracket on, where it failed.
HasStopped(f, W, b, n, h, k) ==
  /\ h[k].state # "found"
  /\ h[k] = Failed \/ h[k] = Scanning(<<>>)
  /\ W[1] \in Pushes(f) => \E x \in 1 .. b[k] + n[k] : GetsStuck(f, W, x)

\* One of the three.
LinesEndUp(f, W, b, n, y, h, k) ==
  GoesOnBehind(f, W, b, n, h, k) \/ HasFound(f, W, b, n, y, h, k) \/ HasStopped(f, W, b, n, h, k)

\* Nothing is read at first.
LEMMA RunsAtFirst ==
  ASSUME NEW f \in BOOLEAN, NEW W
  PROVE  Runs(f, W, 0, <<>>)
<1> DEFINE G == [k \in 0 .. 0 |-> <<>>]
<1>1. G \in [0 .. 0 -> Seq(Closing)] /\ G[0] = <<>>
  OBVIOUS
<1>2. 1 .. 0 = {}
  OBVIOUS
<1> HIDE DEF G
<1>3. IsRun(f, W, G, 0) /\ StaysOpen(f, W, G, 0)
  BY <1>1, <1>2 DEF IsRun, StaysOpen
<1>4. G[0] = Kept(f, <<>>)
  BY <1>1, KeptNothing
<1>5. <<>> \in Seq(Pendings(f))
  OBVIOUS
<1> QED
  BY <1>3, <1>4, <1>5 DEF Runs

\* What the last character of a line comes to is what the line comes to.
LEMMA LineEndsUp ==
  ASSUME NEW f, NEW W, NEW b, NEW n, NEW y, NEW h, NEW k \in Nat, k # 0,
         EndsUp(f, W, b[k], n[k], y[k], h[k]), b[k] \in Nat, n[k] \in Nat
  PROVE  LinesEndUp(f, W, b, n, y, h, k)
<1>1. k \in 1 .. k
  OBVIOUS
<1>2. ASSUME NEW s, h[k] = Scanning(s), Runs(f, W, b[k] + n[k], s)
      PROVE  GoesOnBehind(f, W, b, n, h, k)
  BY <1>2 DEF GoesOnBehind
<1>3. ASSUME NEW j \in 1 .. n[k], h[k] = Found(y[k][j]), Closes(f, W, b[k] + j)
      PROVE  HasFound(f, W, b, n, y, h, k)
  BY <1>1, <1>3 DEF HasFound
<1>4. ASSUME NEW j \in 1 .. n[k], h[k] = Failed, GetsStuck(f, W, b[k] + j)
      PROVE  HasStopped(f, W, b, n, h, k)
  <2>1. b[k] + j \in 1 .. b[k] + n[k]
    OBVIOUS
  <2>2. h[k].state # "found"
    BY <1>4 DEF Failed
  <2> QED
    BY <1>4, <2>1, <2>2 DEF HasStopped
<1> QED
  BY <1>2, <1>3, <1>4 DEF EndsUp, LinesEndUp

\* They are told by the state.
LEMMA StateOfEnd ==
  ASSUME NEW f, NEW W, NEW b, NEW n, NEW y, NEW h, NEW k
  PROVE  /\ GoesOnBehind(f, W, b, n, h, k) => h[k].state = "scanning" /\ h[k].state # "found"
         /\ HasFound(f, W, b, n, y, h, k) => h[k].state = "found"
         /\ HasStopped(f, W, b, n, h, k) => h[k].state # "found"
<1>1. \A s : Scanning(s).state = "scanning" /\ Scanning(s).state # "found"
  BY DEF Scanning
<1>2. \A q : Found(q).state = "found"
  BY DEF Found
<1> QED
  BY <1>1, <1>2, Zenon DEF GoesOnBehind, HasFound, HasStopped

\* Every line comes to one of the three.
LEMMA AllLinesEndUp ==
  ASSUME NEW f \in BOOLEAN, NEW W, NEW m \in Nat \ {0}, NEW b, NEW n, NEW y, NEW h,
         ScansLines(f, W, m, b, n, y, h)
  PROVE  \A k \in 1 .. m : LinesEndUp(f, W, b, n, y, h, k)
<1>1. /\ b[1] = 0 /\ n[1] # 0
      /\ \A k \in 1 .. m : b[k] \in Nat /\ n[k] \in Nat /\ (k # m => b[k + 1] = b[k] + n[k])
  BY DEF ScansLines
<1>2. LinesEndUp(f, W, b, n, y, h, 1)
  <2>1. EndsUp(f, W, 0, n[1], y[1], h[1])
    BY RunsAtFirst DEF ScansLines
  <2>2. 1 \in 1 .. m
    OBVIOUS
  <2> QED
    BY <1>1, <2>1, <2>2, LineEndsUp
<1>3. ASSUME NEW k \in 1 .. m - 1, LinesEndUp(f, W, b, n, y, h, k), b[k] + n[k] # 0
      PROVE  LinesEndUp(f, W, b, n, y, h, k + 1)
  <2>1. k \in 1 .. m /\ k + 1 \in 1 .. m /\ k # m /\ k + 1 \in Nat /\ k + 1 # 0
    OBVIOUS
  <2>2. b[k + 1] = b[k] + n[k] /\ b[k + 1] \in Nat /\ n[k + 1] \in Nat
    BY <1>1, <2>1
  <2>3. /\ \A s : h[k] = Scanning(s) /\ s # <<>> /\ Runs(f, W, b[k + 1], s)
                    => EndsUp(f, W, b[k + 1], n[k + 1], y[k + 1], h[k + 1])
        /\ ~(h[k].state = "scanning" /\ h[k].stack # <<>>) => h[k + 1] = h[k]
    BY DEF ScansLines
  <2>4. ASSUME NEW s, h[k] = Scanning(s), Runs(f, W, b[k] + n[k], s)
        PROVE  LinesEndUp(f, W, b, n, y, h, k + 1)
    <3>1. h[k].state = "scanning" /\ h[k].stack = s /\ h[k].state # "found"
      BY <2>4 DEF Scanning
    <3>2. ASSUME s # <<>>
          PROVE  LinesEndUp(f, W, b, n, y, h, k + 1)
      <4>1. EndsUp(f, W, b[k + 1], n[k + 1], y[k + 1], h[k + 1])
        BY <2>2, <2>3, <2>4, <3>2
      <4> QED
        BY <2>1, <2>2, <4>1, LineEndsUp
    <3>3. ASSUME s = <<>>
          PROVE  LinesEndUp(f, W, b, n, y, h, k + 1)
      <4>1. h[k + 1] = Scanning(<<>>) /\ h[k + 1].state # "found"
        BY <2>3, <2>4, <3>1, <3>3
      <4>2. W[1] \notin Pushes(f)
        BY <1>3, <2>4, <3>3 DEF Runs
      <4>3. HasStopped(f, W, b, n, h, k + 1)
        BY <4>1, <4>2 DEF HasStopped
      <4> QED
        BY <4>3 DEF LinesEndUp
    <3> QED
      BY <3>2, <3>3
  <2>5. ASSUME HasFound(f, W, b, n, y, h, k)
        PROVE  LinesEndUp(f, W, b, n, y, h, k + 1)
    <3>1. PICK i \in 1 .. k : \E j \in 1 .. n[i] :
            h[k] = Found(y[i][j]) /\ h[i] = h[k] /\ Closes(f, W, b[i] + j)
      BY <2>5 DEF HasFound
    <3>2. h[k].state # "scanning"
      BY <3>1 DEF Found
    <3>3. h[k + 1] = h[k] /\ i \in 1 .. k + 1
      BY <2>3, <3>2
    <3>4. HasFound(f, W, b, n, y, h, k + 1)
      BY <3>1, <3>3 DEF HasFound
    <3> QED
      BY <3>4 DEF LinesEndUp
  <2>6. ASSUME HasStopped(f, W, b, n, h, k)
        PROVE  LinesEndUp(f, W, b, n, y, h, k + 1)
    <3>1. h[k] = Failed \/ h[k] = Scanning(<<>>)
      BY <2>6 DEF HasStopped
    <3>2. ~(h[k].state = "scanning" /\ h[k].stack # <<>>)
      BY <3>1 DEF Failed, Scanning
    <3>3. h[k + 1] = h[k]
      BY <2>3, <3>2
    <3>5. \A x \in 1 .. b[k] + n[k] : x \in 1 .. b[k + 1] + n[k + 1]
      BY <1>1, <2>1, <2>2
    <3>4. HasStopped(f, W, b, n, h, k + 1)
      BY <2>6, <3>3, <3>5 DEF HasStopped
    <3> QED
      BY <3>4 DEF LinesEndUp
  <2> QED
    BY <1>3, <2>4, <2>5, <2>6 DEF LinesEndUp, GoesOnBehind
<1> DEFINE T == {k \in 0 .. m - 1 : LinesEndUp(f, W, b, n, y, h, k + 1) /\ b[k + 1] + n[k + 1] # 0}
<1>4. 0 \in T
  BY <1>1, <1>2
<1>5. ASSUME NEW k \in 0 .. (m - 1) - 1, k \in T
      PROVE  k + 1 \in T
  <2>1. k + 1 \in 1 .. m - 1 /\ k + 1 \in 0 .. m - 1 /\ k + 1 \in 1 .. m /\ (k + 1) + 1 \in 1 .. m /\ k + 1 # m
    OBVIOUS
  <2>2. LinesEndUp(f, W, b, n, y, h, k + 1) /\ b[k + 1] + n[k + 1] # 0
    BY <1>5
  <2>3. LinesEndUp(f, W, b, n, y, h, (k + 1) + 1)
    BY <1>3, <2>1, <2>2
  <2>4. b[(k + 1) + 1] = b[k + 1] + n[k + 1] /\ n[(k + 1) + 1] \in Nat /\ b[k + 1] \in Nat /\ n[k + 1] \in Nat
    BY <1>1, <2>1
  <2>5. b[(k + 1) + 1] + n[(k + 1) + 1] # 0
    BY <2>2, <2>4
  <2> QED
    BY <2>1, <2>3, <2>5
<1> HIDE DEF T
<1>6. \A k \in 0 .. m - 1 : k \in T
  <2>1. m - 1 \in Nat
    OBVIOUS
  <2> QED
    BY <1>4, <1>5, <2>1, UpTo
<1>7. ASSUME NEW k \in 1 .. m PROVE LinesEndUp(f, W, b, n, y, h, k)
  <2>1. k - 1 \in 0 .. m - 1 /\ (k - 1) + 1 = k
    OBVIOUS
  <2>2. LinesEndUp(f, W, b, n, y, h, (k - 1) + 1)
    BY <1>6, <2>1 DEF T
  <2> QED
    BY <2>1, <2>2
<1> QED
  BY <1>7

----------------------------------------------------------------------------
(* Positions in the lines and in the text they make.                        *)

\* The number of characters before a line.
Base(ls, l) == Len(Flat(ls, l - 1))

\* The characters of line l are those behind the first Base(ls, l) of the text.
IsLaidOut(ls, l) ==
  LET n == Len(ls[l]) IN
  /\ n \in Nat /\ Base(ls, l) \in Nat /\ Base(ls, l + 1) = Base(ls, l) + n
  /\ \A j \in 1 .. n : /\ Base(ls, l) + j \in 1 .. Len(Joined(ls))
                       /\ Joined(ls)[Base(ls, l) + j] = ls[l][j]

\* Every line is.
LEMMA LaidOut ==
  ASSUME NEW S, NEW ls \in Seq(Seq(S)), NEW l \in 1 .. Len(ls)
  PROVE  IsLaidOut(ls, l)
<1> DEFINE n == Len(ls[l])
           b == Base(ls, l)
           before == Flat(ls, l - 1)
           upto == Flat(ls, l)
           head == SubSeq(ls, 1, l)
           tail == SubSeq(ls, l + 1, Len(ls))
           behind == FlattenSeq(tail)
<1>1. before \in Seq(S) /\ ls[l] \in Seq(S) /\ upto = before \o ls[l]
  BY FlatGrows
<1>2. n \in Nat /\ b \in Nat /\ upto \in Seq(S) /\ Len(upto) = b + n
      /\ \A j \in 1 .. n : upto[b + j] = ls[l][j]
  <2>1. HasParts(S, before, ls[l])
    BY <1>1, JoinHasParts
  <2>2. Len(before) \in Nat /\ Len(ls[l]) \in Nat
    BY <1>1, LenProperties
  <2> HIDE DEF before, upto
  <2> QED
    BY <1>1, <2>1, <2>2 DEF HasParts, Base, before
<1>3. Base(ls, l + 1) = b + n
  <2>1. (l + 1) - 1 = l
    OBVIOUS
  <2> QED
    BY <1>2, <2>1 DEF Base
<1>4. head \in Seq(Seq(S)) /\ tail \in Seq(Seq(S)) /\ head \o tail = ls
  <2>1. Len(ls) \in Nat /\ l \in Nat /\ 1 \in 1 .. Len(ls) + 1
    BY LenProperties
  <2>2. l \in 1 - 1 .. Len(ls) /\ Len(ls) \in l .. Len(ls)
    BY <2>1
  <2>3. head \o tail = SubSeq(ls, 1, Len(ls))
    BY <2>1, <2>2, ConcatAdjacentSubSeq
  <2>4. \A i \in 1 .. l : ls[i] \in Seq(S)
    <3>1. \A i \in 1 .. l : i \in 1 .. Len(ls)
      BY <2>1
    <3> QED
      BY <3>1, ElementOfSeq
  <2>5. \A i \in l + 1 .. Len(ls) : ls[i] \in Seq(S)
    <3>1. \A i \in l + 1 .. Len(ls) : i \in 1 .. Len(ls)
      BY <2>1
    <3> QED
      BY <3>1, ElementOfSeq
  <2>6. head \in Seq(Seq(S))
    BY <2>1, <2>4, SubSeqProperties
  <2>7. tail \in Seq(Seq(S))
    BY <2>1, <2>5, SubSeqProperties
  <2> QED
    BY <2>3, <2>6, <2>7, SubSeqFull
<1>5. FlattenSeq(head) = upto
  BY DEF Flat
<1> HIDE DEF head, tail
<1>6. Joined(ls) = upto \o behind /\ behind \in Seq(S)
  <2>1. FlattenSeq(head \o tail) = FlattenSeq(head) \o FlattenSeq(tail) /\ FlattenSeq(tail) \in Seq(S)
    BY <1>4, FlattenJoined
  <2> QED
    BY <1>4, <1>5, <2>1 DEF Joined
<1> HIDE DEF n, b, upto, behind, before
<1>7. /\ Len(Joined(ls)) = Len(upto) + Len(behind)
      /\ \A i \in 1 .. Len(upto) : Joined(ls)[i] = upto[i]
  <2>1. HasParts(S, upto, behind)
    BY <1>2, <1>6, JoinHasParts
  <2> QED
    BY <1>6, <2>1 DEF HasParts
<1>8. Len(behind) \in Nat
  BY <1>6, LenProperties
<1>9. ASSUME NEW j \in 1 .. n
      PROVE  b + j \in 1 .. Len(Joined(ls)) /\ Joined(ls)[b + j] = ls[l][j]
  <2>1. b + j \in 1 .. Len(upto) /\ b + j \in 1 .. Len(upto) + Len(behind)
    BY <1>2, <1>8
  <2> QED
    BY <1>2, <1>7, <2>1
<1> QED
  BY <1>2, <1>3, <1>9 DEF IsLaidOut, n, b

\* The first line is at the start, and what would follow the last line at the end.
LEMMA BaseEnds ==
  ASSUME NEW S, NEW ls \in Seq(Seq(S))
  PROVE  /\ Joined(ls) \in Seq(S) /\ Len(Joined(ls)) \in Nat /\ Len(ls) \in Nat
         /\ Base(ls, 1) = 0 /\ Base(ls, Len(ls) + 1) = Len(Joined(ls))
<1>1. Flat(ls, 0) = <<>> /\ Flat(ls, Len(ls)) = Joined(ls)
  BY FlatEnds DEF Joined
<1>2. Joined(ls) \in Seq(S) /\ Len(ls) \in Nat /\ Len(<<>>) = 0
  BY FlattenJoined, LenProperties, EmptySeq DEF Joined
<1>3. 1 - 1 = 0 /\ (Len(ls) + 1) - 1 = Len(ls)
  BY <1>2
<1> QED
  BY <1>1, <1>2, <1>3, LenProperties DEF Base

\* Positions are counted from there.
LEMMA OffsetIs == \A ls, l, j : Offset(ls, l, j) = Base(ls, l) + j
BY DEF Offset, Base, Flat

----------------------------------------------------------------------------
(* CloseExpression and ReverseCloseExpression.                              *)

\* h[k] is what the scan of CloseExpression has come to with the k-th line it reads.
EndsLines(ls, linenr, pos, m, h) ==
  /\ h[1] = FindEndOfExpressionInLine(ls[linenr], pos, <<>>)
  /\ \A k \in 1 .. m - 1 :
       h[k + 1] = IF h[k].state = "scanning" /\ h[k].stack # <<>>
                  THEN FindEndOfExpressionInLine(ls[linenr + k], 1, h[k].stack)
                  ELSE h[k]

\* Its result is where the first of them found the end.
EndIs(ls, linenr, pos, m, h) ==
  \/ \E k \in 1 .. m :
       /\ h[k].state = "found" /\ \A i \in 1 .. k - 1 : h[i].state # "found"
       /\ CloseExpression(ls, linenr, pos) = [linenum |-> linenr + k - 1, pos |-> h[k].pos]
  \/ /\ CloseExpression(ls, linenr, pos) = NoPosition
     /\ MayClose(ls[linenr], pos) => \A k \in 1 .. m : h[k].state # "found"

\* The loop of CloseExpression.
LEMMA CloseIsScanned ==
  ASSUME NEW S, NEW ls \in Seq(Seq(S)), NEW linenr \in 1 .. Len(ls),
         NEW pos \in 1 .. Len(ls[linenr]), NEW m, m = Len(ls) - linenr + 1
  PROVE  \E h : EndsLines(ls, linenr, pos, m, h) /\ EndIs(ls, linenr, pos, m, h)
<1> DEFINE Z == ScanStates(TRUE)
           n == Len(ls)
           start == FindEndOfExpressionInLine(ls[linenr], pos, <<>>)
           turn(h, l) == IF h.state = "scanning" /\ h.stack # <<>>
                         THEN FindEndOfExpressionInLine(ls[l], 1, h.stack) ELSE h
           step == [p \in Z \X (1 .. m - 1) |-> turn(p[1], linenr + p[2])]
           Is(g) == g = [l \in linenr .. n |-> IF l = linenr THEN start ELSE turn(g[l - 1], l)]
           IsScan(g) ==
             g = [l \in linenr .. Len(ls) |->
                    IF l = linenr THEN FindEndOfExpressionInLine(ls[l], pos, <<>>)
                    ELSE IF g[l - 1].state = "scanning" /\ g[l - 1].stack # <<>>
                         THEN FindEndOfExpressionInLine(ls[l], 1, g[l - 1].stack)
                         ELSE g[l - 1]]
           f == CHOOSE g : IsScan(g)
           h == [k \in 1 .. m |-> f[linenr + k - 1]]
           ends == {l \in linenr .. n : f[l].state = "found"}
           first == CHOOSE l \in ends : \A k \in ends : l <= k
<1>1. n \in Nat /\ m \in Nat \ {0} /\ \A l \in 1 .. n : Len(ls[l]) \in Nat
  BY LenProperties, ElementOfSeq
<1>2. ASSUME NEW line, NEW q \in Int, Len(line) - q + 1 \in Nat, NEW stack \in Seq(Pendings(TRUE))
      PROVE  FindEndOfExpressionInLine(line, q, stack) \in Z
  <2> DEFINE k == Len(line) - q + 1
  <2>1. k \in Nat /\ k = Len(line) - q + 1
    BY <1>2
  <2> HIDE DEF k
  <2>2. \E g : EndScan(g, line, q, k, stack)
    BY <1>2, <2>1, EndIsScanned
  <2> QED
    BY <2>2 DEF EndScan
<1>3. start \in Z
  <2>1. <<>> \in Seq(Pendings(TRUE))
    OBVIOUS
  <2>2. pos \in Int /\ Len(ls[linenr]) - pos + 1 \in Nat
    BY <1>1
  <2> QED
    BY <1>2, <2>1, <2>2
<1>4. ASSUME NEW s \in Z, NEW l \in 1 .. n PROVE turn(s, l) \in Z
  <2>1. s.stack \in Seq(Pendings(TRUE))
    BY ScanTypes, Zenon
  <2>2. 1 \in Int /\ Len(ls[l]) - 1 + 1 \in Nat
    BY <1>1
  <2>3. FindEndOfExpressionInLine(ls[l], 1, s.stack) \in Z
    BY <1>2, <2>1, <2>2
  <2> QED
    BY <2>3
<1>0. \A e : IsScan(e) <=> Is(e)
  OBVIOUS
<1> HIDE DEF Z, turn, start
<1>5. step \in [Z \X (1 .. m - 1) -> Z]
  <2>1. \A k \in 1 .. m - 1 : linenr + k \in 1 .. n
    BY <1>1
  <2> QED
    BY <1>4, <2>1
<1>6. PICK g : IsRecursion(g, Z, start, m - 1, step)
  <2>1. m - 1 \in Nat
    BY <1>1
  <2> HIDE DEF step
  <2> QED
    BY <1>3, <1>5, <2>1, IsRecursionExists
<1>7. g \in [0 .. m - 1 -> Z] /\ g[0] = start
  BY <1>6 DEF IsRecursion
<1>8. ASSUME NEW k \in 1 .. m - 1
      PROVE  g[k] = turn(g[k - 1], linenr + k)
  <2>1. k - 1 \in 0 .. m - 1
    BY <1>1
  <2>3. <<g[k - 1], k>> \in Z \X (1 .. m - 1)
    BY <1>7, <2>1
  <2>2. g[k] = step[<<g[k - 1], k>>]
    BY <1>6 DEF IsRecursion
  <2> QED
    BY <2>2, <2>3
<1>9. Is([l \in linenr .. n |-> g[l - linenr]])
  <2> DEFINE e == [l \in linenr .. n |-> g[l - linenr]]
  <2>1. ASSUME NEW l \in linenr .. n
        PROVE  e[l] = IF l = linenr THEN start ELSE turn(e[l - 1], l)
    <3>1. CASE l = linenr
      BY <1>7, <3>1
    <3>2. CASE l # linenr
      <4>1. /\ l - linenr \in 1 .. m - 1 /\ l - 1 \in linenr .. n
            /\ (l - linenr) - 1 = (l - 1) - linenr /\ linenr + (l - linenr) = l
        BY <1>1, <3>2, SMTT(60)
      <4>2. g[l - linenr] = turn(g[(l - linenr) - 1], linenr + (l - linenr))
        BY <1>8, <4>1
      <4>3. e[l] = g[l - linenr] /\ e[l - 1] = g[(l - 1) - linenr]
        BY <4>1
      <4> HIDE DEF e
      <4> QED
        BY <3>2, <4>1, <4>2, <4>3
    <3> QED
      BY <3>1, <3>2
  <2>2. e = [l \in linenr .. n |-> e[l]]
    OBVIOUS
  <2> HIDE DEF e
  <2> QED
    BY <2>1, <2>2 DEF e
<1>10. /\ f[linenr] = start
       /\ \A l \in linenr .. n : l # linenr => f[l] = turn(f[l - 1], l)
  <2>1. \E e : IsScan(e)
    BY <1>0, <1>9
  <2>2. IsScan(f)
    BY <2>1, Zenon
  <2> HIDE DEF IsScan, f
  <2>3. Is(f)
    BY <1>0, <2>2
  <2>4. linenr \in linenr .. n
    BY <1>1
  <2> QED
    BY <2>3, <2>4
<1>11. CloseExpression(ls, linenr, pos)
         = IF MayClose(ls[linenr], pos) /\ ends # {} THEN [linenum |-> first, pos |-> f[first].pos]
           ELSE NoPosition
  BY Zenon DEF CloseExpression
<1> HIDE DEF f
<1>12. EndsLines(ls, linenr, pos, m, h)
  <2>1. h[1] = start
    <3>1. 1 \in 1 .. m /\ linenr + 1 - 1 = linenr /\ linenr \in linenr .. n
      BY <1>1
    <3> QED
      BY <1>10, <3>1
  <2>2. ASSUME NEW k \in 1 .. m - 1
        PROVE  h[k + 1] = turn(h[k], linenr + k)
    <3>1. /\ k \in 1 .. m /\ k + 1 \in 1 .. m /\ linenr + (k + 1) - 1 = linenr + k
          /\ linenr + k \in linenr .. n /\ linenr + k # linenr
      BY <1>1
    <3>2. f[linenr + k] = turn(f[linenr + k - 1], linenr + k)
      BY <1>10, <3>1, SMTT(60)
    <3> QED
      BY <3>1, <3>2
  <2> HIDE DEF h
  <2> QED
    BY <2>1, <2>2 DEF EndsLines, turn, start
<1>13. EndIs(ls, linenr, pos, m, h)
  <2>1. \A k \in 1 .. m : linenr + k - 1 \in linenr .. n /\ h[k] = f[linenr + k - 1]
    BY <1>1
  <2>2. CASE MayClose(ls[linenr], pos) /\ ends # {}
    <3>1. ends \in SUBSET Nat
      BY <1>1
    <3>2. \E l \in ends : \A k \in ends : l <= k
      BY <2>2, <3>1, LeastElement
    <3> HIDE DEF ends
    <3>3. first \in ends /\ \A k \in ends : first <= k
      BY <3>2
    <3> HIDE DEF first
    <3> DEFINE k == first - linenr + 1
    <3>4. first \in linenr .. n /\ f[first].state = "found"
      BY <3>3 DEF ends
    <3>5. k \in 1 .. m /\ linenr + k - 1 = first
      BY <1>1, <3>4, SMTT(60)
    <3> HIDE DEF k, h
    <3>6. h[k] = f[first]
      BY <2>1, <3>5
    <3>7. ASSUME NEW i \in 1 .. k - 1, h[i].state = "found"
          PROVE  FALSE
      <4>1. i \in 1 .. m
        BY <1>1, <3>5
      <4>2. linenr + i - 1 \in linenr .. n /\ h[i] = f[linenr + i - 1]
        BY <2>1, <4>1
      <4>3. linenr + i - 1 \in ends
        BY <3>7, <4>2 DEF ends
      <4>4. first <= linenr + i - 1
        BY <3>3, <4>3
      <4> QED
        BY <1>1, <3>4, <3>5, <4>1, <4>4
    <3>8. CloseExpression(ls, linenr, pos) = [linenum |-> linenr + k - 1, pos |-> h[k].pos]
      BY <1>11, <2>2, <3>5, <3>6
    <3> QED
      BY <3>4, <3>5, <3>6, <3>7, <3>8 DEF EndIs
  <2>3. CASE ~(MayClose(ls[linenr], pos) /\ ends # {})
    <3>1. CloseExpression(ls, linenr, pos) = NoPosition
      BY <1>11, <2>3
    <3>2. ASSUME MayClose(ls[linenr], pos), NEW k \in 1 .. m
          PROVE  h[k].state # "found"
      <4>1. linenr + k - 1 \in linenr .. n /\ h[k] = f[linenr + k - 1] /\ ends = {}
        BY <2>1, <2>3, <3>2
      <4> HIDE DEF h
      <4> QED
        BY <4>1
    <3> QED
      BY <3>1, <3>2 DEF EndIs
  <2> QED
    BY <2>2, <2>3
<1> QED
  BY <1>12, <1>13

\* Where ReverseCloseExpression looks for a start.
MayEnd(line, pos) == line[pos] \in Closing \cup {">", " >= "}

\* h[k] is what its scan has come to with the k-th line it reads.
StartsLines(ls, linenr, pos, h) ==
  /\ h[1] = FindStartOfExpressionInLine(ls[linenr], pos, <<>>)
  /\ \A k \in 1 .. linenr - 1 :
       h[k + 1] = IF h[k].state = "scanning" /\ h[k].stack # <<>>
                  THEN FindStartOfExpressionInLine(ls[linenr - k], Len(ls[linenr - k]), h[k].stack)
                  ELSE h[k]

\* Its result is where the first of them found the start.
StartIs(ls, linenr, pos, h) ==
  \/ \E k \in 1 .. linenr :
       /\ h[k].state = "found" /\ \A i \in 1 .. k - 1 : h[i].state # "found"
       /\ ReverseCloseExpression(ls, linenr, pos) = [linenum |-> linenr - k + 1, pos |-> h[k].pos]
  \/ /\ ReverseCloseExpression(ls, linenr, pos) = NoPosition
     /\ MayEnd(ls[linenr], pos) => \A k \in 1 .. linenr : h[k].state # "found"

\* The loop of ReverseCloseExpression.
LEMMA ReverseIsScanned ==
  ASSUME NEW S, NEW ls \in Seq(Seq(S)), NEW linenr \in 1 .. Len(ls),
         NEW pos \in 1 .. Len(ls[linenr])
  PROVE  \E h : StartsLines(ls, linenr, pos, h) /\ StartIs(ls, linenr, pos, h)
<1> DEFINE Z == ScanStates(FALSE)
           n == Len(ls)
           m == linenr
           start == FindStartOfExpressionInLine(ls[linenr], pos, <<>>)
           turn(h, l) == IF h.state = "scanning" /\ h.stack # <<>>
                         THEN FindStartOfExpressionInLine(ls[l], Len(ls[l]), h.stack) ELSE h
           step == [p \in Z \X (1 .. m - 1) |-> turn(p[1], linenr - p[2])]
           Is(g) == g = [l \in 1 .. linenr |-> IF l = linenr THEN start ELSE turn(g[l + 1], l)]
           IsScan(g) ==
             g = [l \in 1 .. linenr |->
                    IF l = linenr THEN FindStartOfExpressionInLine(ls[l], pos, <<>>)
                    ELSE IF g[l + 1].state = "scanning" /\ g[l + 1].stack # <<>>
                         THEN FindStartOfExpressionInLine(ls[l], Len(ls[l]), g[l + 1].stack)
                         ELSE g[l + 1]]
           f == CHOOSE g : IsScan(g)
           h == [k \in 1 .. m |-> f[linenr - k + 1]]
           starts == {l \in 1 .. linenr : f[l].state = "found"}
           last == CHOOSE l \in starts : \A k \in starts : l >= k
<1>1. n \in Nat /\ m \in Nat \ {0} /\ \A l \in 1 .. n : Len(ls[l]) \in Nat
  BY LenProperties, ElementOfSeq
<1>2. ASSUME NEW line, NEW q \in Nat, NEW stack \in Seq(Pendings(FALSE))
      PROVE  FindStartOfExpressionInLine(line, q, stack) \in Z
  <2>1. \E g : StartScan(g, line, q, stack)
    BY <1>2, StartIsScanned
  <2> QED
    BY <2>1 DEF StartScan
<1>3. start \in Z
  <2>1. <<>> \in Seq(Pendings(FALSE))
    OBVIOUS
  <2>2. pos \in Nat
    BY <1>1
  <2> QED
    BY <1>2, <2>1, <2>2
<1>4. ASSUME NEW s \in Z, NEW l \in 1 .. n PROVE turn(s, l) \in Z
  <2>1. s.stack \in Seq(Pendings(FALSE))
    BY ScanTypes, Zenon
  <2>2. Len(ls[l]) \in Nat
    BY <1>1
  <2>3. FindStartOfExpressionInLine(ls[l], Len(ls[l]), s.stack) \in Z
    BY <1>2, <2>1, <2>2
  <2> QED
    BY <2>3
<1>0. \A e : IsScan(e) <=> Is(e)
  OBVIOUS
<1> HIDE DEF Z, turn, start
<1>5. step \in [Z \X (1 .. m - 1) -> Z]
  <2>1. \A k \in 1 .. m - 1 : linenr - k \in 1 .. n
    BY <1>1
  <2> QED
    BY <1>4, <2>1
<1>6. PICK g : IsRecursion(g, Z, start, m - 1, step)
  <2>1. m - 1 \in Nat
    BY <1>1
  <2> HIDE DEF step
  <2> QED
    BY <1>3, <1>5, <2>1, IsRecursionExists
<1>7. g \in [0 .. m - 1 -> Z] /\ g[0] = start
  BY <1>6 DEF IsRecursion
<1>8. ASSUME NEW k \in 1 .. m - 1
      PROVE  g[k] = turn(g[k - 1], linenr - k)
  <2>1. k - 1 \in 0 .. m - 1
    BY <1>1
  <2>3. <<g[k - 1], k>> \in Z \X (1 .. m - 1)
    BY <1>7, <2>1
  <2>2. g[k] = step[<<g[k - 1], k>>]
    BY <1>6 DEF IsRecursion
  <2> QED
    BY <2>2, <2>3
<1>9. Is([l \in 1 .. linenr |-> g[linenr - l]])
  <2> DEFINE e == [l \in 1 .. linenr |-> g[linenr - l]]
  <2>1. ASSUME NEW l \in 1 .. linenr
        PROVE  e[l] = IF l = linenr THEN start ELSE turn(e[l + 1], l)
    <3>1. CASE l = linenr
      BY <1>7, <3>1
    <3>2. CASE l # linenr
      <4>1. /\ linenr - l \in 1 .. m - 1 /\ l + 1 \in 1 .. linenr
            /\ (linenr - l) - 1 = linenr - (l + 1) /\ linenr - (linenr - l) = l
        BY <1>1, <3>2
      <4>2. g[linenr - l] = turn(g[(linenr - l) - 1], linenr - (linenr - l))
        BY <1>8, <4>1
      <4>3. e[l] = g[linenr - l] /\ e[l + 1] = g[linenr - (l + 1)]
        BY <4>1
      <4> HIDE DEF e
      <4> QED
        BY <3>2, <4>1, <4>2, <4>3
    <3> QED
      BY <3>1, <3>2
  <2>2. e = [l \in 1 .. linenr |-> e[l]]
    OBVIOUS
  <2> HIDE DEF e
  <2> QED
    BY <2>1, <2>2 DEF e
<1>10. /\ f[linenr] = start
       /\ \A l \in 1 .. linenr : l # linenr => f[l] = turn(f[l + 1], l)
  <2>1. \E e : IsScan(e)
    BY <1>0, <1>9
  <2>2. IsScan(f)
    BY <2>1, Zenon
  <2> HIDE DEF IsScan, f
  <2>3. Is(f)
    BY <1>0, <2>2
  <2>4. linenr \in 1 .. linenr
    BY <1>1
  <2> QED
    BY <2>3, <2>4
<1>11. ReverseCloseExpression(ls, linenr, pos)
         = IF MayEnd(ls[linenr], pos) /\ starts # {} THEN [linenum |-> last, pos |-> f[last].pos]
           ELSE NoPosition
  BY Zenon DEF ReverseCloseExpression, MayEnd
<1> HIDE DEF f
<1>12. StartsLines(ls, linenr, pos, h)
  <2>1. h[1] = start
    <3>1. 1 \in 1 .. m /\ linenr - 1 + 1 = linenr
      BY <1>1
    <3> QED
      BY <1>10, <3>1
  <2>2. ASSUME NEW k \in 1 .. m - 1
        PROVE  h[k + 1] = turn(h[k], linenr - k)
    <3>1. /\ k \in 1 .. m /\ k + 1 \in 1 .. m /\ linenr - (k + 1) + 1 = linenr - k
          /\ linenr - k \in 1 .. linenr /\ linenr - k # linenr
          /\ (linenr - k) + 1 = linenr - k + 1
      BY <1>1
    <3>2. f[linenr - k] = turn(f[(linenr - k) + 1], linenr - k)
      BY <1>10, <3>1
    <3> QED
      BY <3>1, <3>2
  <2> HIDE DEF h
  <2> QED
    BY <2>1, <2>2 DEF StartsLines, turn, start
<1>13. StartIs(ls, linenr, pos, h)
  <2>1. \A k \in 1 .. m : linenr - k + 1 \in 1 .. linenr /\ h[k] = f[linenr - k + 1]
    BY <1>1
  <2>2. CASE MayEnd(ls[linenr], pos) /\ starts # {}
    <3>1. starts \in SUBSET (1 .. linenr) /\ linenr \in Nat
      BY <1>1
    <3>2. \E l \in starts : \A k \in starts : l >= k
      BY <2>2, <3>1, GreatestElement
    <3> HIDE DEF starts
    <3>3. last \in starts /\ \A k \in starts : last >= k
      BY <3>2
    <3> HIDE DEF last
    <3> DEFINE k == linenr - last + 1
    <3>4. last \in 1 .. linenr /\ f[last].state = "found"
      BY <3>3 DEF starts
    <3>5. k \in 1 .. m /\ linenr - k + 1 = last
      BY <1>1, <3>4
    <3> HIDE DEF k, h
    <3>6. h[k] = f[last]
      BY <2>1, <3>5
    <3>7. ASSUME NEW i \in 1 .. k - 1, h[i].state = "found"
          PROVE  FALSE
      <4>1. i \in 1 .. m
        BY <1>1, <3>5
      <4>2. linenr - i + 1 \in 1 .. linenr /\ h[i] = f[linenr - i + 1]
        BY <2>1, <4>1
      <4>3. linenr - i + 1 \in starts
        BY <3>7, <4>2 DEF starts
      <4>4. last >= linenr - i + 1
        BY <3>3, <4>3
      <4> QED
        BY <1>1, <3>4, <3>5, <4>1, <4>4
    <3>8. ReverseCloseExpression(ls, linenr, pos) = [linenum |-> linenr - k + 1, pos |-> h[k].pos]
      BY <1>11, <2>2, <3>5, <3>6
    <3> QED
      BY <3>4, <3>5, <3>6, <3>7, <3>8 DEF StartIs
  <2>3. CASE ~(MayEnd(ls[linenr], pos) /\ starts # {})
    <3>1. ReverseCloseExpression(ls, linenr, pos) = NoPosition
      BY <1>11, <2>3
    <3>2. ASSUME MayEnd(ls[linenr], pos), NEW k \in 1 .. m
          PROVE  h[k].state # "found"
      <4>1. linenr - k + 1 \in 1 .. linenr /\ h[k] = f[linenr - k + 1] /\ starts = {}
        BY <2>1, <2>3, <3>2
      <4> HIDE DEF h
      <4> QED
        BY <4>1
    <3> QED
      BY <3>1, <3>2 DEF StartIs
  <2> QED
    BY <2>2, <2>3
<1> QED
  BY <1>12, <1>13

\* What is read forwards from position here of text.
Forwards(text, here) == [i \in 1 .. Len(text) |-> text[here - 1 + i]]

\* What CloseExpression comes to, in terms of the text.
CloseComesTo(ls, linenr, pos) ==
  LET text == Joined(ls)
      here == Base(ls, linenr) + pos
      end == CloseExpression(ls, linenr, pos)
      W == Forwards(text, here)
  IN
  \/ \E l \in linenr .. Len(ls) : \E j \in 1 .. Len(ls[l]) :
       /\ end = [linenum |-> l, pos |-> j + 1] /\ Base(ls, l) + j >= here
       /\ Closes(TRUE, W, Base(ls, l) + j - here + 1)
  \/ /\ end = NoPosition
     /\ MayClose(ls[linenr], pos) /\ W[1] \in Opening =>
          \/ \E x \in 1 .. Len(text) - here + 1 : GetsStuck(TRUE, W, x)
          \/ \E s : Runs(TRUE, W, Len(text) - here + 1, s)

\* CloseExpression scans the text from a position on.
LEMMA CloseScans ==
  ASSUME NEW S, NEW ls \in Seq(Seq(S)), NEW linenr \in 1 .. Len(ls),
         NEW pos \in 1 .. Len(ls[linenr])
  PROVE  CloseComesTo(ls, linenr, pos)
<1> DEFINE N == Len(ls)
           m == N - linenr + 1
           text == Joined(ls)
           here == Base(ls, linenr) + pos
           W == Forwards(text, here)
           b == [k \in 1 .. m |-> IF k = 1 THEN 0 ELSE Base(ls, linenr + k - 1) - here + 1]
           n == [k \in 1 .. m |-> IF k = 1 THEN Len(ls[linenr]) - pos + 1 ELSE Len(ls[linenr + k - 1])]
           y == [k \in 1 .. m |-> [j \in 1 .. n[k] |-> IF k = 1 THEN pos + j ELSE 1 + j]]
           end == CloseExpression(ls, linenr, pos)
<1>1. /\ N \in Nat /\ linenr \in 1 .. N /\ m \in Nat \ {0} /\ m = N - linenr + 1
      /\ 1 \in 1 .. m /\ m \in 1 .. m
  BY LenProperties
<1>2. ASSUME NEW l \in 1 .. N
      PROVE  /\ Len(ls[l]) \in Nat /\ Base(ls, l) \in Nat /\ Base(ls, l + 1) = Base(ls, l) + Len(ls[l])
             /\ \A j \in 1 .. Len(ls[l]) : /\ Base(ls, l) + j \in 1 .. Len(text)
                                           /\ text[Base(ls, l) + j] = ls[l][j]
  <2>1. IsLaidOut(ls, l)
    BY LaidOut
  <2> QED
    BY <2>1 DEF IsLaidOut
<1>3. Base(ls, N + 1) = Len(text) /\ Len(text) \in Nat
  BY BaseEnds
<1> HIDE DEF N, text
<1>4. /\ Len(ls[linenr]) \in Nat /\ pos \in 1 .. Len(ls[linenr]) /\ here \in Nat \ {0}
      /\ here = Base(ls, linenr) + pos /\ Base(ls, linenr) \in Nat
  BY <1>1, <1>2, SMTT(60)
<1> HIDE DEF m, here
<1>5. PICK h : EndsLines(ls, linenr, pos, m, h) /\ EndIs(ls, linenr, pos, m, h)
  BY CloseIsScanned DEF m, N
<1>6. ASSUME NEW l \in linenr + 1 .. N
      PROVE  Base(ls, l) - here + 1 \in Nat
  <2> DEFINE T == {k \in 0 .. N - linenr - 1 : Base(ls, linenr + 1 + k) >= here}
  <2>1. N - linenr - 1 \in Nat
    BY <1>1
  <2>2. 0 \in T
    <3>1. linenr + 1 + 0 = linenr + 1 /\ Base(ls, linenr + 1) = Base(ls, linenr) + Len(ls[linenr])
      BY <1>1, <1>2, SMTT(60)
    <3> QED
      BY <1>4, <2>1, <3>1
  <2>3. ASSUME NEW k \in 0 .. (N - linenr - 1) - 1, k \in T
        PROVE  k + 1 \in T
    <3>1. /\ linenr + 1 + k \in 1 .. N /\ linenr + 1 + (k + 1) = (linenr + 1 + k) + 1
          /\ k + 1 \in 0 .. N - linenr - 1
      BY <1>1, SMTT(60)
    <3>2. /\ Base(ls, (linenr + 1 + k) + 1) = Base(ls, linenr + 1 + k) + Len(ls[linenr + 1 + k])
          /\ Len(ls[linenr + 1 + k]) \in Nat /\ Base(ls, linenr + 1 + k) \in Nat
      BY <1>2, <3>1
    <3>3. Base(ls, linenr + 1 + k) >= here
      BY <2>3
    <3>4. Base(ls, (linenr + 1 + k) + 1) >= here
      BY <1>4, <3>2, <3>3
    <3> QED
      BY <3>1, <3>4
  <2> HIDE DEF T
  <2>4. \A k \in 0 .. N - linenr - 1 : k \in T
    BY <2>1, <2>2, <2>3, UpTo
  <2>5. l - linenr - 1 \in 0 .. N - linenr - 1 /\ linenr + 1 + (l - linenr - 1) = l /\ l \in 1 .. N
    BY <1>1, SMTT(60)
  <2>6. Base(ls, l) >= here
    BY <2>4, <2>5 DEF T
  <2> QED
    BY <1>2, <1>4, <2>5, <2>6, SMTT(60)
<1>7. ASSUME NEW k \in 1 .. m
      PROVE  /\ b[k] \in Nat /\ n[k] \in Nat
             /\ b[k] + n[k] = Base(ls, linenr + k) - here + 1
             /\ k # m => b[k + 1] = b[k] + n[k]
  <2>1. linenr + k - 1 \in 1 .. N /\ (linenr + k - 1) + 1 = linenr + k
    BY <1>1
  <2>2. /\ Base(ls, linenr + k) = Base(ls, linenr + k - 1) + Len(ls[linenr + k - 1])
        /\ Len(ls[linenr + k - 1]) \in Nat /\ Base(ls, linenr + k - 1) \in Nat
    BY <1>2, <2>1
  <2>3. b[k] \in Nat /\ n[k] \in Nat /\ b[k] + n[k] = Base(ls, linenr + k) - here + 1
    <3>1. CASE k = 1
      <4>1. b[k] = 0 /\ n[k] = Len(ls[linenr]) - pos + 1 /\ linenr + k - 1 = linenr
        BY <1>1, <3>1
      <4> HIDE DEF b, n
      <4> QED
        BY <1>4, <2>2, <4>1
    <3>2. CASE k # 1
      <4> DEFINE base == Base(ls, linenr + k - 1)
                 len == Len(ls[linenr + k - 1])
                 next == Base(ls, linenr + k)
      <4>1. b[k] = base - here + 1 /\ n[k] = len
        BY <3>2
      <4>2. linenr + k - 1 \in linenr + 1 .. N
        BY <1>1, <3>2
      <4> HIDE DEF b, n
      <4>3. b[k] \in Nat
        BY <1>6, <4>1, <4>2
      <4>4. next = base + len /\ len \in Nat /\ base \in Nat
        BY <2>2
      <4> HIDE DEF base, len, next
      <4>5. b[k] + n[k] = next - here + 1 /\ n[k] \in Nat
        BY <1>4, <4>1, <4>4
      <4> QED
        BY <4>3, <4>5 DEF next
    <3> QED
      BY <3>1, <3>2
  <2>4. k # m => b[k + 1] = Base(ls, linenr + k) - here + 1
    <3>1. k # m => k + 1 \in 1 .. m /\ k + 1 # 1 /\ linenr + (k + 1) - 1 = linenr + k
      BY <1>1
    <3> QED
      BY <3>1
  <2> QED
    BY <2>3, <2>4
<1>8. \A i \in 1 .. Len(text) : W[i] = text[here - 1 + i]
  BY DEF Forwards
<1> HIDE DEF W
<1>9. EndsUp(TRUE, W, 0, n[1], y[1], h[1])
  <2> DEFINE q == n[1]
  <2>1. q = Len(ls[linenr]) - pos + 1 /\ q \in Nat /\ y[1] = [j \in 1 .. q |-> pos + j]
    BY <1>1, <1>4
  <2>2. h[1] = FindEndOfExpressionInLine(ls[linenr], pos, <<>>)
    BY <1>5 DEF EndsLines
  <2>3. Runs(TRUE, W, 0, <<>>)
    BY RunsAtFirst
  <2> DEFINE z == y[1]
  <2> HIDE DEF q, z
  <2>4. ASSUME NEW k \in 1 .. q
        PROVE  W[0 + k] = ls[linenr][pos + k - 1] /\ z[k] = pos + k
    <3>1. pos + k - 1 \in 1 .. Len(ls[linenr]) /\ Base(ls, linenr) + (pos + k - 1) = here - 1 + k /\ 0 + k = k
      BY <1>4, <2>1
    <3>2. here - 1 + k \in 1 .. Len(text) /\ text[here - 1 + k] = ls[linenr][pos + k - 1]
      BY <1>1, <1>2, <3>1
    <3>3. k \in 1 .. Len(text)
      BY <1>3, <1>4, <2>1, <3>2
    <3>4. z[k] = pos + k
      BY <2>1 DEF z
    <3> QED
      BY <1>8, <3>1, <3>2, <3>3, <3>4
  <2>5. pos \in Int /\ 0 \in Nat
    BY <1>4
  <2>6. EndsUp(TRUE, W, 0, q, z, FindEndOfExpressionInLine(ls[linenr], pos, <<>>))
    BY <2>1, <2>3, <2>4, <2>5, EndInLine
  <2> QED
    BY <2>2, <2>6 DEF q, z
<1>10. ASSUME NEW k \in 1 .. m - 1
       PROVE  /\ \A s : h[k] = Scanning(s) /\ s # <<>> /\ Runs(TRUE, W, b[k + 1], s)
                          => EndsUp(TRUE, W, b[k + 1], n[k + 1], y[k + 1], h[k + 1])
              /\ ~(h[k].state = "scanning" /\ h[k].stack # <<>>) => h[k + 1] = h[k]
  <2> DEFINE q == n[k + 1]
             a == b[k + 1]
             z == y[k + 1]
             l == linenr + k
             line == ls[l]
  <2>1. h[k + 1] = IF h[k].state = "scanning" /\ h[k].stack # <<>>
                   THEN FindEndOfExpressionInLine(line, 1, h[k].stack) ELSE h[k]
    BY <1>5 DEF EndsLines
  <2>2. k + 1 \in 1 .. m /\ k + 1 # 1 /\ linenr + (k + 1) - 1 = l /\ l \in 1 .. N
    BY <1>1
  <2>3. q = Len(line) /\ a = Base(ls, l) - here + 1 /\ z = [j \in 1 .. q |-> 1 + j]
    BY <2>2
  <2>4. a \in Nat /\ q \in Nat
    BY <1>7, <2>2
  <2>5. Base(ls, l) \in Nat
        /\ \A j \in 1 .. q : Base(ls, l) + j \in 1 .. Len(text) /\ text[Base(ls, l) + j] = line[j]
    BY <1>2, <2>2, <2>3
  <2> HIDE DEF q, a, z, line
  <2>6. ASSUME NEW j \in 1 .. q
        PROVE  W[a + j] = line[1 + j - 1] /\ z[j] = 1 + j
    <3> DEFINE base == Base(ls, l)
    <3>0. base \in Nat /\ a = base - here + 1
      BY <2>3, <2>5
    <3> HIDE DEF base
    <3>5. here \in Int /\ a \in Int /\ base \in Int /\ j \in Int
      BY <1>4, <2>4, <3>0
    <3>1. here - 1 + (a + j) = base + j /\ 1 + j - 1 = j
      BY <3>0, <3>5
    <3> USE DEF base
    <3>6. base + j \in 1 .. Len(text)
      BY <2>5
    <3> HIDE DEF base
    <3>2. a + j \in 1 .. Len(text)
      <4> DEFINE len == Len(text)
                 bj == base + j
                 aj == a + j
      <4>1. len \in Int /\ bj \in Int /\ aj \in Int /\ bj <= len
        BY <1>3, <3>5, <3>6
      <4>2. aj = bj - here + 1
        BY <3>0, <3>5
      <4>3. here >= 1 /\ aj >= 1
        BY <1>4, <2>4
      <4> HIDE DEF aj, bj, len
      <4>4. aj <= len
        BY <3>5, <4>1, <4>2, <4>3
      <4>5. aj \in 1 .. len
        BY <4>1, <4>3, <4>4
      <4> QED
        BY <4>5 DEF aj, len
    <3> USE DEF base
    <3>3. W[a + j] = text[here - 1 + (a + j)]
      BY <1>8, <3>2
    <3>4. z[j] = 1 + j
      BY <2>3
    <3> QED
      BY <2>5, <3>1, <3>3, <3>4
  <2>7. ASSUME NEW s, h[k] = Scanning(s), s # <<>>, Runs(TRUE, W, a, s)
        PROVE  EndsUp(TRUE, W, a, q, z, h[k + 1])
    <3>1. h[k + 1] = FindEndOfExpressionInLine(line, 1, s)
      BY <2>1, <2>7 DEF Scanning
    <3>2. q = Len(line) - 1 + 1 /\ 1 \in Int
      BY <2>3, <2>4
    <3>3. EndsUp(TRUE, W, a, q, z, FindEndOfExpressionInLine(line, 1, s))
      BY <2>4, <2>6, <2>7, <3>2, EndInLine
    <3> QED
      BY <3>1, <3>3
  <2> QED
    BY <2>1, <2>7 DEF q, a, z
<1>11. b[1] = 0 /\ n[1] # 0
  BY <1>1, <1>4
<1>12. /\ \A k \in 1 .. m : n[k] = IF k = 1 THEN Len(ls[linenr]) - pos + 1 ELSE Len(ls[linenr + k - 1])
       /\ \A k \in 1 .. m : b[k] = IF k = 1 THEN 0 ELSE Base(ls, linenr + k - 1) - here + 1
  OBVIOUS
<1> HIDE DEF b, n
<1>13. \A k \in 1 .. m : \A j \in 1 .. n[k] : y[k][j] = IF k = 1 THEN pos + j ELSE 1 + j
  OBVIOUS
<1> HIDE DEF y
<1>14. ScansLines(TRUE, W, m, b, n, y, h)
  BY <1>7, <1>9, <1>10, <1>11 DEF ScansLines
<1>15. \A k \in 1 .. m : LinesEndUp(TRUE, W, b, n, y, h, k)
  BY <1>1, <1>14, AllLinesEndUp
<1>16. ASSUME NEW k \in 1 .. m, h[k].state = "found", \A i \in 1 .. k - 1 : h[i].state # "found",
              end = [linenum |-> linenr + k - 1, pos |-> h[k].pos]
       PROVE  \E l \in linenr .. N : \E j \in 1 .. Len(ls[l]) :
                /\ end = [linenum |-> l, pos |-> j + 1] /\ Base(ls, l) + j >= here
                /\ Closes(TRUE, W, Base(ls, l) + j - here + 1)
  <2>1. HasFound(TRUE, W, b, n, y, h, k)
    BY <1>15, <1>16, StateOfEnd, Zenon DEF LinesEndUp
  <2>2. PICK i \in 1 .. k : \E j \in 1 .. n[i] :
          h[k] = Found(y[i][j]) /\ h[i] = h[k] /\ Closes(TRUE, W, b[i] + j)
    BY <2>1 DEF HasFound
  <2>3. i = k
    <3>1. h[i].state = "found"
      BY <1>16, <2>2
    <3>2. i \in 1 .. k - 1 \/ i = k
      BY <1>1
    <3> QED
      BY <1>16, <3>1, <3>2
  <2>4. PICK j \in 1 .. n[k] : h[k] = Found(y[k][j]) /\ Closes(TRUE, W, b[k] + j)
    BY <2>2, <2>3
  <2>5. h[k].pos = IF k = 1 THEN pos + j ELSE 1 + j
    BY <1>13, <2>4 DEF Found
  <2> DEFINE l == linenr + k - 1
             p == IF k = 1 THEN pos + j - 1 ELSE j
             base == Base(ls, l)
             len == Len(ls[l])
             bk == b[k]
             nk == n[k]
  <2>6. l \in linenr .. N /\ l \in 1 .. N
    BY <1>1
  <2>10. len \in Nat /\ base \in Nat
    BY <1>2, <2>6
  <2>11. nk \in Nat /\ bk \in Nat /\ j \in 1 .. nk
    BY <1>7
  <2>7. p \in 1 .. len /\ h[k].pos = p + 1 /\ bk + j = base + p - here + 1 /\ base + p >= here
    <3>1. CASE k = 1
      <4>1. l = linenr /\ p = pos + j - 1 /\ nk = Len(ls[linenr]) - pos + 1 /\ bk = 0
        BY <1>1, <1>12, <3>1
      <4>2. len = Len(ls[linenr]) /\ base = Base(ls, linenr)
        BY <4>1
      <4>3. h[k].pos = pos + j
        BY <2>5, <3>1
      <4> HIDE DEF l, p, base, len, bk, nk
      <4>4. /\ here \in Int /\ pos \in Int /\ base \in Int /\ j \in Int /\ len \in Int
            /\ pos >= 1 /\ j >= 1 /\ j <= len - pos + 1 /\ here = base + pos
        BY <1>4, <2>10, <2>11, <4>1, <4>2
      <4>5. p \in Int /\ 1 <= p /\ p <= len /\ pos + j = p + 1 /\ 0 + j = base + p - here + 1 /\ base + p >= here
        BY <4>1, <4>4
      <4> QED
        BY <2>10, <4>1, <4>3, <4>5
    <3>2. CASE k # 1
      <4>1. p = j /\ nk = len /\ bk = base - here + 1
        BY <1>12, <3>2
      <4>3. h[k].pos = 1 + j
        BY <2>5, <3>2
      <4> HIDE DEF l, p, base, len, bk, nk
      <4>4. here \in Int /\ base \in Int /\ bk >= 0
        BY <1>4, <2>10, <2>11
      <4>6. p \in 1 .. len /\ p \in Int /\ p >= 1
        BY <2>11, <2>10, <4>1
      <4>5. bk + j = base + p - here + 1 /\ base + p >= here
        BY <4>1, <4>4, <4>6
      <4>7. h[k].pos = p + 1
        BY <4>1, <4>3, <4>6
      <4> QED
        BY <4>5, <4>6, <4>7
    <3> QED
      BY <3>1, <3>2
  <2>8. end = [linenum |-> l, pos |-> p + 1]
    BY <1>16, <2>7
  <2>9. Closes(TRUE, W, base + p - here + 1)
    <3>1. Closes(TRUE, W, bk + j)
      BY <2>4
    <3> HIDE DEF bk, base, p
    <3> QED
      BY <2>7, <3>1
  <2> HIDE DEF l, p, end
  <2> QED
    BY <2>6, <2>7, <2>8, <2>9 DEF base, len
<1>17. ASSUME \A k \in 1 .. m : h[k].state # "found", W[1] \in Opening
       PROVE  (\E x \in 1 .. Len(text) - here + 1 : GetsStuck(TRUE, W, x)) \/ (\E s : Runs(TRUE, W, Len(text) - here + 1, s))
  <2>1. LinesEndUp(TRUE, W, b, n, y, h, m)
    BY <1>1, <1>15
  <2>2. ~HasFound(TRUE, W, b, n, y, h, m)
    BY <1>1, <1>17, StateOfEnd, Zenon
  <2>3. b[m] + n[m] = Len(text) - here + 1
    <3>1. linenr + m = N + 1
      BY <1>1
    <3> QED
      BY <1>1, <1>3, <1>7, <3>1
  <2>4. W[1] \in Pushes(TRUE)
    BY <1>17, Zenon DEF Pushes
  <2>5. CASE GoesOnBehind(TRUE, W, b, n, h, m)
    BY <2>3, <2>5 DEF GoesOnBehind
  <2>6. CASE HasStopped(TRUE, W, b, n, h, m)
    BY <2>3, <2>4, <2>6 DEF HasStopped
  <2> QED
    BY <2>1, <2>2, <2>5, <2>6 DEF LinesEndUp
<1>18. CASE \E k \in 1 .. m :
              /\ h[k].state = "found" /\ \A i \in 1 .. k - 1 : h[i].state # "found"
              /\ end = [linenum |-> linenr + k - 1, pos |-> h[k].pos]
  <2> HIDE DEF end
  <2>1. \E l \in linenr .. N : \E j \in 1 .. Len(ls[l]) :
          /\ end = [linenum |-> l, pos |-> j + 1] /\ Base(ls, l) + j >= here
          /\ Closes(TRUE, W, Base(ls, l) + j - here + 1)
    BY <1>16, <1>18
  <2> QED
    BY <2>1, Zenon DEF CloseComesTo, N, W, here, text, end
<1>19. CASE /\ end = NoPosition
            /\ MayClose(ls[linenr], pos) => \A k \in 1 .. m : h[k].state # "found"
  <2> HIDE DEF end
  <2>1. MayClose(ls[linenr], pos) /\ W[1] \in Opening =>
          (\E x \in 1 .. Len(text) - here + 1 : GetsStuck(TRUE, W, x)) \/ (\E s : Runs(TRUE, W, Len(text) - here + 1, s))
    BY <1>17, <1>19
  <2>2. end = NoPosition
    BY <1>19
  <2> QED
    BY <2>1, <2>2, Zenon DEF CloseComesTo, W, here, text, end
<1> QED
  BY <1>5, <1>18, <1>19 DEF EndIs

\* What is read backwards from position there of text.
Backwards(text, there) == [i \in 1 .. there |-> text[there + 1 - i]]

\* What ReverseCloseExpression comes to, in terms of the text.
ReverseComesTo(ls, linenr, pos) ==
  LET text == Joined(ls)
      there == Base(ls, linenr) + pos
      start == ReverseCloseExpression(ls, linenr, pos)
      W == Backwards(text, there)
  IN
  \/ \E l \in 1 .. linenr : \E p \in 1 .. Len(ls[l]) :
       /\ start = [linenum |-> l, pos |-> p] /\ Base(ls, l) + p <= there
       /\ Closes(FALSE, W, there - (Base(ls, l) + p) + 1)
  \/ /\ start = NoPosition
     /\ MayEnd(ls[linenr], pos) /\ W[1] \in Closing =>
          \/ \E x \in 1 .. there : GetsStuck(FALSE, W, x)
          \/ \E s : Runs(FALSE, W, there, s)

\* ReverseCloseExpression scans the text back from a position.
LEMMA ReverseScans ==
  ASSUME NEW S, NEW ls \in Seq(Seq(S)), NEW linenr \in 1 .. Len(ls),
         NEW pos \in 1 .. Len(ls[linenr])
  PROVE  ReverseComesTo(ls, linenr, pos)
<1> DEFINE N == Len(ls)
           m == linenr
           text == Joined(ls)
           there == Base(ls, linenr) + pos
           W == Backwards(text, there)
           n == [k \in 1 .. m |-> IF k = 1 THEN pos ELSE Len(ls[linenr - k + 1])]
           b == [k \in 1 .. m |-> there - Base(ls, linenr - k + 1) - n[k]]
           y == [k \in 1 .. m |-> [j \in 1 .. n[k] |-> n[k] - j + 1]]
           start == ReverseCloseExpression(ls, linenr, pos)
<1>1. /\ N \in Nat /\ linenr \in 1 .. N /\ linenr \in Nat \ {0} /\ m = linenr
      /\ 1 \in 1 .. m /\ m \in 1 .. m
  BY LenProperties
<1>2. ASSUME NEW l \in 1 .. N
      PROVE  /\ Len(ls[l]) \in Nat /\ Base(ls, l) \in Nat /\ Base(ls, l + 1) = Base(ls, l) + Len(ls[l])
             /\ \A j \in 1 .. Len(ls[l]) : /\ Base(ls, l) + j \in 1 .. Len(text)
                                           /\ text[Base(ls, l) + j] = ls[l][j]
  <2>1. IsLaidOut(ls, l)
    BY LaidOut
  <2> QED
    BY <2>1 DEF IsLaidOut
<1>3. Base(ls, 1) = 0
  BY BaseEnds
<1> HIDE DEF N, text
<1>4. /\ Len(ls[linenr]) \in Nat /\ pos \in 1 .. Len(ls[linenr]) /\ there \in Nat \ {0}
      /\ there = Base(ls, linenr) + pos /\ Base(ls, linenr) \in Nat
  BY <1>1, <1>2
<1> HIDE DEF m, there
<1>5. PICK h : StartsLines(ls, linenr, pos, h) /\ StartIs(ls, linenr, pos, h)
  BY ReverseIsScanned
<1>6. ASSUME NEW l \in 1 .. linenr
      PROVE  there - Base(ls, l) \in Nat
  <2> DEFINE T == {k \in 0 .. linenr - 1 : there - Base(ls, linenr - k) \in Nat}
  <2>1. linenr - 1 \in Nat
    BY <1>1
  <2>2. 0 \in T
    <3>1. linenr - 0 = linenr
      BY <1>1
    <3> QED
      BY <1>4, <2>1, <3>1
  <2>3. ASSUME NEW k \in 0 .. (linenr - 1) - 1, k \in T
        PROVE  k + 1 \in T
    <3>1. /\ linenr - (k + 1) \in 1 .. N /\ (linenr - (k + 1)) + 1 = linenr - k
          /\ k + 1 \in 0 .. linenr - 1
      BY <1>1
    <3>2. /\ Base(ls, linenr - k) = Base(ls, linenr - (k + 1)) + Len(ls[linenr - (k + 1)])
          /\ Len(ls[linenr - (k + 1)]) \in Nat /\ Base(ls, linenr - (k + 1)) \in Nat
      BY <1>2, <3>1
    <3>3. there - Base(ls, linenr - k) \in Nat
      BY <2>3
    <3> DEFINE cb == Base(ls, linenr - (k + 1))
               cn == Len(ls[linenr - (k + 1)])
               ce == Base(ls, linenr - k)
    <3>4. ce = cb + cn /\ cb \in Nat /\ cn \in Nat /\ there - ce \in Nat
      BY <3>2, <3>3
    <3> HIDE DEF cb, cn, ce
    <3>5. there \in Int /\ cb \in Int /\ cn \in Int /\ cn >= 0 /\ there - ce >= 0
      BY <1>4, <3>4
    <3>6. there - cb \in Nat
      BY <3>4, <3>5
    <3> QED
      BY <3>1, <3>6 DEF cb
  <2> HIDE DEF T
  <2>4. \A k \in 0 .. linenr - 1 : k \in T
    BY <2>1, <2>2, <2>3, UpTo
  <2>5. linenr - l \in 0 .. linenr - 1 /\ linenr - (linenr - l) = l
    BY <1>1
  <2> QED
    BY <2>4, <2>5 DEF T
<1>7. ASSUME NEW k \in 1 .. m
      PROVE  /\ linenr - k + 1 \in 1 .. N /\ linenr - k + 1 \in 1 .. linenr
             /\ n[k] \in Nat /\ n[k] <= Len(ls[linenr - k + 1])
             /\ b[k] \in Nat /\ b[k] + n[k] = there - Base(ls, linenr - k + 1)
             /\ k # m => b[k + 1] = b[k] + n[k]
  <2> DEFINE l == linenr - k + 1
  <2>1. l \in 1 .. N /\ l \in 1 .. linenr
    BY <1>1
  <2>2. Len(ls[l]) \in Nat /\ Base(ls, l) \in Nat /\ Base(ls, l + 1) = Base(ls, l) + Len(ls[l])
    BY <1>2, <2>1
  <2>3. n[k] = IF k = 1 THEN pos ELSE Len(ls[l])
    OBVIOUS
  <2>4. b[k] = there - Base(ls, l) - n[k]
    OBVIOUS
  <2>5. k = 1 => l = linenr
    BY <1>1
  <2>6. k # 1 => l + 1 \in 1 .. linenr
    BY <1>1
  <2>7. k # m => k + 1 \in 1 .. m /\ k + 1 # 1 /\ linenr - (k + 1) + 1 \in 1 .. N
                 /\ l = (linenr - (k + 1) + 1) + 1
    BY <1>1, SMTT(60)
  <2>8. k # m => b[k + 1] = there - Base(ls, linenr - (k + 1) + 1) - n[k + 1]
                 /\ n[k + 1] = Len(ls[linenr - (k + 1) + 1])
    BY <2>7
  <2> HIDE DEF l
  <2> DEFINE nk == n[k]
             bk == b[k]
             len == Len(ls[l])
             base == Base(ls, l)
  <2>9. nk \in Nat /\ nk <= len
    BY <1>4, <2>2, <2>3, <2>5, SMTT(60)
  <2>10. there - base - nk \in Nat
    <3>1. CASE k = 1
      <4>1. nk = pos /\ base = Base(ls, linenr)
        BY <2>3, <2>5, <3>1
      <4> HIDE DEF nk, base
      <4> QED
        BY <1>4, <4>1
    <3>2. CASE k # 1
      <4>1. there - Base(ls, l + 1) \in Nat /\ nk = len /\ Base(ls, l + 1) = base + len
        BY <1>6, <2>2, <2>3, <2>6, <3>2
      <4>2. base \in Nat /\ len \in Nat
        BY <2>2
      <4> HIDE DEF nk, base, len
      <4> QED
        BY <1>4, <4>1, <4>2, SMTT(30)
    <3> QED
      BY <3>1, <3>2
  <2>11. bk = there - base - nk
    BY <2>4
  <2>12. base \in Nat
    BY <2>2
  <2>13. ASSUME k # m PROVE b[k + 1] = bk + nk
    <3> DEFINE c == linenr - (k + 1) + 1
               cn == Len(ls[c])
               cb == Base(ls, c)
    <3>1. b[k + 1] = there - cb - cn
      BY <2>8, <2>13
    <3>2. cb \in Nat /\ cn \in Nat /\ base = cb + cn
      BY <1>2, <2>7, <2>13
    <3> HIDE DEF b, n, nk, bk, base, c, cn, cb
    <3> QED
      BY <1>4, <2>9, <2>11, <3>1, <3>2, SMTT(30)
  <2> HIDE DEF nk, bk, base, len
  <2>14. bk + nk = there - base
    BY <1>4, <2>9, <2>11, <2>12
  <2> QED
    BY <2>1, <2>9, <2>10, <2>11, <2>13, <2>14 DEF nk, bk, base, len, l
<1>8. \A i \in 1 .. there : W[i] = text[there + 1 - i]
  BY DEF Backwards
<1> HIDE DEF W
<1>9. \A k \in 1 .. m : \A j \in 1 .. n[k] : y[k][j] = n[k] - j + 1
  OBVIOUS
<1>10. /\ n[1] = pos /\ b[1] = 0 /\ n[1] # 0
       /\ \A k \in 1 .. m : k # 1 => n[k] = Len(ls[linenr - k + 1])
  BY <1>1, <1>4
<1> HIDE DEF b, n, y
<1>11. ASSUME NEW k \in 1 .. m, NEW j \in 1 .. n[k]
       PROVE  /\ W[b[k] + j] = ls[linenr - k + 1][n[k] - j + 1] /\ y[k][j] = n[k] - j + 1
              /\ n[k] - j + 1 \in 1 .. Len(ls[linenr - k + 1])
              /\ b[k] + j = there - (Base(ls, linenr - k + 1) + (n[k] - j + 1)) + 1
              /\ Base(ls, linenr - k + 1) + (n[k] - j + 1) <= there
  <2> DEFINE l == linenr - k + 1
             nk == n[k]
             bk == b[k]
             len == Len(ls[l])
             base == Base(ls, l)
             p == nk - j + 1
  <2>1. l \in 1 .. N
    BY <1>7
  <2>2. nk \in Nat /\ nk <= len /\ bk \in Nat /\ bk + nk = there - base
    BY <1>7
  <2>3. len \in Nat /\ base \in Nat
    BY <1>2, <2>1
  <2>4. \A q \in 1 .. len : base + q \in 1 .. Len(text) /\ text[base + q] = ls[l][q]
    BY <1>2, <2>1
  <2>5. j \in 1 .. nk
    OBVIOUS
  <2> HIDE DEF l, nk, bk, len, base
  <2>10. /\ there \in Int /\ bk \in Int /\ nk \in Int /\ base \in Int /\ j \in Int /\ len \in Int /\ p \in Int
         /\ p = nk - j + 1 /\ bk >= 0 /\ 1 <= j /\ j <= nk /\ nk <= len /\ base >= 0
         /\ bk = there - base - nk
    BY <1>4, <2>2, <2>3, <2>5
  <2> HIDE DEF p
  <2>11. bk + j = there - (base + p) + 1 /\ there + 1 - (bk + j) = base + p
    BY <2>10
  <2>12. p \in 1 .. len /\ base + p <= there
    BY <2>10
  <2>13. bk + j \in 1 .. there
    BY <2>10
  <2>6. /\ p \in 1 .. len /\ bk + j = there - (base + p) + 1 /\ base + p <= there
        /\ bk + j \in 1 .. there /\ there + 1 - (bk + j) = base + p
    BY <2>11, <2>12, <2>13
  <2>7. W[bk + j] = ls[l][p]
    BY <1>8, <2>4, <2>6
  <2>8. y[k][j] = p
    BY <1>9 DEF nk, p
  <2>9. /\ W[bk + j] = ls[l][p] /\ y[k][j] = p /\ p \in 1 .. len
        /\ bk + j = there - (base + p) + 1 /\ base + p <= there
    BY <2>6, <2>7, <2>8
  <2> QED
    BY <2>9 DEF l, nk, bk, len, base, p
<1>12. EndsUp(FALSE, W, 0, n[1], y[1], h[1])
  <2> DEFINE q == n[1]
             z == y[1]
  <2>1. h[1] = FindStartOfExpressionInLine(ls[linenr], pos, <<>>)
    BY <1>5 DEF StartsLines
  <2>2. Runs(FALSE, W, 0, <<>>)
    BY RunsAtFirst
  <2>3. ASSUME NEW k \in 1 .. q
        PROVE  W[0 + k] = ls[linenr][q - k + 1] /\ z[k] = q - k + 1
    <3>1. W[b[1] + k] = ls[linenr - 1 + 1][n[1] - k + 1] /\ y[1][k] = n[1] - k + 1
      BY <1>1, <1>11
    <3>2. linenr - 1 + 1 = linenr
      BY <1>1
    <3> QED
      BY <1>10, <3>1, <3>2
  <2>4. q \in Nat /\ q = pos
    BY <1>1, <1>7, <1>10
  <2> HIDE DEF q, z
  <2>5. EndsUp(FALSE, W, 0, q, z, FindStartOfExpressionInLine(ls[linenr], q, <<>>))
    BY <2>2, <2>3, <2>4, StartInLine
  <2> QED
    BY <2>1, <2>4, <2>5 DEF q, z
<1>13. ASSUME NEW k \in 1 .. m - 1
       PROVE  /\ \A s : h[k] = Scanning(s) /\ s # <<>> /\ Runs(FALSE, W, b[k + 1], s)
                          => EndsUp(FALSE, W, b[k + 1], n[k + 1], y[k + 1], h[k + 1])
              /\ ~(h[k].state = "scanning" /\ h[k].stack # <<>>) => h[k + 1] = h[k]
  <2> DEFINE q == n[k + 1]
             a == b[k + 1]
             z == y[k + 1]
             line == ls[linenr - k]
  <2>1. h[k + 1] = IF h[k].state = "scanning" /\ h[k].stack # <<>>
                   THEN FindStartOfExpressionInLine(line, Len(line), h[k].stack) ELSE h[k]
    <3>1. k \in 1 .. linenr - 1
      BY DEF m
    <3> QED
      BY <1>5, <3>1 DEF StartsLines
  <2>2. k + 1 \in 1 .. m /\ k + 1 # 1 /\ linenr - (k + 1) + 1 = linenr - k
    BY <1>1
  <2>3. q = Len(line) /\ a \in Nat /\ q \in Nat
    BY <1>7, <1>10, <2>2
  <2>4. ASSUME NEW j \in 1 .. q
        PROVE  W[a + j] = line[q - j + 1] /\ z[j] = q - j + 1
    BY <1>11, <2>2
  <2> HIDE DEF q, a, z, line
  <2>5. ASSUME NEW s, h[k] = Scanning(s), s # <<>>, Runs(FALSE, W, a, s)
        PROVE  EndsUp(FALSE, W, a, q, z, h[k + 1])
    <3>1. h[k + 1] = FindStartOfExpressionInLine(line, q, s)
      BY <2>1, <2>3, <2>5 DEF Scanning
    <3>2. EndsUp(FALSE, W, a, q, z, FindStartOfExpressionInLine(line, q, s))
      BY <2>3, <2>4, <2>5, StartInLine
    <3> QED
      BY <3>1, <3>2
  <2> QED
    BY <2>1, <2>5 DEF q, a, z
<1>14. ScansLines(FALSE, W, m, b, n, y, h)
  BY <1>7, <1>10, <1>12, <1>13 DEF ScansLines
<1>15. \A k \in 1 .. m : LinesEndUp(FALSE, W, b, n, y, h, k)
  <2>1. m \in Nat \ {0}
    BY <1>1
  <2> QED
    BY <1>14, <2>1, AllLinesEndUp
<1>16. ASSUME NEW k \in 1 .. m, h[k].state = "found", \A i \in 1 .. k - 1 : h[i].state # "found",
              start = [linenum |-> linenr - k + 1, pos |-> h[k].pos]
       PROVE  \E l \in 1 .. linenr : \E p \in 1 .. Len(ls[l]) :
                /\ start = [linenum |-> l, pos |-> p] /\ Base(ls, l) + p <= there
                /\ Closes(FALSE, W, there - (Base(ls, l) + p) + 1)
  <2>1. HasFound(FALSE, W, b, n, y, h, k)
    BY <1>15, <1>16, StateOfEnd, Zenon DEF LinesEndUp
  <2>2. PICK i \in 1 .. k : \E j \in 1 .. n[i] :
          h[k] = Found(y[i][j]) /\ h[i] = h[k] /\ Closes(FALSE, W, b[i] + j)
    BY <2>1 DEF HasFound
  <2>3. i = k
    <3>1. h[i].state = "found"
      BY <1>16, <2>2
    <3>2. i \in 1 .. k - 1 \/ i = k
      BY <1>1
    <3> QED
      BY <1>16, <3>1, <3>2
  <2>4. PICK j \in 1 .. n[k] : h[k] = Found(y[k][j]) /\ Closes(FALSE, W, b[k] + j)
    BY <2>2, <2>3
  <2> DEFINE l == linenr - k + 1
             p == n[k] - j + 1
  <2>5. l \in 1 .. linenr
    BY <1>7
  <2>6. /\ p \in 1 .. Len(ls[l]) /\ b[k] + j = there - (Base(ls, l) + p) + 1
        /\ Base(ls, l) + p <= there /\ y[k][j] = p
    BY <1>11
  <2>7. h[k].pos = p
    BY <2>4, <2>6 DEF Found
  <2>8. start = [linenum |-> l, pos |-> p]
    BY <1>16, <2>7
  <2> HIDE DEF l, p, start
  <2>9. Closes(FALSE, W, there - (Base(ls, l) + p) + 1)
    BY <2>4, <2>6
  <2> QED
    BY <2>5, <2>6, <2>8, <2>9
<1>17. ASSUME \A k \in 1 .. m : h[k].state # "found", W[1] \in Closing
       PROVE  (\E x \in 1 .. there : GetsStuck(FALSE, W, x)) \/ (\E s : Runs(FALSE, W, there, s))
  <2>1. LinesEndUp(FALSE, W, b, n, y, h, m)
    BY <1>1, <1>15
  <2>2. ~HasFound(FALSE, W, b, n, y, h, m)
    BY <1>1, <1>17, StateOfEnd, Zenon
  <2>3. b[m] + n[m] = there
    <3>1. linenr - m + 1 = 1
      BY <1>1
    <3>2. b[m] + n[m] = there - Base(ls, 1)
      BY <1>1, <1>7, <3>1
    <3> QED
      BY <1>3, <1>4, <3>2
  <2>4. W[1] \in Pushes(FALSE)
    BY <1>17, Zenon DEF Pushes
  <2>5. CASE GoesOnBehind(FALSE, W, b, n, h, m)
    BY <2>3, <2>5 DEF GoesOnBehind
  <2>6. CASE HasStopped(FALSE, W, b, n, h, m)
    BY <2>3, <2>4, <2>6 DEF HasStopped
  <2> QED
    BY <2>1, <2>2, <2>5, <2>6 DEF LinesEndUp
<1>18. CASE \E k \in 1 .. linenr :
              /\ h[k].state = "found" /\ \A i \in 1 .. k - 1 : h[i].state # "found"
              /\ start = [linenum |-> linenr - k + 1, pos |-> h[k].pos]
  <2> HIDE DEF start
  <2>1. \E l \in 1 .. linenr : \E p \in 1 .. Len(ls[l]) :
          /\ start = [linenum |-> l, pos |-> p] /\ Base(ls, l) + p <= there
          /\ Closes(FALSE, W, there - (Base(ls, l) + p) + 1)
    BY <1>16, <1>18 DEF m
  <2> QED
    BY <2>1, Zenon DEF ReverseComesTo, W, there, text, start
<1>19. CASE /\ start = NoPosition
            /\ MayEnd(ls[linenr], pos) => \A k \in 1 .. linenr : h[k].state # "found"
  <2> HIDE DEF start
  <2>1. MayEnd(ls[linenr], pos) /\ W[1] \in Closing =>
          (\E x \in 1 .. there : GetsStuck(FALSE, W, x)) \/ (\E s : Runs(FALSE, W, there, s))
    BY <1>17, <1>19 DEF m
  <2>2. start = NoPosition
    BY <1>19
  <2> QED
    BY <2>1, <2>2, Zenon DEF ReverseComesTo, W, there, text, start
<1> QED
  BY <1>5, <1>18, <1>19 DEF StartIs

----------------------------------------------------------------------------
(* The brackets waited for between two positions of a text.                 *)

\* Q is the brackets waited for after each of the positions a to b of a text.
IsProfile(text, Q, a, b) ==
  /\ Q \in [a - 1 .. b -> Seq(Closing)]
  /\ \A k \in a .. b : Moves(Q[k - 1], text[k], Q[k])

\* G is a run from position here on, and Q holds the same.
IsRunOn(text, here, G, x) == IsRun(TRUE, Forwards(text, here), G, x)

IsProfileOn(text, here, G, x, Q) ==
  IsProfile(text, Q, here, here - 1 + x) /\ \A k \in 0 .. x : Q[here - 1 + k] = G[k]

\* A run forwards is a profile,
LEMMA ForwardProfile ==
  ASSUME NEW text, Len(text) \in Nat, NEW here \in Nat \ {0}, NEW x \in Nat,
         here - 1 + x <= Len(text), NEW G, IsRunOn(text, here, G, x)
  PROVE  \E Q : IsProfileOn(text, here, G, x, Q)
<1> DEFINE W == Forwards(text, here)
           Q == [i \in here - 1 .. here - 1 + x |-> G[i - (here - 1)]]
<1>1. /\ G \in [0 .. x -> Seq(Closing)]
      /\ \A k \in 1 .. x : Moves(G[k - 1], W[k], G[k])
  BY Zenon DEF IsRunOn, IsRun, Goes
<1>2. \A k \in 1 .. x : W[k] = text[here - 1 + k]
  BY DEF Forwards
<1> HIDE DEF W
<1>3. Q \in [here - 1 .. here - 1 + x -> Seq(Closing)]
  <2>1. \A i \in here - 1 .. here - 1 + x : i - (here - 1) \in 0 .. x
    OBVIOUS
  <2> QED
    BY <1>1, <2>1
<1>4. \A k \in 0 .. x : Q[here - 1 + k] = G[k]
  <2>1. \A k \in 0 .. x : here - 1 + k \in here - 1 .. here - 1 + x /\ (here - 1 + k) - (here - 1) = k
    OBVIOUS
  <2> QED
    BY <2>1
<1> HIDE DEF Q
<1>5. ASSUME NEW k \in here .. here - 1 + x
      PROVE  Moves(Q[k - 1], text[k], Q[k])
  <2> DEFINE i == k - (here - 1)
  <2>1. i \in 1 .. x /\ i \in 0 .. x /\ i - 1 \in 0 .. x /\ here - 1 + i = k /\ here - 1 + (i - 1) = k - 1
    OBVIOUS
  <2> HIDE DEF i
  <2>2. Moves(G[i - 1], W[i], G[i])
    BY <1>1, <2>1
  <2> QED
    BY <1>2, <1>4, <2>1, <2>2
<1> QED
  BY <1>3, <1>4, <1>5 DEF IsProfile, IsProfileOn

\* G is a run back from position there, and Q holds the same.
IsRunBack(text, there, G, x) == IsRun(FALSE, Backwards(text, there), G, x)

IsBackProfile(text, there, G, x, Q) ==
  IsProfile(text, Q, there - x + 1, there) /\ \A k \in 0 .. x : Q[there - k] = G[k]

\* and one backwards is.
LEMMA BackwardProfile ==
  ASSUME NEW text, NEW there \in Nat, NEW x \in 0 .. there,
         NEW G, IsRunBack(text, there, G, x)
  PROVE  \E Q : IsBackProfile(text, there, G, x, Q)
<1> DEFINE W == Backwards(text, there)
           Q == [i \in there - x .. there |-> G[there - i]]
<1>1. /\ G \in [0 .. x -> Seq(Closing)]
      /\ \A k \in 1 .. x : Moves(G[k], W[k], G[k - 1])
  BY Zenon DEF IsRunBack, IsRun, Goes
<1>2. \A k \in 1 .. x : W[k] = text[there + 1 - k]
  BY DEF Backwards
<1> HIDE DEF W
<1>3. Q \in [there - x .. there -> Seq(Closing)]
  <2>1. \A i \in there - x .. there : there - i \in 0 .. x
    OBVIOUS
  <2> QED
    BY <1>1, <2>1
<1>4. \A k \in 0 .. x : Q[there - k] = G[k]
  <2>1. \A k \in 0 .. x : there - k \in there - x .. there /\ there - (there - k) = k
    OBVIOUS
  <2> QED
    BY <2>1
<1> HIDE DEF Q
<1>5. ASSUME NEW k \in there - x + 1 .. there
      PROVE  Moves(Q[k - 1], text[k], Q[k])
  <2> DEFINE i == there + 1 - k
  <2>1. i \in 1 .. x /\ i \in 0 .. x /\ i - 1 \in 0 .. x /\ there - i = k - 1 /\ there - (i - 1) = k
        /\ there + 1 - i = k
    OBVIOUS
  <2> HIDE DEF i
  <2>2. Moves(G[i], W[i], G[i - 1])
    BY <1>1, <2>1
  <2> QED
    BY <1>2, <1>4, <2>1, <2>2
<1>6. (there - x + 1) - 1 = there - x
  OBVIOUS
<1> QED
  BY <1>3, <1>4, <1>5, <1>6 DEF IsProfile, IsBackProfile

----------------------------------------------------------------------------
(* The loop of _GetTextInside.                                              *)

\* One turn of it, for the character char at position k.
InsideTurn(h, char, k) ==
  IF h.state # "scanning" THEN h
  ELSE IF char = Last(h.stack) THEN FoundAt(k + 1, Front(h.stack))
  ELSE CASE char \in Closing -> Failed
         [] char \in Opening -> Scanning(Append(h.stack, Closer(char)))
         [] OTHER -> Scanning(h.stack)

\* g is what the loop has come to with each character.
IsInside(g, text, start) ==
  /\ GetTextInside(text, start) = g[Len(text)].pos
  /\ g[start] = Scanning(<<Closer(text[start])>>)
  /\ \A k \in start + 1 .. Len(text) : g[k] = InsideTurn(g[k - 1], text[k], k)

\* What the loop holds.
InsideStates ==
  {Scanning(s) : s \in Seq(Closing) \ {<<>>}} \cup {Found(p) : p \in Int} \cup {Failed}

\* A turn keeps to it.
LEMMA InsideTypes ==
  ASSUME NEW h \in InsideStates, NEW char, NEW k \in Int
  PROVE  InsideTurn(h, char, k) \in InsideStates
<1>1. CASE h.state # "scanning"
  BY <1>1, Zenon DEF InsideTurn
<1>2. CASE h.state = "scanning"
  <2>1. /\ \A p : Found(p).state # "scanning"
        /\ Failed.state # "scanning"
        /\ \A s : Scanning(s).stack = s
    BY DEF Found, Failed, Scanning
  <2>2. PICK s \in Seq(Closing) \ {<<>>} : h = Scanning(s)
    BY <1>2, <2>1, Zenon DEF InsideStates
  <2>3. EndsIn(Closing, s, Front(s), Last(s))
    BY <2>2, FrontLast
  <2>4. Front(s) \in Seq(Closing) /\ k + 1 \in Int
    BY <2>3 DEF EndsIn
  <2>5. FoundAt(k + 1, Front(s)) \in InsideStates
    BY <2>4, Zenon DEF FoundAt, InsideStates
  <2>6. char \in Opening => Scanning(Append(s, Closer(char))) \in InsideStates
    <3>1. s \in Seq(Closing) /\ (char \in Opening => Closer(char) \in Closing)
      BY <2>2, CharKinds, Zenon
    <3>2. char \in Opening => /\ Append(s, Closer(char)) \in Seq(Closing)
                              /\ Append(s, Closer(char)) # <<>>
      BY <3>1, AppendIsLonger
    <3> QED
      BY <3>2, Zenon DEF InsideStates
  <2>7. Failed \in InsideStates /\ Scanning(s) \in InsideStates
    BY <2>2, Zenon DEF InsideStates
  <2>8. h.stack = s
    BY <2>1, <2>2, Zenon
  <2> QED
    BY <1>2, <2>5, <2>6, <2>7, <2>8, CharKinds, Zenon DEF InsideTurn
<1> QED
  BY <1>1, <1>2

\* The loop of _GetTextInside.
LEMMA InsideIsScanned ==
  ASSUME NEW text, Len(text) \in Nat, NEW start \in 1 .. Len(text), text[start] \in Opening
  PROVE  \E g : IsInside(g, text, start)
<1> DEFINE Z == InsideStates
           n == Len(text)
           first == Scanning(<<Closer(text[start])>>)
           step == [p \in Z \X (1 .. n - start) |-> InsideTurn(p[1], text[start + p[2]], start + p[2])]
           Is(g) == g = [k \in start .. n |-> IF k = start THEN Scanning(<<Closer(text[k])>>)
                                             ELSE InsideTurn(g[k - 1], text[k], k)]
           IsScan(g) ==
             g = [k \in start .. Len(text) |->
                   LET stack == g[k - 1].stack IN
                   IF k = start THEN Scanning(<<Closer(text[k])>>)
                   ELSE IF g[k - 1].state # "scanning" THEN g[k - 1]
                   ELSE IF text[k] = Last(stack) THEN FoundAt(k + 1, Front(stack))
                   ELSE CASE text[k] \in Closing -> Failed
                          [] text[k] \in Opening -> Scanning(Append(stack, Closer(text[k])))
                          [] OTHER -> Scanning(stack)]
           f == CHOOSE g : IsScan(g)
<1>1. n \in Nat /\ start \in 1 .. n
  OBVIOUS
<1>2. first \in Z
  <2>1. <<Closer(text[start])>> \in Seq(Closing) /\ <<Closer(text[start])>> # <<>>
    <3>1. Closer(text[start]) \in Closing
      BY CharKinds
    <3> QED
      BY <3>1
  <2> QED
    BY <2>1, Zenon DEF InsideStates
<1>0. \A e : IsScan(e) <=> Is(e)
  BY Zenon DEF InsideTurn
<1> HIDE DEF Z, first
<1>3. step \in [Z \X (1 .. n - start) -> Z]
  <2>1. ASSUME NEW h \in Z, NEW k \in 1 .. n - start
        PROVE  InsideTurn(h, text[start + k], start + k) \in Z
    <3>1. start + k \in Int
      BY <1>1
    <3> QED
      BY <3>1, InsideTypes DEF Z
  <2> QED
    BY <2>1
<1>4. PICK g : IsRecursion(g, Z, first, n - start, step)
  <2>1. n - start \in Nat
    BY <1>1
  <2> HIDE DEF step
  <2> QED
    BY <1>2, <1>3, <2>1, IsRecursionExists
<1>5. g \in [0 .. n - start -> Z] /\ g[0] = first
  BY <1>4 DEF IsRecursion
<1>6. ASSUME NEW k \in 1 .. n - start
      PROVE  g[k] = InsideTurn(g[k - 1], text[start + k], start + k)
  <2>1. k - 1 \in 0 .. n - start
    BY <1>1
  <2>2. <<g[k - 1], k>> \in Z \X (1 .. n - start)
    BY <1>5, <2>1
  <2>3. g[k] = step[<<g[k - 1], k>>]
    BY <1>4 DEF IsRecursion
  <2> QED
    BY <2>2, <2>3
<1>7. Is([k \in start .. n |-> g[k - start]])
  <2> DEFINE e == [k \in start .. n |-> g[k - start]]
  <2>1. ASSUME NEW k \in start .. n
        PROVE  e[k] = IF k = start THEN Scanning(<<Closer(text[k])>>)
                      ELSE InsideTurn(e[k - 1], text[k], k)
    <3>1. CASE k = start
      BY <1>5, <3>1 DEF first
    <3>2. CASE k # start
      <4>1. /\ k - start \in 1 .. n - start /\ k - 1 \in start .. n
            /\ (k - start) - 1 = (k - 1) - start /\ start + (k - start) = k
        BY <1>1, <3>2
      <4>2. g[k - start] = InsideTurn(g[(k - start) - 1], text[start + (k - start)], start + (k - start))
        BY <1>6, <4>1
      <4>3. e[k] = g[k - start] /\ e[k - 1] = g[(k - 1) - start]
        BY <4>1
      <4> HIDE DEF e
      <4> QED
        BY <3>2, <4>1, <4>2, <4>3
    <3> QED
      BY <3>1, <3>2
  <2>2. e = [k \in start .. n |-> e[k]]
    OBVIOUS
  <2> HIDE DEF e
  <2> QED
    BY <2>1, <2>2 DEF e
<1>8. /\ f[start] = first
      /\ \A k \in start + 1 .. n : f[k] = InsideTurn(f[k - 1], text[k], k)
  <2>1. \E e : IsScan(e)
    BY <1>0, <1>7
  <2>2. IsScan(f)
    BY <2>1, Zenon
  <2> HIDE DEF IsScan, f
  <2>3. Is(f)
    BY <1>0, <2>2
  <2>4. start \in start .. n /\ \A k \in start + 1 .. n : k \in start .. n /\ k # start
    BY <1>1
  <2> QED
    BY <2>3, <2>4 DEF first
<1>9. GetTextInside(text, start) = f[Len(text)].pos
  BY Zenon DEF GetTextInside
<1> HIDE DEF f
<1> QED
  BY <1>8, <1>9 DEF IsInside, first

\* The brackets between k and j are within the one at k.
StaysAbove(Q, k, j) == \A i \in k .. j : Len(Q[i]) > Len(Q[k - 1])

\* The loop has found the other end of the bracket at k at p,
FoundInside(Q, k, g, j) ==
  \E p \in k + 1 .. j : g[j] = Found(p + 1) /\ Q[p] = Q[k - 1] /\ StaysAbove(Q, k, p - 1)

\* or waits for what is waited for beyond what was before k.
OpenInside(Q, k, g, j) ==
  \E s \in Seq(Closing) : /\ s # <<>> /\ g[j] = Scanning(s)
                          /\ Q[j] = Q[k - 1] \o s /\ StaysAbove(Q, k, j)

\* A turn at k has come to h: what is waited for is r, or more than r.
ComesInside(r, after, k, h) ==
  \/ h = Found(k + 1) /\ after = r
  \/ \E t \in Seq(Closing) : t # <<>> /\ h = Scanning(t) /\ after = r \o t

\* A turn of the loop where it waits for s, on top of r.
LEMMA InsideTurnComes ==
  ASSUME NEW r \in Seq(Closing), NEW s \in Seq(Closing), s # <<>>, NEW char, NEW after \in Seq(Closing),
         Moves(r \o s, char, after), NEW k
  PROVE  ComesInside(r, after, k, InsideTurn(Scanning(s), char, k))
<1> DEFINE h == InsideTurn(Scanning(s), char, k)
           front == Front(s)
           last == Last(s)
<1>1. EndsIn(Closing, s, front, last)
  BY FrontLast
<1>2. front \in Seq(Closing) /\ last \in Closing /\ s = Append(front, last)
  BY <1>1 DEF EndsIn
<1>3. /\ char = last => h = FoundAt(k + 1, front)
      /\ char # last /\ char \in Opening => h = Scanning(Append(s, Closer(char)))
      /\ char # last /\ char \notin Opening \cup Closing => h = Scanning(s)
  <2> DEFINE old == Scanning(s)
  <2>1. old.state = "scanning" /\ old.stack = s
    BY DEF Scanning
  <2> HIDE DEF old
  <2>2. char = Last(old.stack) => InsideTurn(old, char, k) = FoundAt(k + 1, Front(old.stack))
    BY <2>1, Zenon DEF InsideTurn
  <2>3. char # Last(old.stack) /\ char \in Opening =>
          InsideTurn(old, char, k) = Scanning(Append(old.stack, Closer(char)))
    BY <2>1, CharKinds, Zenon DEF InsideTurn
  <2>4. char # Last(old.stack) /\ char \notin Opening \cup Closing =>
          InsideTurn(old, char, k) = Scanning(old.stack)
    BY <2>1, Zenon DEF InsideTurn
  <2> QED
    BY <2>1, <2>2, <2>3, <2>4, Zenon DEF old
<1> HIDE DEF front, last
<1>4. r \o s = Append(r \o front, last) /\ r \o front \in Seq(Closing) /\ r \o s \in Seq(Closing)
  BY <1>2, AppendedBehind
<1> HIDE DEF h
<1>5. CASE char \in Opening
  <2> DEFINE c == Closer(char)
             t == Append(s, c)
  <2>1. c \in Closing /\ char \notin Closing
    BY <1>5, CharKinds, Zenon
  <2>2. h = Scanning(t)
    BY <1>2, <1>3, <1>5, <2>1, Zenon
  <2>3. after = Append(r \o s, c)
    BY <1>5, Zenon DEF Moves
  <2> HIDE DEF c
  <2>5. t \in Seq(Closing) /\ t # <<>>
    BY <2>1, AppendProperties
  <2>6. r \o t = Append(r \o s, c)
    BY <2>1, AppendedBehind
  <2>4. t \in Seq(Closing) /\ t # <<>> /\ after = r \o t
    BY <2>3, <2>5, <2>6
  <2> HIDE DEF t
  <2> QED
    BY <2>2, <2>4 DEF h, ComesInside
<1>6. CASE char \in Closing
  <2>1. r \o s = Append(after, char)
    BY <1>6, Zenon DEF Moves
  <2> DEFINE rest == r \o front
  <2>6. rest \in Seq(Closing) /\ Append(rest, last) = Append(after, char)
    BY <1>4, <2>1
  <2> HIDE DEF rest
  <2>7. rest = after /\ last = char
    BY <1>2, <1>6, <2>6, AppendInjective
  <2>2. after = r \o front /\ char = last
    BY <2>7 DEF rest
  <2>3. h = FoundAt(k + 1, front)
    BY <1>3, <2>2
  <2>4. CASE front = <<>>
    <3>1. h = Found(k + 1)
      BY <2>3, <2>4, Zenon DEF FoundAt
    <3>2. after = r
      BY <2>2, <2>4, ConcatEmptySeq
    <3> QED
      BY <3>1, <3>2 DEF h, ComesInside
  <2>5. CASE front # <<>>
    <3>1. h = Scanning(front)
      BY <2>3, <2>5, Zenon DEF FoundAt
    <3> QED
      BY <1>2, <2>2, <2>5, <3>1 DEF h, ComesInside
  <2> QED
    BY <2>4, <2>5
<1>7. CASE char \notin Opening \cup Closing
  <2>1. after = r \o s /\ h = Scanning(s)
    BY <1>2, <1>3, <1>7, Zenon DEF Moves
  <2> QED
    BY <2>1 DEF h, ComesInside
<1> QED
  BY <1>5, <1>6, <1>7

\* The loop is one of the two.
LEMMA InsideFollows ==
  ASSUME NEW text, NEW a \in Nat \ {0}, NEW b \in Nat, Len(text) \in Nat, b <= Len(text),
         NEW Q, IsProfile(text, Q, a, b), NEW k \in a .. b, text[k] \in Opening,
         NEW g, IsInside(g, text, k)
  PROVE  \A j \in k .. b : FoundInside(Q, k, g, j) \/ OpenInside(Q, k, g, j)
<1> DEFINE r == Q[k - 1]
           c == Closer(text[k])
           T == {i \in 0 .. b - k : FoundInside(Q, k, g, k + i) \/ OpenInside(Q, k, g, k + i)}
<1>1. /\ \A i \in a - 1 .. b : Q[i] \in Seq(Closing)
      /\ \A i \in a .. b : Moves(Q[i - 1], text[i], Q[i])
  BY DEF IsProfile
<1>2. /\ g[k] = Scanning(<<c>>)
      /\ \A i \in k + 1 .. Len(text) : g[i] = InsideTurn(g[i - 1], text[i], i)
  BY DEF IsInside
<1>3. k \in Int /\ k - 1 \in a - 1 .. b /\ r \in Seq(Closing)
  BY <1>1
<1>4. OpenInside(Q, k, g, k)
  <2> DEFINE s == <<c>>
  <2>1. c \in Closing
    BY CharKinds
  <2>2. Q[k] = Append(r, c)
    BY <1>1, Zenon DEF Moves
  <2>3. s \in Seq(Closing) /\ s # <<>>
    BY <2>1
  <2>4. Q[k] = r \o s
    BY <1>3, <2>1, <2>2, AppendIsConcat
  <2> HIDE DEF s, r
  <2>5. Len(Q[k]) > Len(r)
    BY <1>3, <2>3, <2>4, LongerBehind
  <2>6. StaysAbove(Q, k, k)
    <3>1. \A i \in k .. k : i = k
      BY <1>3
    <3> QED
      BY <2>5, <3>1 DEF StaysAbove, r
  <2> QED
    BY <1>2, <2>3, <2>4, <2>6 DEF OpenInside, r, s
<1>5. ASSUME NEW j \in k .. b - 1, FoundInside(Q, k, g, j) \/ OpenInside(Q, k, g, j)
      PROVE  FoundInside(Q, k, g, j + 1) \/ OpenInside(Q, k, g, j + 1)
  <2>1. /\ j + 1 \in k + 1 .. Len(text) /\ (j + 1) - 1 = j /\ j + 1 \in a .. b /\ j \in a - 1 .. b
        /\ j + 1 \in a - 1 .. b /\ j + 1 \in k + 1 .. j + 1 /\ j \in Int
    BY <1>3
  <2>2. g[j + 1] = InsideTurn(g[j], text[j + 1], j + 1)
    BY <1>2, <2>1
  <2>3. ASSUME NEW p \in k + 1 .. j, g[j] = Found(p + 1), Q[p] = Q[k - 1], StaysAbove(Q, k, p - 1)
        PROVE  FoundInside(Q, k, g, j + 1)
    <3>1. g[j].state # "scanning"
      BY <2>3 DEF Found
    <3>2. g[j + 1] = g[j]
      BY <2>2, <3>1, Zenon DEF InsideTurn
    <3>3. p \in k + 1 .. j + 1
      BY <2>1
    <3> QED
      BY <2>3, <3>2, <3>3 DEF FoundInside
  <2>4. ASSUME NEW s \in Seq(Closing), s # <<>>, g[j] = Scanning(s), Q[j] = Q[k - 1] \o s,
               StaysAbove(Q, k, j)
        PROVE  FoundInside(Q, k, g, j + 1) \/ OpenInside(Q, k, g, j + 1)
    <3> DEFINE after == Q[j + 1]
               char == text[j + 1]
               y == j + 1
               h == InsideTurn(Scanning(s), char, y)
    <3>1. Moves(r \o s, char, after) /\ after \in Seq(Closing)
      BY <1>1, <2>1, <2>4
    <3>2. g[y] = h
      BY <2>2, <2>4
    <3> HIDE DEF r, after, char, y, h
    <3>3. ComesInside(r, after, y, h)
      BY <1>3, <2>4, <3>1, InsideTurnComes DEF h
    <3>4. ASSUME h = Found(y + 1), after = r
          PROVE  FoundInside(Q, k, g, y)
      <4>1. StaysAbove(Q, k, y - 1)
        BY <2>1, <2>4 DEF y
      <4>2. g[y] = Found(y + 1) /\ Q[y] = Q[k - 1]
        BY <3>2, <3>4 DEF after, r, y
      <4>3. y \in k + 1 .. y
        BY <2>1 DEF y
      <4> QED
        BY <4>1, <4>2, <4>3, Zenon DEF FoundInside
    <3>5. ASSUME NEW t \in Seq(Closing), t # <<>>, h = Scanning(t), after = r \o t
          PROVE  OpenInside(Q, k, g, y)
      <4>1. Len(Q[y]) > Len(r)
        BY <1>3, <3>5, LongerBehind DEF after, y
      <4>2. StaysAbove(Q, k, y)
        <5>1. \A i \in k .. y : i \in k .. j \/ i = y
          BY <2>1 DEF y
        <5> QED
          BY <2>4, <4>1, <5>1 DEF StaysAbove, r
      <4> QED
        BY <3>2, <3>5, <4>2 DEF OpenInside, after, r, y
    <3>6. FoundInside(Q, k, g, y) \/ OpenInside(Q, k, g, y)
      BY <3>3, <3>4, <3>5, Zenon DEF ComesInside
    <3> QED
      BY <3>6 DEF y
  <2>5. CASE FoundInside(Q, k, g, j)
    BY <2>3, <2>5 DEF FoundInside
  <2>6. CASE OpenInside(Q, k, g, j)
    BY <2>4, <2>6 DEF OpenInside
  <2> QED
    BY <1>5, <2>5, <2>6
<1> HIDE DEF r
<1>6. 0 \in T
  <2>1. k + 0 = k /\ 0 \in 0 .. b - k
    BY <1>3
  <2> QED
    BY <1>4, <2>1
<1>7. ASSUME NEW i \in 0 .. (b - k) - 1, i \in T
      PROVE  i + 1 \in T
  <2>1. k + i \in k .. b - 1 /\ (k + i) + 1 = k + (i + 1) /\ i + 1 \in 0 .. b - k
    BY <1>3
  <2> QED
    BY <1>5, <1>7, <2>1
<1> HIDE DEF T
<1>8. \A i \in 0 .. b - k : i \in T
  <2>1. b - k \in Nat
    OBVIOUS
  <2> QED
    BY <1>6, <1>7, <2>1, UpTo
<1>9. ASSUME NEW j \in k .. b
      PROVE  FoundInside(Q, k, g, j) \/ OpenInside(Q, k, g, j)
  <2>1. j - k \in 0 .. b - k /\ k + (j - k) = j
    BY <1>3
  <2> QED
    BY <1>8, <2>1 DEF T
<1> QED
  BY <1>9

\* Where the loop has ended it stays.
LEMMA InsideStops ==
  ASSUME NEW text, Len(text) \in Nat, NEW k \in 1 .. Len(text), NEW g, IsInside(g, text, k),
         NEW j \in k .. Len(text), g[j].state # "scanning"
  PROVE  g[Len(text)] = g[j]
<1> DEFINE n == Len(text)
           T == {i \in 0 .. n - j : g[j + i] = g[j]}
<1>1. \A i \in k + 1 .. n : g[i] = InsideTurn(g[i - 1], text[i], i)
  BY DEF IsInside
<1> HIDE DEF n
<1>2. n \in Nat /\ k \in 1 .. n /\ j \in k .. n /\ n - j \in Nat
  BY DEF n
<1>3. 0 \in T
  BY <1>2
<1>4. ASSUME NEW i \in 0 .. (n - j) - 1, i \in T
      PROVE  i + 1 \in T
  <2>1. j + (i + 1) \in k + 1 .. n /\ (j + (i + 1)) - 1 = j + i /\ i + 1 \in 0 .. n - j
    BY <1>2
  <2>2. g[j + (i + 1)] = InsideTurn(g[j + i], text[j + (i + 1)], j + (i + 1)) /\ g[j + i] = g[j]
    BY <1>1, <1>4, <2>1
  <2>3. g[j + (i + 1)] = g[j]
    BY <2>2, Zenon DEF InsideTurn
  <2> QED
    BY <2>1, <2>3
<1> HIDE DEF T
<1>5. n - j \in T
  <2>1. \A i \in 0 .. n - j : i \in T
    BY <1>2, <1>3, <1>4, UpTo
  <2>2. n - j \in 0 .. n - j
    BY <1>2
  <2> QED
    BY <2>1, <2>2
<1>6. j + (n - j) = n
  BY <1>2
<1> QED
  BY <1>5, <1>6 DEF T, n

\* Where no more than before an opening bracket is waited for, its other end was found.
LEMMA OtherEndIsInside ==
  ASSUME NEW text, NEW a \in Nat \ {0}, NEW b \in Nat, Len(text) \in Nat, b <= Len(text),
         NEW Q, IsProfile(text, Q, a, b), NEW k \in a .. b, text[k] \in Opening,
         ~(Len(Q[b]) > Len(Q[k - 1]))
  PROVE  \E p \in k + 1 .. b :
           GetTextInside(text, k) = p + 1 /\ Q[p] = Q[k - 1] /\ StaysAbove(Q, k, p - 1)
<1>1. k \in 1 .. Len(text) /\ b \in k .. b /\ b \in k .. Len(text)
  OBVIOUS
<1>2. PICK g : IsInside(g, text, k)
  BY <1>1, InsideIsScanned
<1>3. FoundInside(Q, k, g, b) \/ OpenInside(Q, k, g, b)
  BY <1>1, <1>2, InsideFollows
<1>4. ~OpenInside(Q, k, g, b)
  BY <1>1 DEF OpenInside, StaysAbove
<1>5. PICK p \in k + 1 .. b : g[b] = Found(p + 1) /\ Q[p] = Q[k - 1] /\ StaysAbove(Q, k, p - 1)
  BY <1>3, <1>4 DEF FoundInside
<1>6. g[b].state # "scanning" /\ g[b].pos = p + 1
  BY <1>5 DEF Found
<1>7. g[Len(text)] = g[b]
  BY <1>1, <1>2, <1>6, InsideStops
<1>8. GetTextInside(text, k) = p + 1
  BY <1>2, <1>6, <1>7 DEF IsInside
<1> QED
  BY <1>5, <1>8

\* Where its own other end is not found up to the end of the text or to a bracket that
\* does not match, there is none.
LEMMA NoOtherEnd ==
  ASSUME NEW text, NEW k \in Nat \ {0}, NEW b \in Nat, Len(text) \in Nat, k <= b, b <= Len(text),
         NEW Q, IsProfile(text, Q, k, b), text[k] \in Opening, Q[k - 1] = <<>>,
         \A j \in k .. b : Q[j] # <<>>,
         b # Len(text) => text[b + 1] \in Closing /\ Last(Q[b]) # text[b + 1]
  PROVE  GetTextInside(text, k) = 0
<1>1. k \in 1 .. Len(text) /\ k \in k .. b /\ b \in k .. b /\ b \in Int
  OBVIOUS
<1>2. PICK g : IsInside(g, text, k)
  BY <1>1, InsideIsScanned
<1>3. FoundInside(Q, k, g, b) \/ OpenInside(Q, k, g, b)
  BY <1>1, <1>2, InsideFollows
<1>4. ~FoundInside(Q, k, g, b)
  <2>1. \A p \in k + 1 .. b : p \in k .. b
    OBVIOUS
  <2> QED
    BY <2>1 DEF FoundInside
<1>5. PICK s \in Seq(Closing) : s # <<>> /\ g[b] = Scanning(s) /\ Q[b] = Q[k - 1] \o s
  BY <1>3, <1>4 DEF OpenInside
<1>6. Q[b] = s
  BY <1>5, ConcatEmptySeq
<1>7. CASE b = Len(text)
  BY <1>2, <1>5, <1>7 DEF IsInside, Scanning
<1>8. CASE b # Len(text)
  <2> DEFINE y == b + 1
             char == text[y]
             old == Scanning(s)
  <2>1. y \in k + 1 .. Len(text) /\ y - 1 = b /\ y \in k .. Len(text)
    BY <1>1, <1>8
  <2>2. old.state = "scanning" /\ old.stack = s
    BY DEF Scanning
  <2>3. char \in Closing /\ Last(s) # char
    BY <1>6, <1>8
  <2> HIDE DEF y
  <2>4. g[y] = InsideTurn(g[y - 1], char, y)
    BY <1>2, <2>1 DEF IsInside
  <2>5. g[y] = InsideTurn(old, char, y)
    BY <1>5, <2>1, <2>4
  <2> HIDE DEF old, char
  <2>6. InsideTurn(old, char, y) = Failed
    BY <2>2, <2>3, CharKinds, Zenon DEF InsideTurn
  <2>7. g[y].state # "scanning" /\ g[y].pos = 0
    BY <2>5, <2>6 DEF Failed
  <2>8. g[Len(text)] = g[y]
    BY <1>1, <1>2, <2>1, <2>7, InsideStops
  <2> QED
    BY <1>2, <2>7, <2>8 DEF IsInside
<1> QED
  BY <1>7, <1>8

----------------------------------------------------------------------------
(* Both directions and _GetTextInside.                                      *)

\* What is waited for before a character follows from what is waited for behind it.
LEMMA MovesBack ==
  ASSUME NEW p \in Seq(Closing), NEW q \in Seq(Closing), NEW after, NEW char,
         Moves(p, char, after), Moves(q, char, after)
  PROVE  p = q
<1>1. CASE char \in Opening
  <2> DEFINE c == Closer(char)
  <2>1. c \in Closing
    BY <1>1, CharKinds
  <2>2. after = Append(p, c) /\ after = Append(q, c)
    BY <1>1, Zenon DEF Moves
  <2> HIDE DEF c
  <2>3. Append(p, c) = Append(q, c)
    BY <2>2
  <2> QED
    BY <2>1, <2>3, AppendInjective
<1>2. CASE char \in Closing
  BY <1>2, Zenon DEF Moves
<1>3. CASE char \notin Opening \cup Closing
  BY <1>3, Zenon DEF Moves
<1> QED
  BY <1>1, <1>2, <1>3

\* Profiles that agree at the end agree before.
LEMMA ProfilesAgree ==
  ASSUME NEW text, NEW a \in Int, NEW b \in Int, NEW c \in Int,
         NEW Q, IsProfile(text, Q, a, b), NEW B, IsProfile(text, B, c, b), B[b] = Q[b]
  PROVE  \A i \in Int : i <= b /\ i >= a - 1 /\ i >= c - 1 => B[i] = Q[i]
<1>1. /\ \A i \in a - 1 .. b : Q[i] \in Seq(Closing)
      /\ \A i \in a .. b : Moves(Q[i - 1], text[i], Q[i])
      /\ \A i \in c - 1 .. b : B[i] \in Seq(Closing)
      /\ \A i \in c .. b : Moves(B[i - 1], text[i], B[i])
  BY DEF IsProfile
<1> SUFFICES ASSUME NEW e \in Int, e <= b, e >= a - 1, e >= c - 1
             PROVE  B[e] = Q[e]
  OBVIOUS
<1> DEFINE T == {i \in 0 .. b - e : B[b - i] = Q[b - i]}
<1>2. b - e \in Nat
  OBVIOUS
<1>3. 0 \in T
  <2>1. b - 0 = b
    OBVIOUS
  <2> QED
    BY <1>2, <2>1
<1>4. ASSUME NEW i \in 0 .. (b - e) - 1, i \in T
      PROVE  i + 1 \in T
  <2> DEFINE k == b - i
  <2>1. /\ k \in a .. b /\ k \in c .. b /\ k - 1 \in a - 1 .. b /\ k - 1 \in c - 1 .. b
        /\ k - 1 = b - (i + 1) /\ i + 1 \in 0 .. b - e
    OBVIOUS
  <2>2. B[k] = Q[k]
    BY <1>4
  <2> HIDE DEF k
  <2> DEFINE p == B[k - 1]
             q == Q[k - 1]
             r == Q[k]
  <2>3. p \in Seq(Closing) /\ q \in Seq(Closing) /\ Moves(p, text[k], r) /\ Moves(q, text[k], r)
    BY <1>1, <2>1, <2>2
  <2> HIDE DEF p, q, r
  <2>4. p = q
    BY <2>3, MovesBack
  <2> QED
    BY <2>1, <2>4 DEF p, q
<1> HIDE DEF T
<1>5. \A i \in 0 .. b - e : i \in T
  BY <1>2, <1>3, <1>4, UpTo
<1>6. b - e \in 0 .. b - e /\ b - (b - e) = e
  BY <1>2
<1> QED
  BY <1>5, <1>6 DEF T

\* A scan back from the end of a profile waits for the same.
LEMMA BackwardsAgree ==
  ASSUME NEW text, NEW here \in Nat \ {0}, NEW there \in Nat, NEW Q, IsProfile(text, Q, here, there),
         Q[there] = <<>>, NEW x \in 0 .. there, NEW G, IsRunBack(text, there, G, x)
  PROVE  \A k \in 0 .. x : there - k >= here - 1 => G[k] = Q[there - k]
<1>0. PICK B : IsBackProfile(text, there, G, x, B)
  BY BackwardProfile
<1>1. IsProfile(text, B, there - x + 1, there) /\ \A k \in 0 .. x : B[there - k] = G[k]
  BY <1>0 DEF IsBackProfile
<1>2. B[there] = Q[there]
  <2>1. 0 \in 0 .. x /\ there - 0 = there
    OBVIOUS
  <2>2. G[0] = <<>>
    BY Zenon DEF IsRunBack, IsRun
  <2> QED
    BY <1>1, <2>1, <2>2
<1>3. \A i \in Int : i <= there /\ i >= here - 1 /\ i >= (there - x + 1) - 1 => B[i] = Q[i]
  <2> DEFINE c == there - x + 1
  <2>1. here \in Int /\ there \in Int /\ c \in Int
    OBVIOUS
  <2>2. IsProfile(text, B, c, there)
    BY <1>1
  <2> HIDE DEF c
  <2>3. \A i \in Int : i <= there /\ i >= here - 1 /\ i >= c - 1 => B[i] = Q[i]
    BY <1>2, <2>1, <2>2, ProfilesAgree
  <2> QED
    BY <2>3 DEF c
<1>4. ASSUME NEW k \in 0 .. x, there - k >= here - 1
      PROVE  G[k] = Q[there - k]
  <2>1. there - k \in Int /\ there - k <= there /\ there - k >= (there - x + 1) - 1
    OBVIOUS
  <2> QED
    BY <1>1, <1>3, <1>4, <2>1
<1> QED
  BY <1>4

\* Q shows that the brackets from here to there, and no fewer, match each other.
IsExpression(text, Q, here, there) ==
  /\ IsProfile(text, Q, here, there) /\ Q[here - 1] = <<>> /\ Q[there] = <<>>
  /\ text[here] \in Opening => \A k \in here .. there - 1 : Q[k] # <<>>

\* What CloseExpression finds the end of is one.
LEMMA ClosesExpression ==
  ASSUME NEW text, Len(text) \in Nat, NEW here \in 1 .. Len(text), NEW there \in here .. Len(text),
         NEW x, x = there - here + 1, Closes(TRUE, Forwards(text, here), x)
  PROVE  \E Q : IsExpression(text, Q, here, there)
<1> DEFINE W == Forwards(text, here)
<1>1. x \in Nat /\ x - 1 \in Nat /\ here \in Nat \ {0} /\ here - 1 + x = there /\ here - 1 + x <= Len(text)
  OBVIOUS
<1>2. W[1] = text[here]
  <2>1. 1 \in 1 .. Len(text) /\ here - 1 + 1 = here
    OBVIOUS
  <2> QED
    BY <2>1 DEF Forwards
<1> HIDE DEF W
<1>3. PICK G : IsRun(TRUE, W, G, x) /\ StaysOpen(TRUE, W, G, x - 1) /\ G[x] = <<>>
  BY Zenon DEF Closes, W
<1>4. IsRunOn(text, here, G, x)
  BY <1>3, Zenon DEF IsRunOn, W
<1>5. PICK Q : IsProfileOn(text, here, G, x, Q)
  BY <1>1, <1>4, ForwardProfile
<1>6. IsProfile(text, Q, here, there) /\ \A k \in 0 .. x : Q[here - 1 + k] = G[k]
  BY <1>1, <1>5 DEF IsProfileOn
<1>7. G[0] = <<>>
  BY <1>3, Zenon DEF IsRun
<1>8. Q[here - 1] = <<>> /\ Q[there] = <<>>
  <2>1. 0 \in 0 .. x /\ x \in 0 .. x /\ here - 1 + 0 = here - 1
    BY <1>1
  <2> QED
    BY <1>1, <1>3, <1>6, <1>7, <2>1
<1>9. ASSUME text[here] \in Opening, NEW k \in here .. there - 1
      PROVE  Q[k] # <<>>
  <2> DEFINE i == k - (here - 1)
  <2>1. i \in 1 .. x - 1 /\ i \in 0 .. x /\ here - 1 + i = k
    OBVIOUS
  <2> HIDE DEF i
  <2>2. \A j \in 1 .. x - 1 : G[j] # <<>>
    BY <1>2, <1>3, <1>9, Zenon DEF StaysOpen, Pushes
  <2> QED
    BY <1>6, <2>1, <2>2
<1> QED
  BY <1>6, <1>8, <1>9 DEF IsExpression

\* Then _GetTextInside finds it too, at a bracket that closes.
LEMMA ExpressionIsInside ==
  ASSUME NEW text, Len(text) \in Nat, NEW here \in 1 .. Len(text), NEW there \in here .. Len(text),
         text[here] \in Opening, NEW Q, IsExpression(text, Q, here, there)
  PROVE  GetTextInside(text, here) = there + 1 /\ text[there] \in Closing
<1>1. /\ IsProfile(text, Q, here, there) /\ Q[here - 1] = <<>> /\ Q[there] = <<>>
      /\ \A k \in here .. there - 1 : Q[k] # <<>>
  BY DEF IsExpression
<1>2. /\ here \in Nat \ {0} /\ there \in Nat /\ there <= Len(text) /\ here \in here .. there
      /\ ~(Len(<<>>) > Len(<<>>))
  OBVIOUS
<1>3. ~(Len(Q[there]) > Len(Q[here - 1]))
  BY <1>1, <1>2
<1>4. PICK p \in here + 1 .. there : GetTextInside(text, here) = p + 1 /\ Q[p] = Q[here - 1]
  BY <1>1, <1>2, <1>3, OtherEndIsInside
<1>5. p = there
  <2>1. p \notin here .. there - 1
    BY <1>1, <1>4
  <2> QED
    BY <2>1
<1>6. text[there] \in Closing
  <2>1. there - 1 \in here .. there - 1 /\ there \in here .. there
    BY <1>5
  <2> DEFINE before == Q[there - 1]
             char == text[there]
  <2>2. before # <<>> /\ Moves(before, char, <<>>)
    BY <1>1, <2>1 DEF IsProfile
  <2>3. before \in Seq(Closing)
    <3>1. there - 1 \in here - 1 .. there
      BY <2>1
    <3> QED
      BY <1>1, <3>1 DEF IsProfile
  <2> HIDE DEF before, char
  <2>4. char \in Opening => <<>> = Append(before, Closer(char))
    BY <2>2, Zenon DEF Moves
  <2>5. char \in Opening => Closer(char) \in Closing
    BY CharKinds
  <2>6. char \notin Opening
    BY <2>3, <2>4, <2>5, AppendProperties
  <2> QED
    BY <2>2, <2>6, Zenon DEF Moves, char
<1> QED
  BY <1>4, <1>5, <1>6

\* Where CloseExpression finds no end of a bracket, _GetTextInside finds none.
LEMMA StuckIsNotInside ==
  ASSUME NEW text, Len(text) \in Nat, NEW here \in 1 .. Len(text), text[here] \in Opening,
         NEW x \in 1 .. Len(text) - here + 1, GetsStuck(TRUE, Forwards(text, here), x)
  PROVE  GetTextInside(text, here) = 0
<1> DEFINE W == Forwards(text, here)
           z == x - 1
           b == here - 1 + z
<1>1. W[1] = text[here] /\ W[x] = text[here - 1 + x]
  <2>1. 1 \in 1 .. Len(text) /\ here - 1 + 1 = here /\ x \in 1 .. Len(text)
    OBVIOUS
  <2> QED
    BY <2>1 DEF Forwards
<1> HIDE DEF W
<1>2. /\ x > 1 /\ W[x] \in Closing
      /\ \E G : IsRun(TRUE, W, G, z) /\ StaysOpen(TRUE, W, G, z) /\ Last(G[z]) # W[x]
  BY <1>1, Zenon DEF GetsStuck, Pushes, Pops, IsMismatch, W
<1>3. PICK G : IsRun(TRUE, W, G, z) /\ StaysOpen(TRUE, W, G, z) /\ Last(G[z]) # W[x]
  BY <1>2
<1>4. z \in Nat /\ z # 0 /\ here \in Nat \ {0} /\ b \in Nat /\ here <= b /\ b + 1 <= Len(text)
      /\ here - 1 + z <= Len(text) /\ b + 1 = here - 1 + x /\ b <= Len(text)
  BY <1>2
<1> HIDE DEF z
<1>5. IsRunOn(text, here, G, z)
  BY <1>3, Zenon DEF IsRunOn, W
<1>6. PICK Q : IsProfileOn(text, here, G, z, Q)
  BY <1>4, <1>5, ForwardProfile
<1>7. IsProfile(text, Q, here, b) /\ \A k \in 0 .. z : Q[here - 1 + k] = G[k]
  BY <1>6 DEF IsProfileOn
<1>8. Q[here - 1] = <<>> /\ Q[b] = G[z]
  <2>1. 0 \in 0 .. z /\ z \in 0 .. z /\ here - 1 + 0 = here - 1
    BY <1>4
  <2>2. G[0] = <<>>
    BY <1>3, Zenon DEF IsRun
  <2> QED
    BY <1>7, <2>1, <2>2
<1> HIDE DEF b
<1>9. ASSUME NEW k \in here .. b
      PROVE  Q[k] # <<>>
  <2> DEFINE i == k - (here - 1)
  <2>1. i \in 1 .. z /\ i \in 0 .. z /\ here - 1 + i = k
    BY <1>4 DEF b
  <2> HIDE DEF i
  <2>2. \A j \in 1 .. z : G[j] # <<>>
    BY <1>1, <1>3, Zenon DEF StaysOpen, Pushes
  <2> QED
    BY <1>7, <2>1, <2>2
<1>10. text[b + 1] \in Closing /\ Last(Q[b]) # text[b + 1]
  BY <1>1, <1>2, <1>3, <1>4, <1>8
<1>11. here \in Nat \ {0} /\ b \in Nat /\ here <= b /\ b <= Len(text)
  BY <1>4
<1>12. IsProfile(text, Q, here, b) /\ Q[here - 1] = <<>>
  BY <1>7, <1>8
<1>13. \A k \in here .. b : Q[k] # <<>>
  BY <1>9
<1> QED
  BY <1>10, <1>11, <1>12, <1>13, NoOtherEnd

\* The same at the end of the text.
LEMMA OpenIsNotInside ==
  ASSUME NEW text, Len(text) \in Nat, NEW here \in 1 .. Len(text), text[here] \in Opening,
         NEW s, NEW z, z = Len(text) - here + 1, Runs(TRUE, Forwards(text, here), z, s)
  PROVE  GetTextInside(text, here) = 0
<1> DEFINE W == Forwards(text, here)
           b == Len(text)
<1>1. W[1] = text[here]
  <2>1. 1 \in 1 .. Len(text) /\ here - 1 + 1 = here
    OBVIOUS
  <2> QED
    BY <2>1 DEF Forwards
<1> HIDE DEF W
<1>2. PICK G : IsRun(TRUE, W, G, z) /\ StaysOpen(TRUE, W, G, z)
  BY Zenon DEF Runs, W
<1>3. z \in Nat /\ here \in Nat \ {0} /\ here - 1 + z = b /\ b \in Nat /\ here <= b /\ here - 1 + z <= Len(text)
  OBVIOUS
<1>4. IsRunOn(text, here, G, z)
  BY <1>2, Zenon DEF IsRunOn, W
<1>5. PICK Q : IsProfileOn(text, here, G, z, Q)
  BY <1>3, <1>4, ForwardProfile
<1>6. IsProfile(text, Q, here, b) /\ \A k \in 0 .. z : Q[here - 1 + k] = G[k]
  BY <1>3, <1>5 DEF IsProfileOn
<1> HIDE DEF b
<1>7. Q[here - 1] = <<>>
  <2>1. 0 \in 0 .. z /\ here - 1 + 0 = here - 1
    BY <1>3
  <2>2. G[0] = <<>>
    BY <1>2, Zenon DEF IsRun
  <2> QED
    BY <1>6, <2>1, <2>2
<1>8. ASSUME NEW k \in here .. b
      PROVE  Q[k] # <<>>
  <2> DEFINE i == k - (here - 1)
  <2>1. i \in 1 .. z /\ i \in 0 .. z /\ here - 1 + i = k
    BY <1>3
  <2> HIDE DEF i
  <2>2. \A j \in 1 .. z : G[j] # <<>>
    BY <1>1, <1>2, Zenon DEF StaysOpen, Pushes
  <2> QED
    BY <1>6, <2>1, <2>2
<1>9. b = Len(text) /\ b <= Len(text)
  BY DEF b
<1> QED
  BY <1>3, <1>6, <1>7, <1>8, <1>9, NoOtherEnd

\* What a scan back from the end of such an expression waits for, up to character z.
BackState(text, there, G, x, z) ==
  /\ IsRunBack(text, there, G, x) /\ \A k \in 1 .. z : G[k] # <<>>

\* It does not go on beyond the start.
LEMMA BackStaysInside ==
  ASSUME NEW text, NEW here \in Nat \ {0}, NEW there \in Nat, here <= there, text[here] \in Opening,
         NEW Q, IsExpression(text, Q, here, there), NEW x \in 0 .. there, NEW z \in 0 .. x,
         NEW G, BackState(text, there, G, x, z)
  PROVE  /\ there - z >= here
         /\ \A k \in 0 .. x : there - k >= here - 1 => G[k] = Q[there - k]
<1>1. IsProfile(text, Q, here, there) /\ Q[here - 1] = <<>> /\ Q[there] = <<>>
  BY DEF IsExpression
<1>2. IsRunBack(text, there, G, x) /\ \A k \in 1 .. z : G[k] # <<>>
  BY DEF BackState
<1>3. \A k \in 0 .. x : there - k >= here - 1 => G[k] = Q[there - k]
  BY <1>1, <1>2, BackwardsAgree
<1>4. there - z >= here
  <2> SUFFICES ASSUME ~(there - z >= here) PROVE FALSE
    OBVIOUS
  <2> DEFINE k == there - here + 1
  <2>1. k \in 1 .. z /\ k \in 0 .. x /\ there - k = here - 1 /\ there - k >= here - 1
    OBVIOUS
  <2> HIDE DEF k
  <2>2. G[k] = Q[here - 1]
    BY <1>3, <2>1
  <2> QED
    BY <1>1, <1>2, <2>1, <2>2
<1> QED
  BY <1>3, <1>4

\* Where ReverseCloseExpression finds a start, it is the start of the expression.
LEMMA ExpressionClosesBack ==
  ASSUME NEW text, NEW here \in Nat \ {0}, NEW there \in Nat, here <= there,
         text[here] \in Opening, text[there] \in Closing,
         NEW Q, IsExpression(text, Q, here, there), NEW s \in 1 .. there,
         NEW x, x = there - s + 1, Closes(FALSE, Backwards(text, there), x)
  PROVE  s = here
<1> DEFINE W == Backwards(text, there)
           z == x - 1
<1>1. W[1] = text[there]
  <2>1. 1 \in 1 .. there /\ there + 1 - 1 = there
    OBVIOUS
  <2> QED
    BY <2>1 DEF Backwards
<1> HIDE DEF W
<1>2. PICK G : IsRun(FALSE, W, G, x) /\ StaysOpen(FALSE, W, G, z) /\ G[x] = <<>>
  BY Zenon DEF Closes, W
<1>3. BackState(text, there, G, x, z)
  <2>1. \A k \in 1 .. z : G[k] # <<>>
    BY <1>1, <1>2, Zenon DEF StaysOpen, Pushes
  <2> QED
    BY <1>2, <2>1, Zenon DEF BackState, IsRunBack, W
<1>4. x \in 0 .. there /\ z \in 0 .. x /\ x \in 0 .. x /\ there - z = s /\ there - x = s - 1
  OBVIOUS
<1> HIDE DEF z
<1>5. there - z >= here /\ \A k \in 0 .. x : there - k >= here - 1 => G[k] = Q[there - k]
  BY <1>3, <1>4, BackStaysInside
<1>6. s >= here /\ there - x >= here - 1
  BY <1>4, <1>5
<1>7. Q[s - 1] = <<>>
  BY <1>2, <1>4, <1>5, <1>6
<1>8. s - 1 \notin here .. there - 1
  BY <1>7 DEF IsExpression
<1> QED
  BY <1>6, <1>8

\* It does not miss it.
LEMMA ExpressionIsNotStuckBack ==
  ASSUME NEW text, NEW here \in Nat \ {0}, NEW there \in Nat, here <= there,
         text[here] \in Opening, text[there] \in Closing,
         NEW Q, IsExpression(text, Q, here, there),
         NEW x \in 1 .. there, GetsStuck(FALSE, Backwards(text, there), x)
  PROVE  FALSE
<1> DEFINE W == Backwards(text, there)
           z == x - 1
           s == there - z
           char == text[s]
<1>1. W[1] = text[there] /\ W[x] = char
  <2>1. 1 \in 1 .. there /\ there + 1 - 1 = there /\ there + 1 - x = s
    OBVIOUS
  <2> QED
    BY <2>1 DEF Backwards
<1> HIDE DEF W
<1>2. /\ x > 1 /\ W[x] \in Opening
      /\ \E G : IsRun(FALSE, W, G, z) /\ StaysOpen(FALSE, W, G, z) /\ Last(G[z]) # Closer(W[x])
  BY <1>1, Zenon DEF GetsStuck, Pushes, Pops, IsMismatch, W
<1>3. PICK G : IsRun(FALSE, W, G, z) /\ StaysOpen(FALSE, W, G, z) /\ Last(G[z]) # Closer(W[x])
  BY <1>2
<1>4. BackState(text, there, G, z, z)
  <2>1. \A k \in 1 .. z : G[k] # <<>>
    BY <1>1, <1>3, Zenon DEF StaysOpen, Pushes
  <2> QED
    BY <1>3, <2>1, Zenon DEF BackState, IsRunBack, W
<1>5. z \in 0 .. there /\ z \in 0 .. z /\ there - z = s
  OBVIOUS
<1> HIDE DEF z
<1>6. there - z >= here /\ \A k \in 0 .. z : there - k >= here - 1 => G[k] = Q[there - k]
  BY <1>4, <1>5, BackStaysInside
<1>7. s \in here .. there /\ s - 1 \in here - 1 .. there
  BY <1>5, <1>6
<1> HIDE DEF s
<1>8. G[z] = Q[s]
  <2>1. there - z >= here - 1
    BY <1>5, <1>6
  <2> QED
    BY <1>5, <1>6, <2>1
<1>9. Moves(Q[s - 1], char, Q[s]) /\ Q[s - 1] \in Seq(Closing)
  BY <1>7 DEF IsExpression, IsProfile
<1> HIDE DEF char
<1>10. char \in Opening /\ Closer(char) \in Closing
  BY <1>1, <1>2, CharKinds
<1> DEFINE before == Q[s - 1]
           after == Q[s]
           c == Closer(char)
<1>11. after = Append(before, c)
  BY <1>9, <1>10, Zenon DEF Moves
<1>12. before \in Seq(Closing) /\ c \in Closing /\ Last(after) # c
  BY <1>1, <1>3, <1>8, <1>9, <1>10
<1> HIDE DEF before, after, c
<1>13. Last(Append(before, c)) = c
  BY <1>12, AppendIsLonger
<1> QED
  BY <1>11, <1>12, <1>13

\* And it does not read beyond it.
LEMMA ExpressionIsNotOpenBack ==
  ASSUME NEW text, NEW here \in Nat \ {0}, NEW there \in Nat, here <= there,
         text[here] \in Opening, text[there] \in Closing,
         NEW Q, IsExpression(text, Q, here, there),
         NEW s, Runs(FALSE, Backwards(text, there), there, s)
  PROVE  FALSE
<1> DEFINE W == Backwards(text, there)
<1>1. W[1] = text[there]
  <2>1. 1 \in 1 .. there /\ there + 1 - 1 = there
    OBVIOUS
  <2> QED
    BY <2>1 DEF Backwards
<1> HIDE DEF W
<1>2. PICK G : IsRun(FALSE, W, G, there) /\ StaysOpen(FALSE, W, G, there)
  BY Zenon DEF Runs, W
<1>3. BackState(text, there, G, there, there)
  <2>1. \A k \in 1 .. there : G[k] # <<>>
    BY <1>1, <1>2, Zenon DEF StaysOpen, Pushes
  <2> QED
    BY <1>2, <2>1, Zenon DEF BackState, IsRunBack, W
<1>4. there \in 0 .. there
  OBVIOUS
<1>5. there - there >= here
  BY <1>3, <1>4, BackStaysInside
<1> QED
  BY <1>5

\* Later lines begin no earlier.
LEMMA BaseGrows ==
  ASSUME NEW S, NEW ls \in Seq(Seq(S)), NEW l \in 1 .. Len(ls), NEW k \in l + 1 .. Len(ls)
  PROVE  Base(ls, k) >= Base(ls, l) + Len(ls[l])
<1> DEFINE n == Len(ls)
           base == Base(ls, l) + Len(ls[l])
           T == {i \in 0 .. n - (l + 1) : Base(ls, (l + 1) + i) >= base}
<1>1. ASSUME NEW j \in 1 .. n
      PROVE  Len(ls[j]) \in Nat /\ Base(ls, j) \in Nat /\ Base(ls, j + 1) = Base(ls, j) + Len(ls[j])
  <2>1. IsLaidOut(ls, j)
    BY LaidOut
  <2> QED
    BY <2>1 DEF IsLaidOut
<1>2. n \in Nat
  BY LenProperties
<1> HIDE DEF n
<1>3. n - (l + 1) \in Nat /\ l \in 1 .. n /\ k \in l + 1 .. n
  BY <1>2 DEF n
<1>4. base \in Nat /\ Base(ls, l + 1) = base
  BY <1>1, <1>3
<1> HIDE DEF base
<1>5. 0 \in T
  <2>1. (l + 1) + 0 = l + 1
    BY <1>3
  <2> QED
    BY <1>3, <1>4, <2>1
<1>6. ASSUME NEW i \in 0 .. (n - (l + 1)) - 1, i \in T
      PROVE  i + 1 \in T
  <2> DEFINE j == (l + 1) + i
             bj == Base(ls, j)
             lj == Len(ls[j])
  <2>1. j \in 1 .. n /\ (l + 1) + (i + 1) = j + 1 /\ i + 1 \in 0 .. n - (l + 1)
    BY <1>2, <1>3
  <2>2. lj \in Nat /\ bj \in Nat /\ Base(ls, j + 1) = bj + lj
    BY <1>1, <2>1
  <2>3. bj >= base
    BY <1>6
  <2> HIDE DEF j, bj, lj
  <2>4. Base(ls, j + 1) >= base
    BY <1>4, <2>2, <2>3
  <2> QED
    BY <2>1, <2>4
<1> HIDE DEF T
<1>7. \A i \in 0 .. n - (l + 1) : i \in T
  BY <1>3, <1>5, <1>6, UpTo
<1>8. k - (l + 1) \in 0 .. n - (l + 1) /\ (l + 1) + (k - (l + 1)) = k
  BY <1>2, <1>3
<1> QED
  BY <1>7, <1>8 DEF T, base

\* Different positions in the lines are different positions in the text.
LEMMA SamePosition ==
  ASSUME NEW S, NEW ls \in Seq(Seq(S)), NEW l \in 1 .. Len(ls), NEW i \in 1 .. Len(ls[l]),
         NEW k \in 1 .. Len(ls), NEW j \in 1 .. Len(ls[k]), Base(ls, l) + i = Base(ls, k) + j
  PROVE  l = k /\ i = j
<1> DEFINE bl == Base(ls, l)
           bk == Base(ls, k)
           nl == Len(ls[l])
           nk == Len(ls[k])
<1>1. bl \in Nat /\ bk \in Nat /\ nl \in Nat /\ nk \in Nat
  <2>1. IsLaidOut(ls, l) /\ IsLaidOut(ls, k)
    BY LaidOut
  <2> QED
    BY <2>1 DEF IsLaidOut
<1>2. l \in Int /\ k \in Int /\ i \in 1 .. nl /\ j \in 1 .. nk /\ bl + i = bk + j
  OBVIOUS
<1>3. k > l => bk >= bl + nl
  <2>1. k > l => k \in l + 1 .. Len(ls)
    OBVIOUS
  <2> QED
    BY <2>1, BaseGrows
<1>4. l > k => bl >= bk + nk
  <2>1. l > k => l \in k + 1 .. Len(ls)
    OBVIOUS
  <2> QED
    BY <2>1, BaseGrows
<1>5. l = k => bl = bk
  OBVIOUS
<1> HIDE DEF bl, bk, nl, nk
<1>6. ~(k > l) /\ ~(l > k)
  BY <1>1, <1>2, <1>3, <1>4
<1>7. l = k
  BY <1>2, <1>6
<1> QED
  BY <1>1, <1>2, <1>5, <1>7

\* What MatchersAgree says of one bracket.
MatchersAgreeAt(ls, l, i) ==
  LET end == CloseExpression(ls, l, i)
      past == GetTextInside(Joined(ls), Offset(ls, l, i))
  IN  IF end = NoPosition THEN past = 0
      ELSE /\ past = Offset(ls, end.linenum, end.pos)
           /\ ReverseCloseExpression(ls, end.linenum, end.pos - 1) = [linenum |-> l, pos |-> i]

\* The start of an expression is found from its end.
LEMMA ReverseFindsStart ==
  ASSUME NEW S, NEW ls \in Seq(Seq(S)), NEW l \in 1 .. Len(ls), NEW i \in 1 .. Len(ls[l]),
         NEW k \in 1 .. Len(ls), NEW j \in 1 .. Len(ls[k]), Base(ls, k) + j >= Base(ls, l) + i,
         ls[l][i] \in Opening, ls[k][j] \in Closing,
         NEW Q, IsExpression(Joined(ls), Q, Base(ls, l) + i, Base(ls, k) + j)
  PROVE  ReverseCloseExpression(ls, k, j) = [linenum |-> l, pos |-> i]
<1> DEFINE text == Joined(ls)
           here == Base(ls, l) + i
           there == Base(ls, k) + j
           start == ReverseCloseExpression(ls, k, j)
           W == Backwards(text, there)
<1>1. /\ here \in 1 .. Len(text) /\ text[here] = ls[l][i]
      /\ there \in 1 .. Len(text) /\ text[there] = ls[k][j]
  <2>1. IsLaidOut(ls, l) /\ IsLaidOut(ls, k)
    BY LaidOut
  <2> QED
    BY <2>1 DEF IsLaidOut
<1>2. Len(text) \in Nat
  BY BaseEnds
<1>3. ReverseComesTo(ls, k, j)
  BY ReverseScans
<1>4. \/ \E m \in 1 .. k : \E p \in 1 .. Len(ls[m]) :
           /\ start = [linenum |-> m, pos |-> p] /\ Base(ls, m) + p <= there
           /\ Closes(FALSE, W, there - (Base(ls, m) + p) + 1)
      \/ /\ start = NoPosition
         /\ MayEnd(ls[k], j) /\ W[1] \in Closing =>
              \/ \E x \in 1 .. there : GetsStuck(FALSE, W, x)
              \/ \E s : Runs(FALSE, W, there, s)
  BY <1>3, Zenon DEF ReverseComesTo
<1>5. IsExpression(text, Q, here, there) /\ there >= here
  OBVIOUS
<1> HIDE DEF text, here, there, start
<1>6. here \in Nat \ {0} /\ there \in Nat /\ here <= there /\ text[here] \in Opening /\ text[there] \in Closing
  BY <1>1, <1>2, <1>5
<1>7. W[1] \in Closing /\ MayEnd(ls[k], j)
  <2>1. 1 \in 1 .. there /\ there + 1 - 1 = there
    BY <1>1, <1>2
  <2>2. W[1] = text[there]
    BY <2>1 DEF Backwards
  <2>3. MayEnd(ls[k], j)
    BY Zenon DEF MayEnd
  <2> QED
    BY <1>6, <2>2, <2>3
<1> HIDE DEF W
<1>8. ~ \E x \in 1 .. there : GetsStuck(FALSE, W, x)
  BY <1>5, <1>6, ExpressionIsNotStuckBack DEF W
<1>9. ~ \E s : Runs(FALSE, W, there, s)
  BY <1>5, <1>6, ExpressionIsNotOpenBack DEF W
<1>10. PICK m \in 1 .. k : \E p \in 1 .. Len(ls[m]) :
         /\ start = [linenum |-> m, pos |-> p] /\ Base(ls, m) + p <= there
         /\ Closes(FALSE, W, there - (Base(ls, m) + p) + 1)
  BY <1>4, <1>7, <1>8, <1>9, Zenon
<1>11. PICK p \in 1 .. Len(ls[m]) :
         /\ start = [linenum |-> m, pos |-> p] /\ Base(ls, m) + p <= there
         /\ Closes(FALSE, W, there - (Base(ls, m) + p) + 1)
  BY <1>10
<1>12. m \in 1 .. Len(ls)
  BY LenProperties
<1> DEFINE s == Base(ls, m) + p
<1>13. s \in 1 .. there
  <2>1. IsLaidOut(ls, m)
    BY <1>12, LaidOut
  <2>2. Base(ls, m) \in Nat
    BY <2>1 DEF IsLaidOut
  <2> QED
    BY <1>6, <1>11, <2>2, SMTT(30)
<1>14. Closes(FALSE, Backwards(text, there), there - s + 1)
  BY <1>11 DEF W
<1> HIDE DEF s
<1>15. s = here
  BY <1>5, <1>6, <1>13, <1>14, ExpressionClosesBack
<1>16. m = l /\ p = i
  BY <1>12, <1>15, SamePosition DEF s, here
<1> QED
  BY <1>11, <1>16 DEF start

\* The matchers agree on every bracket that opens.
LEMMA MatchersAgreeOnBracket ==
  ASSUME NEW S, NEW ls \in Seq(Seq(S)), NEW l \in 1 .. Len(ls), NEW i \in 1 .. Len(ls[l]),
         ls[l][i] \in Opening
  PROVE  MatchersAgreeAt(ls, l, i)
<1> DEFINE text == Joined(ls)
           here == Base(ls, l) + i
           end == CloseExpression(ls, l, i)
           W == Forwards(text, here)
<1>1. here \in 1 .. Len(text) /\ text[here] = ls[l][i]
  <2>1. IsLaidOut(ls, l)
    BY LaidOut
  <2> QED
    BY <2>1 DEF IsLaidOut
<1>2. Len(text) \in Nat
  BY BaseEnds
<1>3. CloseComesTo(ls, l, i)
  BY CloseScans
<1>4. \/ \E k \in l .. Len(ls) : \E j \in 1 .. Len(ls[k]) :
           /\ end = [linenum |-> k, pos |-> j + 1] /\ Base(ls, k) + j >= here
           /\ Closes(TRUE, W, Base(ls, k) + j - here + 1)
      \/ /\ end = NoPosition
         /\ MayClose(ls[l], i) /\ W[1] \in Opening =>
              \/ \E x \in 1 .. Len(text) - here + 1 : GetsStuck(TRUE, W, x)
              \/ \E s : Runs(TRUE, W, Len(text) - here + 1, s)
  BY <1>3, Zenon DEF CloseComesTo
<1>5. here = Base(ls, l) + i
  OBVIOUS
<1> HIDE DEF text, here, end
<1>6. text[here] \in Opening
  BY <1>1
<1>7. W[1] \in Opening /\ MayClose(ls[l], i)
  <2>1. 1 \in 1 .. Len(text) /\ here - 1 + 1 = here
    BY <1>1, <1>2
  <2>2. W[1] = text[here]
    BY <2>1 DEF Forwards
  <2>3. MayClose(ls[l], i)
    BY CharKinds, Zenon DEF MayClose
  <2> QED
    BY <1>6, <2>2, <2>3
<1> HIDE DEF W
<1>8. Offset(ls, l, i) = here /\ \A k, j : Offset(ls, k, j) = Base(ls, k) + j
  BY <1>5, OffsetIs
<1>9. ASSUME end = NoPosition,
             \/ \E x \in 1 .. Len(text) - here + 1 : GetsStuck(TRUE, W, x)
             \/ \E s : Runs(TRUE, W, Len(text) - here + 1, s)
      PROVE  MatchersAgreeAt(ls, l, i)
  <2>1. GetTextInside(text, here) = 0
    <3>1. CASE \E x \in 1 .. Len(text) - here + 1 : GetsStuck(TRUE, W, x)
      BY <1>1, <1>2, <1>6, <3>1, StuckIsNotInside DEF W
    <3>2. CASE \E s : Runs(TRUE, W, Len(text) - here + 1, s)
      BY <1>1, <1>2, <1>6, <3>2, OpenIsNotInside DEF W
    <3> QED
      BY <1>9, <3>1, <3>2
  <2> QED
    BY <1>8, <1>9, <2>1, Zenon DEF MatchersAgreeAt, end, text
<1>10. ASSUME NEW k \in l .. Len(ls), NEW j \in 1 .. Len(ls[k]),
              end = [linenum |-> k, pos |-> j + 1], Base(ls, k) + j >= here,
              Closes(TRUE, W, Base(ls, k) + j - here + 1)
       PROVE  MatchersAgreeAt(ls, l, i)
  <2> DEFINE there == Base(ls, k) + j
  <2>1. k \in 1 .. Len(ls) /\ k # 0
    BY LenProperties
  <2>2. IsLaidOut(ls, k)
    BY <2>1, LaidOut
  <2>3. there \in 1 .. Len(text) /\ text[there] = ls[k][j] /\ Base(ls, k) \in Nat
    BY <2>2 DEF IsLaidOut, text
  <2>4. Closes(TRUE, Forwards(text, here), there - here + 1) /\ there >= here
    <3>1. there >= here
      BY <1>10
    <3>2. Closes(TRUE, W, Base(ls, k) + j - here + 1)
      BY <1>10
    <3> DEFINE base == Base(ls, k)
    <3>5. base \in Int /\ here \in Int /\ j \in Int
      BY <1>1, <2>3
    <3> HIDE DEF base
    <3>6. base + j - here + 1 = (base + j) - here + 1
      BY <3>5
    <3>3. Closes(TRUE, W, there - here + 1)
      BY <3>2, <3>6 DEF base
    <3>4. Closes(TRUE, Forwards(text, here), there - here + 1)
      BY <3>3, Zenon DEF W
    <3> QED
      BY <3>1, <3>4
  <2>5. (Base(ls, k) + j) + 1 = Base(ls, k) + (j + 1) /\ (j + 1) - 1 = j
    BY <2>3
  <2> HIDE DEF there
  <2>6. there \in here .. Len(text)
    BY <1>1, <1>2, <2>3, <2>4
  <2>7. PICK Q : IsExpression(text, Q, here, there)
    BY <1>1, <1>2, <2>4, <2>6, ClosesExpression
  <2>8. GetTextInside(text, here) = there + 1 /\ text[there] \in Closing
    BY <1>1, <1>2, <1>6, <2>6, <2>7, ExpressionIsInside
  <2>9. ReverseCloseExpression(ls, k, j) = [linenum |-> l, pos |-> i]
    <3>1. ls[k][j] \in Closing
      BY <2>3, <2>8
    <3>2. Base(ls, k) + j >= Base(ls, l) + i
      BY <1>5, <2>4 DEF there
    <3>3. IsExpression(Joined(ls), Q, Base(ls, l) + i, Base(ls, k) + j)
      BY <1>5, <2>7 DEF there, text
    <3> QED
      BY <2>1, <3>1, <3>2, <3>3, ReverseFindsStart
  <2>10. end.linenum = k /\ end.pos = j + 1 /\ end # NoPosition
    <3>1. NoPosition.linenum = 0
      BY DEF NoPosition
    <3> QED
      BY <1>10, <2>1, <3>1
  <2>11. Offset(ls, k, j + 1) = there + 1
    BY <1>8, <2>5 DEF there
  <2>12. GetTextInside(text, Offset(ls, l, i)) = Offset(ls, end.linenum, end.pos)
    BY <1>8, <2>8, <2>10, <2>11
  <2>13. ReverseCloseExpression(ls, end.linenum, end.pos - 1) = [linenum |-> l, pos |-> i]
    BY <2>5, <2>9, <2>10
  <2> QED
    BY <2>10, <2>12, <2>13, Zenon DEF MatchersAgreeAt, end, text
<1> QED
  BY <1>4, <1>7, <1>9, <1>10, Zenon

----------------------------------------------------------------------------
(* What has a profile that begins and ends with nothing is balanced.        *)

\* The positions from a to i that hold one of chars.
Holding(text, a, i, chars) == {j \in a .. i : text[j] \in chars}

\* One position more.
LEMMA HoldingGrows ==
  ASSUME NEW text, NEW a \in Int, NEW i \in Int, i >= a - 1, NEW chars,
         IsFiniteSet(Holding(text, a, i, chars))
  PROVE  /\ IsFiniteSet(Holding(text, a, i + 1, chars))
         /\ Cardinality(Holding(text, a, i, chars)) \in Nat
         /\ text[i + 1] \in chars => Cardinality(Holding(text, a, i + 1, chars))
                                       = Cardinality(Holding(text, a, i, chars)) + 1
         /\ text[i + 1] \notin chars => Cardinality(Holding(text, a, i + 1, chars))
                                          = Cardinality(Holding(text, a, i, chars))
<1> DEFINE T == Holding(text, a, i, chars)
<1>1. /\ text[i + 1] \in chars => Holding(text, a, i + 1, chars) = T \cup {i + 1}
      /\ text[i + 1] \notin chars => Holding(text, a, i + 1, chars) = T
      /\ i + 1 \notin T
  <2>1. i + 1 \in a .. i + 1 /\ i + 1 \notin a .. i /\ \A j \in a .. i : j \in a .. i + 1
    OBVIOUS
  <2>2. \A j \in a .. i + 1 : j \in a .. i \/ j = i + 1
    OBVIOUS
  <2> QED
    BY <2>1, <2>2 DEF Holding
<1> HIDE DEF T
<1>2. IsFiniteSet(T) /\ Cardinality(T) \in Nat
  BY FS_CardinalityType DEF T
<1>3. IsFiniteSet(T \cup {i + 1}) /\ Cardinality(T \cup {i + 1}) = Cardinality(T) + 1
  BY <1>1, <1>2, FS_AddElement
<1> QED
  BY <1>1, <1>2, <1>3 DEF T

\* A bracket makes what is waited for longer or shorter by one.
LEMMA MovesByOne ==
  ASSUME NEW q \in Seq(Closing), NEW r \in Seq(Closing), NEW char, Moves(q, char, r)
  PROVE  /\ char \in Opening => Len(r) = Len(q) + 1
         /\ char \in Closing => Len(q) = Len(r) + 1
         /\ char \notin Opening \cup Closing => Len(r) = Len(q)
<1>1. ASSUME char \in Opening PROVE Len(r) = Len(q) + 1
  <2> DEFINE c == Closer(char)
  <2>1. c \in Closing
    BY <1>1, CharKinds
  <2>2. r = Append(q, c)
    BY <1>1, Zenon DEF Moves
  <2> HIDE DEF c
  <2> QED
    BY <2>1, <2>2, AppendIsLonger
<1>2. ASSUME char \in Closing PROVE Len(q) = Len(r) + 1
  <2>1. q = Append(r, char)
    BY <1>2, Zenon DEF Moves
  <2> QED
    BY <1>2, <2>1, AppendIsLonger
<1>3. ASSUME char \notin Opening \cup Closing PROVE Len(r) = Len(q)
  BY <1>3, Zenon DEF Moves
<1> QED
  BY <1>1, <1>2, <1>3

\* The brackets that are open at i are as many as are waited for.
DepthIs(text, a, Q, i) ==
  /\ IsFiniteSet(Holding(text, a, i, Opening)) /\ IsFiniteSet(Holding(text, a, i, Closing))
  /\ Cardinality(Holding(text, a, i, Opening)) - Cardinality(Holding(text, a, i, Closing)) = Len(Q[i])

\* They are.
LEMMA DepthIsLength ==
  ASSUME NEW text, NEW a \in Nat \ {0}, NEW b \in Nat, a <= b,
         NEW Q, IsProfile(text, Q, a, b), Q[a - 1] = <<>>
  PROVE  \A i \in a .. b : DepthIs(text, a, Q, i)
<1> DEFINE T == {i \in 0 .. b - (a - 1) : DepthIs(text, a, Q, (a - 1) + i)}
<1>1. /\ \A i \in a - 1 .. b : Q[i] \in Seq(Closing)
      /\ \A i \in a .. b : Moves(Q[i - 1], text[i], Q[i])
  BY DEF IsProfile
<1>2. 0 \in T
  <2>1. \A chars : Holding(text, a, a - 1, chars) = {}
    <3>1. a .. a - 1 = {}
      OBVIOUS
    <3> QED
      BY <3>1 DEF Holding
  <2>2. IsFiniteSet({}) /\ Cardinality({}) = 0
    BY FS_EmptySet
  <2>3. Len(Q[a - 1]) = 0 /\ 0 - 0 = 0 /\ (a - 1) + 0 = a - 1 /\ 0 \in 0 .. b - (a - 1)
    OBVIOUS
  <2>4. DepthIs(text, a, Q, a - 1)
    BY <2>1, <2>2, <2>3 DEF DepthIs
  <2> QED
    BY <2>3, <2>4
<1>3. ASSUME NEW i \in 0 .. (b - (a - 1)) - 1, i \in T
      PROVE  i + 1 \in T
  <2> DEFINE k == (a - 1) + i
             char == text[k + 1]
             q == Q[k]
             r == Q[k + 1]
             on == Cardinality(Holding(text, a, k, Opening))
             cn == Cardinality(Holding(text, a, k, Closing))
             om == Cardinality(Holding(text, a, k + 1, Opening))
             cm == Cardinality(Holding(text, a, k + 1, Closing))
  <2>1. /\ k \in Int /\ k >= a - 1 /\ k \in a - 1 .. b /\ k + 1 \in a .. b /\ k + 1 \in a - 1 .. b
        /\ (k + 1) - 1 = k /\ i + 1 \in 0 .. b - (a - 1) /\ (a - 1) + (i + 1) = k + 1 /\ a \in Int
    OBVIOUS
  <2>2. DepthIs(text, a, Q, k)
    BY <1>3
  <2> HIDE DEF k
  <2>3. on - cn = Len(q) /\ IsFiniteSet(Holding(text, a, k, Opening)) /\ IsFiniteSet(Holding(text, a, k, Closing))
    BY <2>2 DEF DepthIs
  <2>4. /\ IsFiniteSet(Holding(text, a, k + 1, Opening)) /\ on \in Nat
        /\ char \in Opening => om = on + 1
        /\ char \notin Opening => om = on
    BY <2>1, <2>3, HoldingGrows
  <2>5. /\ IsFiniteSet(Holding(text, a, k + 1, Closing)) /\ cn \in Nat
        /\ char \in Closing => cm = cn + 1
        /\ char \notin Closing => cm = cn
    BY <2>1, <2>3, HoldingGrows
  <2>6. q \in Seq(Closing) /\ r \in Seq(Closing) /\ Moves(q, char, r)
    BY <1>1, <2>1
  <2> HIDE DEF q, r, char, on, cn, om, cm
  <2>7. /\ char \in Opening => Len(r) = Len(q) + 1
        /\ char \in Closing => Len(q) = Len(r) + 1
        /\ char \notin Opening \cup Closing => Len(r) = Len(q)
    BY <2>6, MovesByOne
  <2>8. char \in Opening => char \notin Closing
    BY CharKinds
  <2>9. Len(q) \in Nat /\ Len(r) \in Nat
    BY <2>6
  <2> DEFINE lq == Len(q)
             lr == Len(r)
  <2>10. om - cm = lr
    <3> HIDE DEF lq, lr
    <3>1. lq \in Nat /\ lr \in Nat /\ on - cn = lq
      BY <2>3, <2>9 DEF lq, lr, q, on, cn
    <3>2. CASE char \in Opening
      <4>1. om = on + 1 /\ cm = cn /\ lr = lq + 1
        BY <2>4, <2>5, <2>7, <2>8, <3>2 DEF lq, lr, char, on, om, cn, cm
      <4> QED
        BY <2>4, <2>5, <3>1, <4>1 DEF on, cn
    <3>3. CASE char \in Closing
      <4>1. om = on /\ cm = cn + 1 /\ lq = lr + 1
        BY <2>4, <2>5, <2>7, <2>8, <3>3 DEF lq, lr, char, on, om, cn, cm
      <4> QED
        BY <2>4, <2>5, <3>1, <4>1 DEF on, cn
    <3>4. CASE char \notin Opening \cup Closing
      <4>1. om = on /\ cm = cn /\ lq = lr
        BY <2>4, <2>5, <2>7, <2>8, <3>4 DEF lq, lr, char, on, om, cn, cm
      <4> QED
        BY <2>4, <2>5, <3>1, <4>1 DEF on, cn
    <3> QED
      BY <3>2, <3>3, <3>4
  <2>11. DepthIs(text, a, Q, k + 1)
    BY <2>4, <2>5, <2>10 DEF DepthIs, om, cm, r
  <2> QED
    BY <2>1, <2>11
<1> HIDE DEF T
<1>4. \A i \in 0 .. b - (a - 1) : i \in T
  <2>1. b - (a - 1) \in Nat
    OBVIOUS
  <2> QED
    BY <1>2, <1>3, <2>1, UpTo
<1>5. ASSUME NEW i \in a .. b PROVE DepthIs(text, a, Q, i)
  <2>1. i - (a - 1) \in 0 .. b - (a - 1) /\ (a - 1) + (i - (a - 1)) = i
    OBVIOUS
  <2> QED
    BY <1>4, <2>1 DEF T
<1> QED
  BY <1>5

\* So it is balanced.
LEMMA ProfileIsBalanced ==
  ASSUME NEW text, Len(text) \in Nat, NEW a \in Nat \ {0}, NEW b \in Nat, a <= b, b <= Len(text),
         NEW Q, IsProfile(text, Q, a, b), Q[a - 1] = <<>>, Q[b] = <<>>
  PROVE  IsBalanced(text, a, b)
<1> DEFINE depth(i) == Cardinality({j \in a .. i : text[j] \in Opening})
                       - Cardinality({j \in a .. i : text[j] \in Closing})
<1>1. \A i \in a - 1 .. b : Q[i] \in Seq(Closing)
  BY DEF IsProfile
<1>8. \A i \in a .. b : DepthIs(text, a, Q, i)
  BY DepthIsLength
<1>2. ASSUME NEW i \in a .. b PROVE depth(i) = Len(Q[i])
  BY <1>8, Zenon DEF DepthIs, Holding
<1> HIDE DEF depth
<1>3. Len(<<>>) = 0 /\ b \in a .. b /\ \A i \in a .. b : i \in a - 1 .. b /\ i - 1 \in a - 1 .. b
  OBVIOUS
<1>4. \A i \in a - 1 .. b : Len(Q[i]) \in Nat
  BY <1>1
<1>5. depth(b) = 0
  BY <1>2, <1>3
<1>6. \A i \in a .. b : depth(i) >= 0
  BY <1>2, <1>3, <1>4
<1>7. ASSUME NEW i \in a .. b, text[i] \in Opening
      PROVE  GetTextInside(text, i) \in a .. b + 1
  <2>1. ~(Len(Q[b]) > Len(Q[i - 1]))
    BY <1>3, <1>4
  <2>2. PICK p \in i + 1 .. b : GetTextInside(text, i) = p + 1
    BY <1>7, <2>1, OtherEndIsInside
  <2> QED
    BY <2>2
<1> QED
  BY <1>5, <1>6, <1>7 DEF IsBalanced, depth

\* What is skipped forwards is balanced,
LEMMA ForwardsIsBalanced ==
  ASSUME NEW S, NEW ls \in Seq(Seq(S)), NEW l \in 1 .. Len(ls), NEW i \in 1 .. Len(ls[l]),
         NEW end, end = CloseExpression(ls, l, i), end # NoPosition
  PROVE  IsBalanced(Joined(ls), Offset(ls, l, i), Offset(ls, end.linenum, end.pos) - 1)
<1> DEFINE text == Joined(ls)
           here == Base(ls, l) + i
           W == Forwards(text, here)
<1>1. here \in 1 .. Len(text)
  <2>1. IsLaidOut(ls, l)
    BY LaidOut
  <2> QED
    BY <2>1 DEF IsLaidOut
<1>2. Len(text) \in Nat
  BY BaseEnds
<1>3. CloseComesTo(ls, l, i)
  BY CloseScans
<1>4. \E k \in l .. Len(ls) : \E j \in 1 .. Len(ls[k]) :
        /\ end = [linenum |-> k, pos |-> j + 1] /\ Base(ls, k) + j >= here
        /\ Closes(TRUE, W, Base(ls, k) + j - here + 1)
  BY <1>3, Zenon DEF CloseComesTo
<1>5. here = Base(ls, l) + i
  OBVIOUS
<1> HIDE DEF text, here, W
<1>6. PICK k \in l .. Len(ls) : \E j \in 1 .. Len(ls[k]) :
        /\ end = [linenum |-> k, pos |-> j + 1] /\ Base(ls, k) + j >= here
        /\ Closes(TRUE, W, Base(ls, k) + j - here + 1)
  BY <1>4
<1>7. PICK j \in 1 .. Len(ls[k]) :
        /\ end = [linenum |-> k, pos |-> j + 1] /\ Base(ls, k) + j >= here
        /\ Closes(TRUE, W, Base(ls, k) + j - here + 1)
  BY <1>6
<1> DEFINE base == Base(ls, k)
           there == base + j
<1>8. k \in 1 .. Len(ls)
  BY LenProperties
<1>9. IsLaidOut(ls, k)
  BY <1>8, LaidOut
<1>10. there \in 1 .. Len(text) /\ base \in Nat
  BY <1>9 DEF IsLaidOut, text
<1>11. Closes(TRUE, W, base + j - here + 1) /\ there >= here
  BY <1>7
<1> HIDE DEF base
<1>12. base + j - here + 1 = there - here + 1 /\ (base + (j + 1)) - 1 = there
  BY <1>1, <1>10
<1> HIDE DEF there
<1>13. Closes(TRUE, Forwards(text, here), there - here + 1)
  BY <1>11, <1>12 DEF W
<1>14. there \in here .. Len(text)
  BY <1>1, <1>2, <1>10, <1>11
<1>15. PICK Q : IsExpression(text, Q, here, there)
  BY <1>1, <1>2, <1>13, <1>14, ClosesExpression
<1>16. IsProfile(text, Q, here, there) /\ Q[here - 1] = <<>> /\ Q[there] = <<>>
  BY <1>15 DEF IsExpression
<1>17. here \in Nat \ {0} /\ there \in Nat /\ here <= there /\ there <= Len(text)
  BY <1>1, <1>2, <1>14
<1>18. IsBalanced(text, here, there)
  BY <1>2, <1>16, <1>17, ProfileIsBalanced
<1>19. Offset(ls, l, i) = here
  BY <1>5, OffsetIs
<1>20. Offset(ls, end.linenum, end.pos) - 1 = there
  <2>1. end.linenum = k /\ end.pos = j + 1
    BY <1>7
  <2>2. Offset(ls, k, j + 1) = base + (j + 1)
    BY OffsetIs DEF base
  <2> QED
    BY <1>12, <2>1, <2>2
<1> QED
  BY <1>18, <1>19, <1>20 DEF text

\* and what is skipped backwards is.
LEMMA BackwardsIsBalanced ==
  ASSUME NEW S, NEW ls \in Seq(Seq(S)), NEW l \in 1 .. Len(ls), NEW i \in 1 .. Len(ls[l]),
         NEW start, start = ReverseCloseExpression(ls, l, i), start # NoPosition
  PROVE  IsBalanced(Joined(ls), Offset(ls, start.linenum, start.pos), Offset(ls, l, i))
<1> DEFINE text == Joined(ls)
           there == Base(ls, l) + i
           W == Backwards(text, there)
<1>1. there \in 1 .. Len(text)
  <2>1. IsLaidOut(ls, l)
    BY LaidOut
  <2> QED
    BY <2>1 DEF IsLaidOut
<1>2. Len(text) \in Nat
  BY BaseEnds
<1>3. ReverseComesTo(ls, l, i)
  BY ReverseScans
<1>4. \E k \in 1 .. l : \E p \in 1 .. Len(ls[k]) :
        /\ start = [linenum |-> k, pos |-> p] /\ Base(ls, k) + p <= there
        /\ Closes(FALSE, W, there - (Base(ls, k) + p) + 1)
  BY <1>3, Zenon DEF ReverseComesTo
<1>5. there = Base(ls, l) + i
  OBVIOUS
<1> HIDE DEF text, there, W
<1>6. PICK k \in 1 .. l : \E p \in 1 .. Len(ls[k]) :
        /\ start = [linenum |-> k, pos |-> p] /\ Base(ls, k) + p <= there
        /\ Closes(FALSE, W, there - (Base(ls, k) + p) + 1)
  BY <1>4
<1>7. PICK p \in 1 .. Len(ls[k]) :
        /\ start = [linenum |-> k, pos |-> p] /\ Base(ls, k) + p <= there
        /\ Closes(FALSE, W, there - (Base(ls, k) + p) + 1)
  BY <1>6
<1> DEFINE here == Base(ls, k) + p
           x == there - here + 1
<1>8. k \in 1 .. Len(ls)
  BY LenProperties
<1>9. IsLaidOut(ls, k)
  BY <1>8, LaidOut
<1>10. here \in 1 .. Len(text)
  BY <1>9 DEF IsLaidOut, text
<1>11. Closes(FALSE, W, x) /\ here <= there
  BY <1>7
<1> HIDE DEF here
<1>12. x \in 0 .. there /\ x \in 0 .. x /\ there \in Nat /\ there - x + 1 = here /\ there - x = here - 1
       /\ 0 \in 0 .. x /\ there - 0 = there
  BY <1>1, <1>10, <1>11
<1> HIDE DEF x
<1>13. PICK G : IsRun(FALSE, W, G, x) /\ G[x] = <<>>
  BY <1>11, Zenon DEF Closes
<1>14. IsRunBack(text, there, G, x) /\ G[0] = <<>>
  BY <1>13, Zenon DEF IsRunBack, W, IsRun
<1>15. PICK Q : IsBackProfile(text, there, G, x, Q)
  BY <1>12, <1>14, BackwardProfile
<1>16. IsProfile(text, Q, here, there) /\ \A m \in 0 .. x : Q[there - m] = G[m]
  BY <1>12, <1>15 DEF IsBackProfile
<1>17. Q[here - 1] = <<>> /\ Q[there] = <<>>
  BY <1>12, <1>13, <1>14, <1>16
<1>18. here \in Nat \ {0} /\ there \in Nat /\ here <= there /\ there <= Len(text)
  BY <1>1, <1>2, <1>10, <1>11
<1>19. IsBalanced(text, here, there)
  BY <1>2, <1>16, <1>17, <1>18, ProfileIsBalanced
<1>20. Offset(ls, l, i) = there /\ Offset(ls, start.linenum, start.pos) = here
  <2>1. start.linenum = k /\ start.pos = p
    BY <1>7
  <2> QED
    BY <1>5, <2>1, OffsetIs DEF here
<1> QED
  BY <1>19, <1>20 DEF text

----------------------------------------------------------------------------
(* What the passes make of any file is lines of words.                      *)

\* What CleanseRawStrings knows of a line of any words.
WordStates == [line : Seq(Words), inside : BOOLEAN]

\* What CleanseRawStrings puts into a line is words.
LEMMA AddedIsWords ==
  ASSUME NEW t \in Words
  PROVE  /\ EmptyString \in Seq(Words) /\ <<>> \in Seq(Words)
         /\ (IF t = ")raw" THEN <<")", "quote">> ELSE <<t>>) \in Seq(Words)
<1>1. "quote" \in Words /\ ")" \in Words
  BY DEF Words
<1> QED
  BY <1>1 DEF EmptyString

\* What is left of a line of words, when a token is read, is words.
LEMMA TokenLeavesWords ==
  ASSUME NEW c \in WordStates, NEW t \in Words
  PROVE  CleanseRawToken(c, t) \in WordStates
<1> DEFINE added == IF t = ")raw" THEN <<")", "quote">> ELSE <<t>>
<1>1. c.line \in Seq(Words) /\ c.inside \in BOOLEAN
  BY DEF WordStates
<1>2. EmptyString \in Seq(Words) /\ added \in Seq(Words)
  BY AddedIsWords
<1>3. CASE c.inside
  BY <1>1, <1>3 DEF CleanseRawToken, WordStates
<1>4. CASE ~c.inside
  <2>1. c.line \o EmptyString \in Seq(Words) /\ c.line \o added \in Seq(Words)
    BY <1>1, <1>2, ConcatProperties
  <2> QED
    BY <1>1, <1>4, <2>1 DEF CleanseRawToken, WordStates
<1> QED
  BY <1>3, <1>4

\* What is left of a line of words is words.
LEMMA RawLineLeavesWords ==
  ASSUME NEW line \in Seq(Words), NEW inside \in BOOLEAN
  PROVE  CleanseRawLine(line, inside) \in WordStates
<1> DEFINE n == Len(line)
           start == RawStart(inside)
           step == [p \in WordStates \X (1 .. n) |-> CleanseRawToken(p[1], line[p[2]])]
           Is(g) == g = [i \in 0 .. Len(line) |->
                           IF i = 0 THEN [line |-> IF inside THEN EmptyString ELSE <<>>, inside |-> inside]
                           ELSE CleanseRawToken(g[i - 1], line[i])]
           f == CHOOSE g : Is(g)
<1>1. n \in Nat /\ \A i \in 1 .. n : line[i] \in Words
  OBVIOUS
<1>2. start \in WordStates
  BY AddedIsWords, StrIsText DEF RawStart, WordStates
<1>3. step \in [WordStates \X (1 .. n) -> WordStates]
  BY <1>1, TokenLeavesWords
<1>4. PICK g : IsRecursion(g, WordStates, start, n, step)
  <2> HIDE DEF n, step, start
  <2> QED
    BY <1>1, <1>2, <1>3, IsRecursionExists
<1>5. g \in [0 .. n -> WordStates] /\ g[0] = start
  BY <1>4 DEF IsRecursion
<1>6. ASSUME NEW i \in 1 .. n
      PROVE  i - 1 \in 0 .. n /\ g[i] = CleanseRawToken(g[i - 1], line[i])
  <2>1. i - 1 \in 0 .. n /\ <<g[i - 1], i>> \in WordStates \X (1 .. n)
    BY <1>1, <1>5
  <2>2. g[i] = step[<<g[i - 1], i>>]
    BY <1>4 DEF IsRecursion
  <2> QED
    BY <2>1, <2>2
<1>7. Is(g)
  BY <1>5, <1>6 DEF RawStart
<1>8. Is(f)
  BY <1>7
<1>9. CleanseRawLine(line, inside) = f[n]
  BY DEF CleanseRawLine
<1> HIDE DEF f
<1>10. DOMAIN f = 0 .. n /\ f[0] = start
  BY <1>1, <1>8 DEF RawStart
<1>11. \A i \in 1 .. n : f[i] = CleanseRawToken(f[i - 1], line[i])
  BY <1>1, <1>8
<1>12. f = [i \in 0 .. n |-> f[i]]
  BY <1>8, <1>10
<1>13. ASSUME NEW i \in 0 .. n - 1, f[i] \in WordStates
       PROVE  f[i + 1] \in WordStates
  <2>1. i + 1 \in 1 .. n /\ (i + 1) - 1 = i
    BY <1>1
  <2>2. f[i + 1] = CleanseRawToken(f[i], line[i + 1])
    BY <1>11, <2>1
  <2> QED
    BY <1>1, <1>13, <2>1, <2>2, TokenLeavesWords
<1> HIDE DEF start, n
<1>14. f \in [0 .. n -> WordStates]
  BY <1>1, <1>2, <1>10, <1>12, <1>13, StepTypes
<1>15. n \in 0 .. n
  BY <1>1
<1> QED
  BY <1>9, <1>14, <1>15

\* What is left of lines of words is lines of words.
LEMMA RawStringsLeaveWords ==
  ASSUME NEW text \in Seq(Seq(Words))
  PROVE  \A i \in DOMAIN text : CleanseRawStrings(text)[i] \in Seq(Words)
<1> DEFINE n == Len(text)
           start == [line |-> <<>>, inside |-> FALSE]
           step == [p \in WordStates \X (1 .. n) |-> CleanseRawLine(text[p[2]], p[1].inside)]
           Is(g) == g = [i \in 0 .. Len(text) |->
                           IF i = 0 THEN [line |-> <<>>, inside |-> FALSE]
                           ELSE CleanseRawLine(text[i], g[i - 1].inside)]
           f == CHOOSE g : Is(g)
<1>1. n \in Nat /\ DOMAIN text = 1 .. n /\ \A i \in 1 .. n : text[i] \in Seq(Words)
  OBVIOUS
<1>2. start \in WordStates
  BY AddedIsWords, StrIsText DEF WordStates
<1>3. \A s \in WordStates : s.inside \in BOOLEAN /\ s.line \in Seq(Words)
  BY DEF WordStates
<1>4. step \in [WordStates \X (1 .. n) -> WordStates]
  BY <1>1, <1>3, RawLineLeavesWords
<1>5. PICK g : IsRecursion(g, WordStates, start, n, step)
  <2> HIDE DEF n, step, start
  <2> QED
    BY <1>1, <1>2, <1>4, IsRecursionExists
<1>6. g \in [0 .. n -> WordStates] /\ g[0] = start
  BY <1>5 DEF IsRecursion
<1>7. ASSUME NEW i \in 1 .. n
      PROVE  i - 1 \in 0 .. n /\ g[i] = CleanseRawLine(text[i], g[i - 1].inside)
  <2>1. i - 1 \in 0 .. n /\ <<g[i - 1], i>> \in WordStates \X (1 .. n)
    <3> HIDE DEF n, start
    <3>1. i - 1 \in 0 .. n
      BY <1>1
    <3> QED
      BY <1>6, <3>1
  <2>2. g[i] = step[<<g[i - 1], i>>]
    BY <1>5 DEF IsRecursion
  <2> QED
    BY <2>1, <2>2
<1>8. Is(g)
  BY <1>6, <1>7
<1>9. Is(f)
  BY <1>8
<1>10. CleanseRawStrings(text) = [i \in DOMAIN text |-> f[i].line]
  BY DEF CleanseRawStrings
<1> HIDE DEF f
<1>11. DOMAIN f = 0 .. n /\ f[0] = start
  BY <1>1, <1>9
<1>12. ASSUME NEW i \in 1 .. n
       PROVE  f[i] = CleanseRawLine(text[i], f[i - 1].inside)
  <2>1. i \in 0 .. Len(text) /\ i # 0
    BY <1>1
  <2> HIDE DEF n
  <2> QED
    BY <1>9, <2>1
<1>13. f = [i \in 0 .. n |-> f[i]]
  BY <1>9, <1>11
<1>14. ASSUME NEW i \in 0 .. n - 1, f[i] \in WordStates
       PROVE  f[i + 1] \in WordStates
  <2>1. i + 1 \in 1 .. n /\ (i + 1) - 1 = i
    BY <1>1
  <2>2. f[i + 1] = CleanseRawLine(text[i + 1], f[i].inside)
    BY <1>12, <2>1
  <2> QED
    BY <1>1, <1>3, <1>14, <2>1, <2>2, RawLineLeavesWords
<1> HIDE DEF start, n
<1>15. f \in [0 .. n -> WordStates]
  BY <1>1, <1>2, <1>11, <1>13, <1>14, StepTypes
<1>16. \A i \in 1 .. n : f[i] \in WordStates
  BY <1>1, <1>15
<1> QED
  BY <1>1, <1>3, <1>10, <1>16

\* _CollapseStrings and CleanseComments make words of words.
LEMMA ElidedLineIsWords ==
  ASSUME NEW s \in Seq(Words)
  PROVE  CleanseComments(CollapseStrings(s)) \in Seq(Words)
<1>1. CollapseStrings(s) \in Seq(Words)
  <2>1. CASE s # <<>> /\ Head(s) = "include"
    BY <2>1 DEF CollapseStrings
  <2>2. CASE ~(s # <<>> /\ Head(s) = "include")
    <3> DEFINE c == Collapsed(s)
    <3>1. CollapseStrings(s) = Without(c, StringsOf(s) \ OpensOf(s))
      BY <2>2 DEF CollapseStrings, Collapsed, StringsOf, OpensOf, QuotesOf
    <3>2. c \in Seq(Words)
      <4>1. DOMAIN s = 1 .. Len(s) /\ Len(s) \in Nat /\ \A i \in 1 .. Len(s) : s[i] \in Words
        BY LenProperties, ElementOfSeq
      <4>2. ASSUME NEW i \in 1 .. Len(s)
            PROVE  (IF i \in StringsOf(s) THEN "str" ELSE s[i]) \in Words
        BY <4>1, StrIsText
      <4>3. c \in [1 .. Len(s) -> Words]
        BY <4>1, <4>2 DEF Collapsed
      <4> HIDE DEF c
      <4> QED
        BY <4>1, <4>3
    <3> HIDE DEF c
    <3> QED
      BY <3>1, <3>2, WithoutIsWords
  <2> QED
    BY <2>1, <2>2
<1> DEFINE line == CollapseStrings(s)
           code == CodeOf(line)
<1> HIDE DEF line
<1>2. line \in Seq(Words)
  BY <1>1 DEF line
<1>3. code \in Seq(Words)
  <2> DEFINE pos == CommentPos(line)
  <2>1. CASE pos = 0
    BY <1>2, <2>1 DEF CodeOf
  <2>2. CASE pos \in 1 .. Len(line)
    <3> HIDE DEF pos
    <3>1. SubSeq(line, 1, pos - 1) \in Seq(Words)
      <4>1. \A i \in 1 .. pos - 1 : line[i] \in Words
        BY <1>2, <2>2
      <4> QED
        BY <2>2, <4>1, SubSeqProperties
    <3>2. code \in {line, SubSeq(line, 1, pos - 1)}
      BY DEF CodeOf, pos
    <3> QED
      BY <1>2, <3>1, <3>2
  <2>3. pos = 0 \/ pos \in 1 .. Len(line)
    BY <1>2, FirstComment
  <2> QED
    BY <2>1, <2>2, <2>3
<1> HIDE DEF code
<1>4. CleanseComments(line) = Without(code, CommentsOf(code))
  BY CleanseIs DEF code
<1> QED
  BY <1>3, <1>4, WithoutIsWords DEF line

\* What the checks read of a file is lines of words, whatever is in it.
LEMMA ElidedIsWords ==
  ASSUME NEW text \in Seq(Seq(STRING))
  PROVE  ElidedLinesOf(RemoveMultiLineComments(text)) \in Seq(Seq(Words))
<1> DEFINE n == Len(text)
           rest == RemoveMultiLineComments(text)
           raw == CleanseRawStrings(rest)
           result == ElidedLinesOf(rest)
<1>1. n \in Nat /\ DOMAIN text = 1 .. n /\ \A i \in 1 .. n : text[i] \in Seq(STRING)
  OBVIOUS
<1>2. \A i \in 1 .. n : text[i] \in Seq(Words)
  <2>1. STRING \subseteq Words
    BY DEF Words
  <2>2. ASSUME NEW i \in 1 .. n
        PROVE  text[i] \in Seq(Words)
    <3> DEFINE line == text[i]
    <3>1. line \in Seq(STRING)
      BY <1>1
    <3> HIDE DEF line
    <3>2. line \in Seq(Words)
      BY <2>1, <3>1, SeqMonotonic
    <3> QED
      BY <3>2 DEF line
  <2> QED
    BY <2>2
<1>3. <<"/*", "*/">> \in Seq(Words)
  <2>1. "/*" \in Words /\ "*/" \in Words
    BY DEF Words
  <2> QED
    BY <2>1
<1>4. rest \in [1 .. n -> Seq(Words)]
  BY <1>1, <1>2, <1>3 DEF RemoveMultiLineComments
<1> HIDE DEF n, rest
<1>5. rest \in Seq(Seq(Words)) /\ DOMAIN rest = 1 .. n
  BY <1>1, <1>4
<1>6. \A i \in 1 .. n : raw[i] \in Seq(Words)
  BY <1>5, RawStringsLeaveWords
<1>7. result = [i \in 1 .. n |-> CleanseComments(CollapseStrings(raw[i]))]
  BY <1>5 DEF ElidedLinesOf
<1> HIDE DEF raw, result
<1>8. result \in [1 .. n -> Seq(Words)]
  BY <1>6, <1>7, ElidedLineIsWords
<1>9. result \in Seq(Seq(Words))
  BY <1>1, <1>8
<1> QED
  BY <1>9 DEF result, rest

\* What the checks read once a file is cleansed.
LEMMA CleansedIsWords ==
  ASSUME PassesInv, phase = "cleansed"
  PROVE  elided \in Seq(Seq(Words))
<1>1. file \in Seq(Seq(STRING))
  BY FilesAreText DEF PassesInv
<1>2. elided = ElidedLinesOf(RemoveMultiLineComments(file))
  BY DEF PassesInv
<1> QED
  BY <1>1, <1>2, ElidedIsWords

\* CloseExpression, ReverseCloseExpression and _GetTextInside agree on the end of every
\* parenthesis of every file.
THEOREM MatchersFindTheSameEnd == TextSpec => []MatchersAgree
<1>1. PassesInv => MatchersAgree
  <2> SUFFICES ASSUME PassesInv, phase = "cleansed", NEW l \in DOMAIN elided,
                      NEW i \in DOMAIN elided[l], elided[l][i] \in Opening
               PROVE  MatchersAgreeAt(elided, l, i)
    BY Zenon DEF MatchersAgree, MatchersAgreeAt
  <2>1. elided \in Seq(Seq(Words))
    BY CleansedIsWords
  <2>2. l \in 1 .. Len(elided) /\ elided[l] \in Seq(Words)
    BY <2>1
  <2>3. i \in 1 .. Len(elided[l])
    BY <2>2
  <2> QED
    BY <2>1, <2>2, <2>3, MatchersAgreeOnBracket
<1> QED
  BY <1>1, PassesInOrder, PTL

\* What CloseExpression and ReverseCloseExpression skip as template arguments is whole
\* expressions, in every file.
THEOREM TemplateArgumentsAreWhole == TextSpec => []TemplateArgumentsAreBalanced
<1>1. PassesInv => TemplateArgumentsAreBalanced
  <2> SUFFICES ASSUME PassesInv, phase = "cleansed", NEW l \in DOMAIN elided,
                      NEW i \in DOMAIN elided[l],
                      NEW end, end = CloseExpression(elided, l, i),
                      NEW start, start = ReverseCloseExpression(elided, l, i)
               PROVE  /\ end # NoPosition =>
                           IsBalanced(Joined(elided), Offset(elided, l, i),
                                      Offset(elided, end.linenum, end.pos) - 1)
                      /\ start # NoPosition =>
                           IsBalanced(Joined(elided), Offset(elided, start.linenum, start.pos),
                                      Offset(elided, l, i))
    BY Zenon DEF TemplateArgumentsAreBalanced
  <2>1. elided \in Seq(Seq(Words))
    BY CleansedIsWords
  <2>2. l \in 1 .. Len(elided) /\ elided[l] \in Seq(Words)
    BY <2>1
  <2>3. i \in 1 .. Len(elided[l])
    BY <2>2
  <2>4. end # NoPosition => IsBalanced(Joined(elided), Offset(elided, l, i),
                                       Offset(elided, end.linenum, end.pos) - 1)
    BY <2>1, <2>2, <2>3, ForwardsIsBalanced
  <2>5. start # NoPosition => IsBalanced(Joined(elided), Offset(elided, start.linenum, start.pos),
                                         Offset(elided, l, i))
    BY <2>1, <2>2, <2>3, BackwardsIsBalanced
  <2> QED
    BY <2>4, <2>5
<1> QED
  BY <1>1, PassesInOrder, PTL

=============================================================================
