--------------------------- MODULE NestingProofs ---------------------------
(***************************************************************************)
(* NestingState implements TakenBranches, whatever a line does to a stack  *)
(* of blocks: ConsumeLine is looked into only for what comes after that,   *)
(* the braces and the line numbers of the blocks.                          *)
(***************************************************************************)
EXTENDS NestingState, Induction

\* Checkpoints of stacks in A.
Infos(A) == [stack_before_if : A, stack_before_else : A, seen_else : BOOLEAN]

IsFirst(infos, i) == infos[i].seen_else /\ \A j \in 1 .. i - 1 : ~infos[j].seen_else

\* The outermost #if whose first branch is over, for which TakenStack asks, exists.
HasFirst(infos) == Skipped(infos) => \E i \in DOMAIN infos : IsFirst(infos, i)

\* TakenStack of any checkpoints and stack.
TakenOf(infos, s) ==
  IF Skipped(infos)
  THEN infos[CHOOSE i \in DOMAIN infos :
               /\ infos[i].seen_else
               /\ \A j \in 1 .. i - 1 : ~infos[j].seen_else].stack_before_else
  ELSE s

\* The stacks a checkpoint may hold are those there have been; no set of them is
\* known beforehand.
Inv == \E A : pp_stack \in Seq(Infos(A)) /\ HasFirst(pp_stack)

----------------------------------------------------------------------------
(* Checkpoints as sequences.                                                *)

\* There is one outermost #if only, so that TakenStack is its checkpoint.
LEMMA TakenOfFirst ==
  ASSUME NEW A, NEW infos \in Seq(Infos(A)), NEW i \in DOMAIN infos, IsFirst(infos, i), NEW s
  PROVE  TakenOf(infos, s) = infos[i].stack_before_else
<1> DEFINE P(k) == infos[k].seen_else /\ \A j \in 1 .. k - 1 : ~infos[j].seen_else
           c == CHOOSE k \in DOMAIN infos : P(k)
<1>1. Skipped(infos) BY DEF Skipped, IsFirst
<1>2. P(i) BY DEF IsFirst
<1>3. c \in DOMAIN infos /\ P(c) BY <1>2
<1>4. DOMAIN infos = 1 .. Len(infos) /\ Len(infos) \in Nat OBVIOUS
<1> HIDE DEF c
<1>5. ~(c < i) BY <1>2, <1>3, <1>4
<1>6. ~(i < c) BY <1>2, <1>3, <1>4
<1>7. c = i BY <1>3, <1>4, <1>5, <1>6
<1>8. QED BY <1>1, <1>7 DEF TakenOf, c

\* A checkpoint behind others: they decide first what is skipped.
LEMMA AppendedInfo ==
  ASSUME NEW A, NEW front \in Seq(Infos(A)), HasFirst(front), NEW info \in Infos(A)
  PROVE  LET infos == Append(front, info) IN
         /\ infos \in Seq(Infos(A))
         /\ HasFirst(infos)
         /\ Skipped(infos) <=> Skipped(front) \/ info.seen_else
         /\ \A s : TakenOf(infos, s) =
                     IF Skipped(front) THEN TakenOf(front, s)
                     ELSE IF info.seen_else THEN info.stack_before_else ELSE s
<1> DEFINE infos == Append(front, info)
           n == Len(front)
<1>1. /\ n \in Nat /\ DOMAIN front = 1 .. n /\ DOMAIN infos = 1 .. n + 1
      /\ infos \in Seq(Infos(A)) /\ infos[n + 1] = info
      /\ \A i \in 1 .. n : infos[i] = front[i]
  OBVIOUS
<1> HIDE DEF infos, n
<1>2. Skipped(infos) <=> Skipped(front) \/ info.seen_else
  <2>1. ASSUME Skipped(infos) PROVE Skipped(front) \/ info.seen_else
    <3>1. PICK i \in 1 .. n + 1 : infos[i].seen_else BY <1>1, <2>1 DEF Skipped
    <3>2. CASE i = n + 1 BY <1>1, <3>1, <3>2
    <3>3. CASE i # n + 1
      <4>1. i \in 1 .. n BY <1>1, <3>3
      <4>2. QED BY <1>1, <3>1, <4>1 DEF Skipped
    <3>4. QED BY <3>2, <3>3
  <2>2. ASSUME Skipped(front) PROVE Skipped(infos)
    <3>1. PICK i \in 1 .. n : front[i].seen_else BY <1>1, <2>2 DEF Skipped
    <3>2. i \in 1 .. n + 1 BY <1>1
    <3>3. QED BY <1>1, <3>1, <3>2 DEF Skipped
  <2>3. ASSUME info.seen_else PROVE Skipped(infos)
    <3>1. n + 1 \in 1 .. n + 1 BY <1>1
    <3>2. QED BY <1>1, <2>3, <3>1 DEF Skipped
  <2>4. QED BY <2>1, <2>2, <2>3
<1>3. CASE Skipped(front)
  <2>1. PICK i \in 1 .. n : IsFirst(front, i) BY <1>1, <1>3 DEF HasFirst
  <2>2. i \in 1 .. n + 1 /\ \A j \in 1 .. i - 1 : j \in 1 .. n BY <1>1
  <2>3. IsFirst(infos, i) BY <1>1, <2>1, <2>2 DEF IsFirst
  <2>4. \A s : TakenOf(infos, s) = front[i].stack_before_else
    BY <1>1, <2>2, <2>3, TakenOfFirst
  <2>5. \A s : TakenOf(front, s) = front[i].stack_before_else
    BY <1>1, <2>1, TakenOfFirst
  <2>6. HasFirst(infos) BY <1>1, <2>2, <2>3 DEF HasFirst
  <2>7. QED BY <1>1, <1>2, <1>3, <2>4, <2>5, <2>6 DEF infos
<1>4. CASE ~Skipped(front) /\ info.seen_else
  <2>1. n + 1 \in 1 .. n + 1 /\ 1 .. (n + 1) - 1 = 1 .. n BY <1>1
  <2>2. \A j \in 1 .. n : ~infos[j].seen_else BY <1>1, <1>4 DEF Skipped
  <2>3. IsFirst(infos, n + 1) BY <1>1, <1>4, <2>1, <2>2 DEF IsFirst
  <2>4. \A s : TakenOf(infos, s) = info.stack_before_else
    BY <1>1, <2>1, <2>3, TakenOfFirst
  <2>5. HasFirst(infos) BY <1>1, <2>1, <2>3 DEF HasFirst
  <2>6. QED BY <1>1, <1>2, <1>4, <2>4, <2>5 DEF infos
<1>5. CASE ~Skipped(front) /\ ~info.seen_else
  <2>1. ~Skipped(infos) BY <1>2, <1>5
  <2>2. QED BY <1>1, <1>2, <1>5, <2>1 DEF HasFirst, TakenOf, infos
<1>6. QED BY <1>3, <1>4, <1>5

\* Sequences over a set are sequences over a larger one.
LEMMA SeqOfMore ==
  ASSUME NEW X, NEW Y, X \subseteq Y, NEW s \in Seq(X)
  PROVE  s \in Seq(Y)
OBVIOUS

\* Checkpoints of which there are some are the last one behind the others.
LEMMA LastInfo ==
  ASSUME NEW A, NEW infos \in Seq(Infos(A)), infos # <<>>, HasFirst(infos)
  PROVE  /\ Front(infos) \in Seq(Infos(A)) /\ Last(infos) \in Infos(A)
         /\ infos = Append(Front(infos), Last(infos))
         /\ HasFirst(Front(infos))
<1> DEFINE front == Front(infos)
           n == Len(infos)
<1>1. n \in Nat /\ n >= 1 /\ DOMAIN infos = 1 .. n OBVIOUS
<1>2. /\ front \in Seq(Infos(A)) /\ Len(front) = n - 1 /\ DOMAIN front = 1 .. n - 1
      /\ \A i \in 1 .. n - 1 : front[i] = infos[i]
  BY <1>1 DEF Front
<1>3. Last(infos) = infos[n] /\ Last(infos) \in Infos(A) BY <1>1 DEF Last
<1> HIDE DEF front, n
<1>4. infos = Append(front, Last(infos))
  <2>1. \A i \in 1 .. n : Append(front, Last(infos))[i] = infos[i]
    BY <1>1, <1>2, <1>3
  <2>2. /\ Append(front, Last(infos)) \in Seq(Infos(A))
        /\ Len(Append(front, Last(infos))) = Len(infos)
    <3>1. Len(Append(front, Last(infos))) = (n - 1) + 1 BY <1>2, <1>3, AppendProperties
    <3>2. Append(front, Last(infos)) \in Seq(Infos(A)) BY <1>2, <1>3, AppendProperties
    <3>3. (n - 1) + 1 = n BY <1>1
    <3>4. QED BY <3>1, <3>2, <3>3 DEF n
  <2>3. QED BY <2>1, <2>2, SeqEqual DEF n
<1>5. ASSUME Skipped(front) PROVE \E i \in DOMAIN front : IsFirst(front, i)
  <2>1. PICK k \in 1 .. n - 1 : front[k].seen_else BY <1>2, <1>5 DEF Skipped
  <2>2. k \in 1 .. n /\ infos[k].seen_else BY <1>1, <1>2, <2>1
  <2>3. PICK i \in 1 .. n : IsFirst(infos, i) BY <1>1, <2>2 DEF HasFirst, Skipped
  <2>4. ~(k < i)
    <3>1. SUFFICES ASSUME k < i PROVE FALSE OBVIOUS
    <3>2. k \in 1 .. i - 1 BY <1>1, <2>1, <2>3, <3>1
    <3>3. QED BY <2>2, <2>3, <3>2 DEF IsFirst
  <2>5. i \in 1 .. n - 1 /\ \A j \in 1 .. i - 1 : j \in 1 .. n - 1 BY <1>1, <2>1, <2>3, <2>4
  <2>6. IsFirst(front, i) BY <1>2, <2>3, <2>5 DEF IsFirst
  <2>7. QED BY <1>2, <2>5, <2>6
<1>6. QED BY <1>2, <1>3, <1>4, <1>5 DEF HasFirst, front

----------------------------------------------------------------------------
(* Checkpoints as TakenBranches sees them.                                  *)

Flags(infos) == [i \in DOMAIN infos |-> infos[i].seen_else]

\* The flags are a sequence, empty if there is no checkpoint, and skip what the
\* checkpoints skip.
LEMMA FlagsOK ==
  ASSUME NEW A, NEW infos \in Seq(Infos(A))
  PROVE  /\ Flags(infos) \in Seq(BOOLEAN) /\ Len(Flags(infos)) = Len(infos)
         /\ infos = <<>> <=> Flags(infos) = <<>>
         /\ Taken!Skipped(Flags(infos)) <=> Skipped(infos)
<1>1. /\ Len(infos) \in Nat /\ DOMAIN infos = 1 .. Len(infos)
      /\ \A i \in 1 .. Len(infos) : infos[i].seen_else \in BOOLEAN
  <2>1. /\ Len(infos) \in Nat /\ DOMAIN infos = 1 .. Len(infos)
        /\ \A i \in 1 .. Len(infos) : infos[i] \in Infos(A)
    OBVIOUS
  <2>2. \A info \in Infos(A) : info.seen_else \in BOOLEAN BY DEF Infos
  <2>3. QED BY <2>1, <2>2, Zenon
<1>2. /\ DOMAIN Flags(infos) = 1 .. Len(infos)
      /\ \A i \in 1 .. Len(infos) : Flags(infos)[i] = infos[i].seen_else
  BY <1>1 DEF Flags
<1>3. Flags(infos) \in Seq(BOOLEAN) /\ Len(Flags(infos)) = Len(infos)
  BY <1>1, <1>2 DEF Flags
<1>4. infos = <<>> <=> Flags(infos) = <<>> BY <1>1, <1>3, EmptySeq
<1>5. Taken!Skipped(Flags(infos)) <=> Skipped(infos)
  BY <1>1, <1>2, Zenon DEF Taken!Skipped, Skipped
<1>6. QED BY <1>3, <1>4, <1>5

\* A checkpoint behind others, and its flag behind theirs.
LEMMA AppendedFlag ==
  ASSUME NEW A, NEW front \in Seq(Infos(A)), NEW info \in Infos(A)
  PROVE  Flags(Append(front, info)) = Append(Flags(front), info.seen_else)
<1> DEFINE infos == Append(front, info)
           flags == Append(Flags(front), info.seen_else)
<1>1. /\ Len(front) \in Nat /\ infos \in Seq(Infos(A)) /\ Len(infos) = Len(front) + 1
      /\ infos[Len(front) + 1] = info /\ \A i \in 1 .. Len(front) : infos[i] = front[i]
  BY AppendProperties
<1>2. Flags(front) \in Seq(BOOLEAN) /\ Len(Flags(front)) = Len(front) BY FlagsOK
<1>3. info.seen_else \in BOOLEAN BY DEF Infos
<1>4. /\ flags \in Seq(BOOLEAN) /\ Len(flags) = Len(front) + 1
      /\ flags[Len(front) + 1] = info.seen_else
      /\ \A i \in 1 .. Len(front) : flags[i] = Flags(front)[i]
  <2> HIDE DEF infos
  <2>1. QED BY <1>2, <1>3, AppendProperties
<1>5. Flags(infos) \in Seq(BOOLEAN) /\ Len(Flags(infos)) = Len(front) + 1
  BY <1>1, FlagsOK
<1> HIDE DEF infos, flags
<1>6. ASSUME NEW i \in 1 .. Len(front) + 1 PROVE Flags(infos)[i] = flags[i]
  <2>1. i \in DOMAIN infos BY <1>1
  <2>2. Flags(infos)[i] = infos[i].seen_else BY <2>1 DEF Flags
  <2>3. CASE i = Len(front) + 1 BY <1>1, <1>4, <2>2, <2>3, Zenon
  <2>4. CASE i # Len(front) + 1
    <3>1. i \in 1 .. Len(front) /\ i \in DOMAIN front BY <1>1, <2>4
    <3>2. Flags(front)[i] = front[i].seen_else BY <3>1 DEF Flags
    <3>3. QED BY <1>1, <1>4, <2>2, <3>1, <3>2, Zenon
  <2>5. QED BY <2>3, <2>4
<1>7. Flags(infos) = flags BY <1>4, <1>5, <1>6, SeqEqual
<1>8. QED BY <1>7 DEF infos, flags

\* The last flag of several, set and dropped.
LEMMA LastFlag ==
  ASSUME NEW flags \in Seq(BOOLEAN), NEW b \in BOOLEAN, NEW c \in BOOLEAN
  PROVE  LET all == Append(flags, b) IN
         /\ all # <<>>
         /\ [all EXCEPT ![Len(all)] = c] = Append(flags, c)
         /\ SubSeq(all, 1, Len(all) - 1) = flags
<1> DEFINE all == Append(flags, b)
           set == [all EXCEPT ![Len(all)] = c]
           dropped == SubSeq(all, 1, Len(all) - 1)
           n == Len(flags)
<1>1. /\ n \in Nat /\ all \in Seq(BOOLEAN) /\ Len(all) = n + 1
      /\ \A i \in 1 .. n : all[i] = flags[i]
  BY AppendProperties
<1>2. /\ Append(flags, c) \in Seq(BOOLEAN) /\ Len(Append(flags, c)) = n + 1
      /\ Append(flags, c)[n + 1] = c
      /\ \A i \in 1 .. n : Append(flags, c)[i] = flags[i]
  BY AppendProperties
<1> HIDE DEF all, n
<1>3. set \in Seq(BOOLEAN) /\ Len(set) = n + 1 BY <1>1
<1>4. ASSUME NEW i \in 1 .. n + 1 PROVE set[i] = Append(flags, c)[i]
  <2>1. i \in DOMAIN all BY <1>1
  <2>2. CASE i = n + 1 BY <1>1, <1>2, <2>1, <2>2, Zenon
  <2>3. CASE i # n + 1
    <3>1. i \in 1 .. n BY <1>1, <2>3
    <3>2. set[i] = all[i] BY <1>1, <2>1, <2>3, Zenon
    <3>3. QED BY <1>1, <1>2, <3>1, <3>2, Zenon
  <2>4. QED BY <2>2, <2>3
<1>5. set = Append(flags, c) BY <1>2, <1>3, <1>4, SeqEqual
<1>6. /\ dropped \in Seq(BOOLEAN) /\ Len(dropped) = n
      /\ \A i \in 1 .. n : dropped[i] = all[i]
  BY <1>1
<1>7. \A i \in 1 .. n : dropped[i] = flags[i] BY <1>1, <1>6, Zenon
<1>8. dropped = flags
  <2> HIDE DEF dropped
  <2>1. QED BY <1>6, <1>7, SeqEqual DEF n
<1>9. all # <<>> BY <1>1, EmptySeq
<1>10. QED BY <1>5, <1>8, <1>9 DEF all

----------------------------------------------------------------------------
(* The steps.                                                               *)

\* A line is read as TakenBranches says if the stack it is consumed by is the taken
\* one, or the taken one stays because the line is skipped.
LEMMA UpdateIsRead ==
  ASSUME NEW A, pp_stack' \in Seq(Infos(A)), NEW line, NEW restored,
         UpdateFrom(restored, line),
         IF Skipped(pp_stack)' THEN TakenOf(pp_stack', stack') = TakenOf(pp_stack, stack)
         ELSE TakenOf(pp_stack, stack) = restored
  PROVE  Taken!Read(line)
<1>1. linenum' = linenum + 1 /\ stack' = ConsumeLine(restored, line, linenum')
  BY DEF UpdateFrom
<1>2. Taken!Skipped(Flags(pp_stack')) <=> Skipped(pp_stack') BY FlagsOK
<1>3. TakenStack = TakenOf(pp_stack, stack) BY DEF TakenStack, TakenOf
<1>4. TakenStack' = TakenOf(pp_stack', stack') BY DEF TakenStack, TakenOf, Skipped
<1>5. Skipped(pp_stack)' = Skipped(pp_stack') BY DEF Skipped
<1>6. CASE Skipped(pp_stack')
  <2>1. TakenStack' = TakenStack BY <1>3, <1>4, <1>5, <1>6
  <2>2. QED BY <1>1, <1>2, <1>6, <2>1 DEF Taken!Read, Flags
<1>7. CASE ~Skipped(pp_stack')
  <2>1. TakenStack' = stack' BY <1>4, <1>7 DEF TakenOf
  <2>2. TakenStack = restored BY <1>3, <1>5, <1>7
  <2>3. TakenStack' = ConsumeLine(TakenStack, line, linenum') BY <1>1, <2>1, <2>2
  <2>4. QED BY <1>1, <1>2, <1>7, <2>3 DEF Taken!Read, Flags
<1>8. QED BY <1>6, <1>7

\* An #if adds a checkpoint in its first branch.
LEMMA IfIsIf ==
  ASSUME Inv, NEW line \in SourceLines, If(line)
  PROVE  Inv' /\ Taken!If(line)
<1>1. PICK B : pp_stack \in Seq(Infos(B)) /\ HasFirst(pp_stack) BY DEF Inv
<1> DEFINE A == B \cup {stack, <<>>}
           info == PreprocessorInfo(stack)
<1>2. pp_stack \in Seq(Infos(A))
  <2>1. Infos(B) \subseteq Infos(A) BY DEF Infos
  <2>2. QED BY <1>1, <2>1, SeqOfMore
<1>3. info \in Infos(A) /\ ~info.seen_else BY DEF PreprocessorInfo, Infos
<1>4. pp_stack' = Append(pp_stack, info) /\ UpdateFrom(stack, line) /\ line.directive = "if"
  BY DEF If
<1> HIDE DEF A, info
<1>5. /\ pp_stack' \in Seq(Infos(A)) /\ HasFirst(pp_stack')
      /\ Skipped(pp_stack') <=> Skipped(pp_stack)
      /\ \A s : TakenOf(pp_stack', s) =
                  IF Skipped(pp_stack) THEN TakenOf(pp_stack, s) ELSE s
  BY <1>1, <1>2, <1>3, <1>4, AppendedInfo
<1>6. Inv' BY <1>5 DEF Inv, HasFirst, Skipped, IsFirst
<1>7. \A s : TakenOf(pp_stack, s) = TakenOf(pp_stack, stack) \/ ~Skipped(pp_stack)
  BY DEF TakenOf
<1>8. ~Skipped(pp_stack) => TakenOf(pp_stack, stack) = stack BY DEF TakenOf
<1>9. Skipped(pp_stack)' <=> Skipped(pp_stack') BY DEF Skipped
<1>10. Taken!Read(line)
  <2>1. IF Skipped(pp_stack)' THEN TakenOf(pp_stack', stack') = TakenOf(pp_stack, stack)
        ELSE TakenOf(pp_stack, stack) = stack
    BY <1>5, <1>7, <1>8, <1>9, Zenon
  <2>2. QED BY <1>4, <1>5, <2>1, UpdateIsRead
<1>11. Flags(pp_stack') = Append(Flags(pp_stack), FALSE)
  <2>1. info.seen_else = FALSE BY DEF info, PreprocessorInfo
  <2>2. QED BY <1>2, <1>3, <1>4, <2>1, AppendedFlag
<1>12. QED BY <1>4, <1>6, <1>10, <1>11 DEF Taken!If, Flags

\* An #endif goes on from the end of the first branch.
LEMMA EndifIsEndif ==
  ASSUME Inv, NEW line \in SourceLines, Endif(line)
  PROVE  Inv' /\ Taken!Endif(line)
<1>1. PICK A : pp_stack \in Seq(Infos(A)) /\ HasFirst(pp_stack) BY DEF Inv
<1> DEFINE front == Front(pp_stack)
           top == Last(pp_stack)
           restored == IF top.seen_else THEN top.stack_before_else ELSE stack
<1>2. /\ pp_stack # <<>> /\ pp_stack' = front /\ line.directive = "endif"
      /\ UpdateFrom(restored, line)
  BY DEF Endif
<1>3. /\ front \in Seq(Infos(A)) /\ top \in Infos(A) /\ pp_stack = Append(front, top)
      /\ HasFirst(front)
  BY <1>1, <1>2, LastInfo
<1> HIDE DEF front, top
<1>4. \A s : TakenOf(pp_stack, s) = IF Skipped(front) THEN TakenOf(front, s)
                                    ELSE IF top.seen_else THEN top.stack_before_else ELSE s
  BY <1>3, AppendedInfo
<1>5. Inv' BY <1>2, <1>3 DEF Inv, HasFirst, Skipped, IsFirst
<1>6. Taken!Read(line)
  <2>1. Skipped(pp_stack)' <=> Skipped(front) BY <1>2 DEF Skipped
  <2>2. Skipped(front) => TakenOf(front, stack') = TakenOf(front, stack) BY DEF TakenOf
  <2>3. IF Skipped(pp_stack)' THEN TakenOf(pp_stack', stack') = TakenOf(pp_stack, stack)
        ELSE TakenOf(pp_stack, stack) = restored
    BY <1>2, <1>4, <2>1, <2>2, Zenon
  <2>4. QED BY <1>2, <1>3, <2>3, UpdateIsRead
<1>7. Flags(pp_stack') = SubSeq(Flags(pp_stack), 1, Len(Flags(pp_stack)) - 1)
      /\ Flags(pp_stack) # <<>>
  <2>1. Flags(pp_stack) = Append(Flags(front), top.seen_else) BY <1>3, AppendedFlag
  <2>2. Flags(front) \in Seq(BOOLEAN) /\ top.seen_else \in BOOLEAN
    BY <1>3, FlagsOK DEF Infos
  <2>3. QED BY <1>2, <2>1, <2>2, LastFlag
<1>8. QED BY <1>2, <1>5, <1>6, <1>7 DEF Taken!Endif, Flags

\* The first #else of an #if saves the stack, which stays the taken one.
LEMMA ElseIsElse ==
  ASSUME Inv, NEW line \in SourceLines, Else(line)
  PROVE  Inv' /\ Taken!Else(line)
<1>1. PICK B : pp_stack \in Seq(Infos(B)) /\ HasFirst(pp_stack) BY DEF Inv
<1> DEFINE A == B \cup {stack}
           front == Front(pp_stack)
           top == Last(pp_stack)
           info == IF top.seen_else THEN top
                   ELSE [top EXCEPT !.seen_else = TRUE, !.stack_before_else = stack]
<1>2. pp_stack \in Seq(Infos(A))
  <2>1. Infos(B) \subseteq Infos(A) BY DEF Infos
  <2>2. QED BY <1>1, <2>1, SeqOfMore
<1>3. /\ pp_stack # <<>> /\ line.directive = "else"
      /\ pp_stack' = IF top.seen_else THEN pp_stack ELSE Append(front, info)
      /\ UpdateFrom(top.stack_before_if, line)
  BY DEF Else
<1>4. stack \in A OBVIOUS
<1> HIDE DEF A
<1>5. /\ front \in Seq(Infos(A)) /\ top \in Infos(A) /\ pp_stack = Append(front, top)
      /\ HasFirst(front)
  BY <1>1, <1>2, <1>3, LastInfo
<1> HIDE DEF front, top
<1>6. /\ info \in Infos(A) /\ info.seen_else = TRUE
      /\ ~top.seen_else => info.stack_before_else = stack
  BY <1>4, <1>5 DEF Infos
<1>7. pp_stack' = Append(front, info)
  BY <1>3, <1>5
<1>8. top.seen_else => info = top OBVIOUS
<1> HIDE DEF info
<1>9. /\ pp_stack' \in Seq(Infos(A)) /\ HasFirst(pp_stack') /\ Skipped(pp_stack')
      /\ \A s : TakenOf(pp_stack', s) =
                  IF Skipped(front) THEN TakenOf(front, s) ELSE info.stack_before_else
  BY <1>5, <1>6, <1>7, AppendedInfo
<1>10. \A s : TakenOf(pp_stack, s) = IF Skipped(front) THEN TakenOf(front, s)
                                     ELSE IF top.seen_else THEN top.stack_before_else ELSE s
  BY <1>5, AppendedInfo
<1>11. Inv' BY <1>9 DEF Inv, HasFirst, Skipped, IsFirst
<1>12. Taken!Read(line)
  <2>1. Skipped(pp_stack)' <=> Skipped(pp_stack') BY DEF Skipped
  <2>2. Skipped(front) => TakenOf(front, stack') = TakenOf(front, stack) BY DEF TakenOf
  <2>3. TakenOf(pp_stack', stack') = TakenOf(pp_stack, stack)
    BY <1>6, <1>8, <1>9, <1>10, <2>2, Zenon
  <2>4. QED BY <1>3, <1>9, <2>1, <2>3, UpdateIsRead
<1>13. /\ Flags(pp_stack) # <<>>
       /\ Flags(pp_stack') = [Flags(pp_stack) EXCEPT ![Len(Flags(pp_stack))] = TRUE]
  <2>1. Flags(pp_stack) = Append(Flags(front), top.seen_else)
        /\ Flags(pp_stack') = Append(Flags(front), TRUE)
    BY <1>5, <1>6, <1>7, AppendedFlag
  <2>2. Flags(front) \in Seq(BOOLEAN) /\ top.seen_else \in BOOLEAN
    BY <1>5, FlagsOK DEF Infos
  <2>3. QED BY <2>1, <2>2, LastFlag
<1>14. QED BY <1>3, <1>11, <1>12, <1>13 DEF Taken!Else, Flags

\* Any other line leaves the checkpoints alone.
LEMMA OtherIsOther ==
  ASSUME Inv, NEW line \in SourceLines, Other(line)
  PROVE  Inv' /\ Taken!Other(line)
<1>1. PICK A : pp_stack \in Seq(Infos(A)) /\ HasFirst(pp_stack) BY DEF Inv
<1>2. /\ line.directive = "none" \/ (line.directive # "if" /\ pp_stack = <<>>)
      /\ pp_stack' = pp_stack /\ UpdateFrom(stack, line)
  BY DEF Other
<1>3. Inv' BY <1>1, <1>2 DEF Inv, HasFirst, Skipped, IsFirst
<1>4. Taken!Read(line)
  <2>1. Skipped(pp_stack)' <=> Skipped(pp_stack) BY <1>2 DEF Skipped
  <2>2. IF Skipped(pp_stack)' THEN TakenOf(pp_stack', stack') = TakenOf(pp_stack, stack)
        ELSE TakenOf(pp_stack, stack) = stack
    BY <1>2, <2>1 DEF TakenOf
  <2>3. QED BY <1>1, <1>2, <2>2, UpdateIsRead
<1>5. pp_stack = <<>> <=> Flags(pp_stack) = <<>> BY <1>1, FlagsOK
<1>6. Flags(pp_stack)' = Flags(pp_stack) BY <1>2 DEF Flags
<1>7. QED BY <1>2, <1>3, <1>4, <1>5, <1>6 DEF Taken!Other, Flags

----------------------------------------------------------------------------
(* The refinement.                                                          *)

\* Whatever the branches of #if, #elif and #else do to the stack, and however they are
\* nested, NestingState is left with the stack of the taken lines (UpdatePreprocessor).
THEOREM BranchesAreTaken == Spec => ImplementsTakenBranches
<1>1. Init => Inv /\ Taken!Init
  <2>1. SUFFICES ASSUME Init PROVE Inv /\ Taken!Init OBVIOUS
  <2>2. pp_stack = <<>> /\ stack = <<>> /\ linenum = 0 BY <2>1 DEF Init
  <2>3. pp_stack \in Seq(Infos({})) BY <2>2
  <2>4. ~Skipped(pp_stack) BY <2>2 DEF Skipped
  <2>5. Inv BY <2>3, <2>4 DEF Inv, HasFirst
  <2>6. Flags(pp_stack) = <<>> BY <2>2, <2>3, FlagsOK
  <2>7. QED BY <2>2, <2>4, <2>5, <2>6 DEF Taken!Init, TakenStack, Flags
<1>2. Inv /\ [Next]_vars => Inv' /\ [Taken!Next]_(Taken!vars)
  <2> SUFFICES ASSUME Inv, [Next]_vars
               PROVE  Inv' /\ [Taken!Next]_(Taken!vars)
    OBVIOUS
  <2>1. CASE \E line \in SourceLines : If(line) \/ Else(line) \/ Endif(line) \/ Other(line)
    <3>1. PICK line \in SourceLines : If(line) \/ Else(line) \/ Endif(line) \/ Other(line)
      BY <2>1
    <3>2. Inv' /\ (Taken!If(line) \/ Taken!Else(line) \/ Taken!Endif(line) \/ Taken!Other(line))
      BY <3>1, IfIsIf, ElseIsElse, EndifIsEndif, OtherIsOther
    <3>3. QED BY <3>2 DEF Taken!Next
  <2>2. CASE UNCHANGED <<stack, pp_stack, linenum>>
    <3>1. Inv' BY <2>2 DEF Inv, HasFirst, Skipped, IsFirst
    <3>2. UNCHANGED Taken!vars BY <2>2 DEF Taken!vars, TakenStack, Skipped
    <3>3. QED BY <3>1, <3>2
  <2>3. CASE CheckCompletedBlocks
    <3>1. UNCHANGED <<stack, pp_stack, linenum>> BY <2>3 DEF CheckCompletedBlocks
    <3>2. QED BY <2>2, <3>1
  <2>4. CASE UNCHANGED vars
    <3>1. UNCHANGED <<stack, pp_stack, linenum>> BY <2>4 DEF vars
    <3>2. QED BY <2>2, <3>1
  <2>5. QED BY <2>1, <2>3, <2>4 DEF Next
<1>3. QED BY <1>1, <1>2, PTL DEF Spec, ImplementsTakenBranches, Taken!Spec

----------------------------------------------------------------------------
(* Stacks of blocks, their braces and their lines.                          *)

Kinds == {"block", "externC", "class", "namespace"}
AsmStates == {"no", "inside", "end", "block"}

Blocks ==
  [kind : Kinds, starting_linenum : Nat, seen_open_brace : BOOLEAN,
   open_parentheses : Int, inline_asm : AsmStates, access : AccessSpecifiers \cup {"none"}]

Stacks == Seq(Blocks)

\* The blocks whose opening brace was seen.
Braces(s) == Cardinality({i \in DOMAIN s : s[i].seen_open_brace})

\* Above the first k blocks there are only such as start on line num.
NewAbove(s, k, num) == \A i \in DOMAIN s : i > k => s[i].starting_linenum = num

\* A stack is its top on the rest.
LEMMA TopAndRest ==
  ASSUME NEW s \in Stacks, s # <<>>
  PROVE  Front(s) \in Stacks /\ Last(s) \in Blocks /\ s = Append(Front(s), Last(s))
<1> DEFINE n == Len(s)
           front == [i \in 1 .. n - 1 |-> s[i]]
<1>1. n \in Nat /\ n >= 1 /\ Last(s) \in Blocks
  BY DEF Last, Stacks
<1>2. Front(s) = front
  <2>1. /\ Front(s) \in Seq(Blocks) /\ Len(Front(s)) = n - 1
        /\ \A i \in 1 .. n - 1 : Front(s)[i] = s[i]
    <3>1. s \in Seq(Blocks) /\ n - 1 \in Nat
      BY <1>1 DEF Stacks
    <3>2. \A i \in 1 .. n - 1 : s[i] \in Blocks
      BY <3>1
    <3>3. Front(s) = SubSeq(s, 1, n - 1)
      BY DEF Front
    <3> HIDE DEF n, front
    <3> QED
      BY <3>1, <3>2, <3>3, SubSeqProperties
  <2>2. front \in Seq(Blocks) /\ Len(front) = n - 1
    BY <1>1 DEF Stacks
  <2>3. \A i \in 1 .. n - 1 : front[i] = s[i]
    OBVIOUS
  <2> HIDE DEF front
  <2> QED
    BY <2>1, <2>2, <2>3, SeqEqual
<1>3. front \in Seq(Blocks) /\ s = Append(front, s[n])
  BY <1>1, FrontAndLast DEF Stacks, Last
<1> QED
  BY <1>1, <1>2, <1>3 DEF Stacks, Last

\* A block on top adds its brace.
LEMMA BracesOfAppend ==
  ASSUME NEW s \in Stacks, NEW block \in Blocks
  PROVE  /\ Braces(s) \in Nat
         /\ Braces(Append(s, block)) = Braces(s) + (IF block.seen_open_brace THEN 1 ELSE 0)
<1> DEFINE n == Len(s)
           t == Append(s, block)
           I == {i \in DOMAIN s : s[i].seen_open_brace}
           J == {i \in DOMAIN t : t[i].seen_open_brace}
<1>1. /\ n \in Nat /\ DOMAIN s = 1 .. n /\ DOMAIN t = 1 .. n + 1 /\ t[n + 1] = block
      /\ \A i \in 1 .. n : t[i] = s[i]
  BY AppendProperties DEF Stacks
<1>2. IsFiniteSet(I) /\ Cardinality(I) \in Nat
  <2>1. IsFiniteSet(1 .. n)
    BY <1>1, FS_Interval
  <2> QED
    BY <1>1, <2>1, FS_Subset, FS_CardinalityType
<1> HIDE DEF t, n
<1>3. CASE block.seen_open_brace
  <2>1. J = I \cup {n + 1} /\ n + 1 \notin I
    BY <1>1, <1>3
  <2> QED
    BY <1>2, <1>3, <2>1, FS_AddElement DEF Braces, t
<1>4. CASE ~block.seen_open_brace
  <2>1. J = I
    BY <1>1, <1>4
  <2>2. Braces(s) \in Nat /\ Braces(t) = Braces(s)
    BY <1>2, <2>1 DEF Braces
  <2> QED
    BY <1>4, <2>2 DEF t
<1> QED
  BY <1>3, <1>4

\* A block on top is new if it starts on the line or replaces one that does.
LEMMA NewAboveAppend ==
  ASSUME NEW s \in Stacks, NEW block \in Blocks, NEW k \in Nat, NEW num
  PROVE  /\ NewAbove(Append(s, block), k, num) <=>
              /\ NewAbove(s, k, num)
              /\ Len(s) >= k => block.starting_linenum = num
<1> DEFINE n == Len(s)
           t == Append(s, block)
<1>1. /\ n \in Nat /\ DOMAIN s = 1 .. n /\ DOMAIN t = 1 .. n + 1 /\ t[n + 1] = block
      /\ \A i \in 1 .. n : t[i] = s[i]
  BY AppendProperties DEF Stacks
<1>2. (n + 1 > k <=> n >= k) /\ \A i \in 1 .. n + 1 : i = n + 1 \/ i \in 1 .. n
  BY <1>1
<1>3. 1 .. n \subseteq 1 .. n + 1 /\ n + 1 \in 1 .. n + 1
  BY <1>1
<1> HIDE DEF t, n
<1>4. NewAbove(t, k, num) <=> NewAbove(s, k, num) /\ (n >= k => block.starting_linenum = num)
  BY <1>1, <1>2, <1>3 DEF NewAbove
<1> QED
  BY <1>4 DEF t, n

\* Nothing is above an empty stack.
LEMMA EmptyStack == <<>> \in Stacks /\ Braces(<<>>) = 0
<1>1. {i \in DOMAIN <<>> : <<>>[i].seen_open_brace} = {}
  OBVIOUS
<1> QED
  BY <1>1, FS_EmptySet DEF Braces, Stacks

OpeningTokens == {"{", "extern", "asm"}

\* What a token does to the number of open braces, as DepthAfter has it.
Counted(token, d) ==
  IF token \in OpeningTokens THEN d + 1 ELSE IF token = "}" /\ d > 0 THEN d - 1 ELSE d

\* Blocks that are pushed are blocks of the line.
LEMMA NewBlockOK ==
  ASSUME NEW kind \in Kinds, NEW num \in Nat, NEW seen \in BOOLEAN
  PROVE  LET block == BlockInfo(kind, num, seen)
         IN  block \in Blocks /\ block.seen_open_brace = seen /\ block.starting_linenum = num
BY DEF BlockInfo, Blocks, AsmStates

\* So is the block a brace opens.
LEMMA OpenedBlockOK ==
  ASSUME NEW token, NEW num \in Nat
  PROVE  LET block == OpenedBlock(token, num)
         IN  block \in Blocks /\ block.seen_open_brace = TRUE /\ block.starting_linenum = num
<1> DEFINE kind == IF token = "extern" THEN "externC" ELSE "block"
           asm == IF token = "asm" THEN "block" ELSE "no"
           info == BlockInfo(kind, num, TRUE)
<1>1. kind \in Kinds /\ asm \in AsmStates
  BY DEF Kinds, AsmStates
<1>2. OpenedBlock(token, num) = [info EXCEPT !.inline_asm = asm]
  BY DEF OpenedBlock
<1> HIDE DEF kind, asm
<1>3. info \in Blocks /\ info.seen_open_brace = TRUE /\ info.starting_linenum = num
  BY <1>1, NewBlockOK
<1> HIDE DEF info
<1> QED
  BY <1>1, <1>2, <1>3 DEF Blocks

\* A token keeps a stack a stack, pushes only blocks of its line, and opens and
\* closes the braces it should if no "}" meets a head.
LEMMA ConsumedToken ==
  ASSUME NEW s \in Stacks, NEW token, NEW num \in Nat
  PROVE  LET t == ConsumeToken(s, token, num)
         IN  /\ t \in Stacks
             /\ \A k \in Nat : NewAbove(s, k, num) => NewAbove(t, k, num)
             /\ (token = "}" => SeenOpenBrace(s)) => Braces(t) = Counted(token, Braces(s))
<1> DEFINE t == ConsumeToken(s, token, num)
           front == Front(s)
           top == Last(s)
           opened == [top EXCEPT !.seen_open_brace = TRUE]
           pushed == OpenedBlock(token, num)
<1>1. pushed \in Blocks /\ pushed.seen_open_brace = TRUE /\ pushed.starting_linenum = num
  BY OpenedBlockOK
<1>2. s # <<>> => front \in Stacks /\ top \in Blocks /\ s = Append(front, top)
  BY TopAndRest
<1>3. s # <<>> => /\ opened \in Blocks /\ opened.seen_open_brace = TRUE
                  /\ opened.starting_linenum = top.starting_linenum
  BY <1>2 DEF Blocks
<1>4. \/ s # <<>> /\ t = front /\ token \notin OpeningTokens
           /\ (token = "}" \/ ~top.seen_open_brace)
      \/ s # <<>> /\ t = Append(front, opened) /\ token \in OpeningTokens /\ ~top.seen_open_brace
      \/ t = Append(s, pushed) /\ token \in OpeningTokens
      \/ t = s /\ token \notin OpeningTokens /\ (token = "}" => s = <<>>)
  <2>1. CASE EndsDeclaration(s, token)
    BY <2>1 DEF ConsumeToken, EndsDeclaration, SeenOpenBrace, OpeningTokens
  <2>2. CASE ~EndsDeclaration(s, token) /\ token = "}" /\ s # <<>>
    BY <2>2 DEF ConsumeToken, OpeningTokens
  <2>3. CASE ~EndsDeclaration(s, token) /\ token \in OpeningTokens /\ ~SeenOpenBrace(s)
    BY <2>3 DEF ConsumeToken, EndsDeclaration, SeenOpenBrace, OpeningTokens
  <2>4. CASE token \in OpeningTokens /\ SeenOpenBrace(s)
    BY <2>4 DEF ConsumeToken, EndsDeclaration, OpeningTokens
  <2>5. CASE ~EndsDeclaration(s, token) /\ ~(token = "}" /\ s # <<>>) /\ token \notin OpeningTokens
    BY <2>5 DEF ConsumeToken, OpeningTokens
  <2> QED
    BY <2>1, <2>2, <2>3, <2>4, <2>5
<1>5. SeenOpenBrace(s) <=> (s # <<>> => top.seen_open_brace)
  BY DEF SeenOpenBrace
<1>6. token \in OpeningTokens => token # "}"
  BY DEF OpeningTokens
<1>7. Braces(s) \in Nat
  BY <1>1, BracesOfAppend
<1> HIDE DEF t, front, top, opened, pushed
<1>8. CASE s # <<>> /\ t = front /\ token \notin OpeningTokens /\ (token = "}" \/ ~top.seen_open_brace)
  <2>1. /\ Braces(front) \in Nat
        /\ Braces(s) = Braces(front) + (IF top.seen_open_brace THEN 1 ELSE 0)
    BY <1>2, <1>8, BracesOfAppend
  <2>2. ASSUME token = "}" => SeenOpenBrace(s)
        PROVE  Braces(t) = Counted(token, Braces(s))
    <3>1. CASE token = "}"
      <4>1. Braces(s) = Braces(front) + 1
        BY <1>5, <1>8, <2>1, <2>2, <3>1
      <4>2. Braces(s) > 0 /\ Braces(s) - 1 = Braces(front)
        BY <2>1, <4>1
      <4> QED
        BY <1>8, <3>1, <4>2 DEF Counted
    <3>2. CASE token # "}"
      <4>1. ~top.seen_open_brace
        BY <1>8, <3>2
      <4>2. Braces(s) = Braces(front)
        BY <2>1, <4>1
      <4> QED
        BY <1>8, <3>2, <4>2 DEF Counted
    <3> QED
      BY <3>1, <3>2
  <2>3. \A k \in Nat : NewAbove(s, k, num) => NewAbove(t, k, num)
    BY <1>2, <1>8, NewAboveAppend
  <2> QED
    BY <1>2, <1>8, <2>2, <2>3 DEF t
<1>9. CASE s # <<>> /\ t = Append(front, opened) /\ token \in OpeningTokens /\ ~top.seen_open_brace
  <2>1. /\ Braces(front) \in Nat
        /\ Braces(s) = Braces(front) + (IF top.seen_open_brace THEN 1 ELSE 0)
        /\ Braces(t) = Braces(front) + (IF opened.seen_open_brace THEN 1 ELSE 0)
    BY <1>2, <1>3, <1>9, BracesOfAppend
  <2>2. Braces(t) = Counted(token, Braces(s))
    BY <1>3, <1>9, <2>1 DEF Counted
  <2>3. ASSUME NEW k \in Nat, NewAbove(s, k, num)
        PROVE  NewAbove(t, k, num)
    <3>1. NewAbove(front, k, num) /\ (Len(front) >= k => top.starting_linenum = num)
      BY <1>2, <1>9, <2>3, NewAboveAppend
    <3> QED
      BY <1>2, <1>3, <1>9, <3>1, NewAboveAppend
  <2>4. t \in Stacks
    BY <1>2, <1>3, <1>9, AppendProperties DEF Stacks
  <2> QED
    BY <2>2, <2>3, <2>4 DEF t
<1>10. CASE t = Append(s, pushed) /\ token \in OpeningTokens
  <2>1. Braces(t) = Braces(s) + (IF pushed.seen_open_brace THEN 1 ELSE 0)
    BY <1>1, <1>10, BracesOfAppend
  <2>2. Braces(t) = Counted(token, Braces(s))
    BY <1>1, <1>7, <1>10, <2>1 DEF Counted
  <2>3. \A k \in Nat : NewAbove(s, k, num) => NewAbove(t, k, num)
    BY <1>1, <1>10, NewAboveAppend
  <2>4. t \in Stacks
    BY <1>1, <1>10, AppendProperties DEF Stacks
  <2> QED
    BY <2>2, <2>3, <2>4 DEF t
<1>11. CASE t = s /\ token \notin OpeningTokens /\ (token = "}" => s = <<>>)
  <2>1. Braces(t) = Counted(token, Braces(s))
    <3>1. ASSUME token = "}" PROVE ~(Braces(s) > 0)
      <4>1. s = <<>>
        BY <1>11, <3>1
      <4>2. Braces(s) = 0
        BY <4>1, EmptyStack
      <4> QED
        BY <4>2
    <3> QED
      BY <1>11, <3>1 DEF Counted
  <2> QED
    BY <1>11, <2>1 DEF t
<1> QED
  BY <1>4, <1>8, <1>9, <1>10, <1>11

----------------------------------------------------------------------------
(* Lines.                                                                   *)

TokenSet == {"{", "extern", "asm", ";", ")", "}"}

\* What there is in a line.
LEMMA LineFields ==
  ASSUME NEW line \in Lines
  PROVE  /\ line.parens \in Int
         /\ line.namespaces \in Seq(BOOLEAN)
         /\ line.tokens \in Seq(TokenSet)
         /\ line.access \in AccessSpecifiers \cup {"none"}
BY Zenon DEF Lines, TokenSet

\* The top of a stack is replaced by what it has become.
LEMMA ReplacedTop ==
  ASSUME NEW s \in Stacks, s # <<>>, NEW block \in Blocks,
         block.seen_open_brace = Last(s).seen_open_brace,
         block.starting_linenum = Last(s).starting_linenum
  PROVE  LET t == Append(Front(s), block)
         IN  /\ t \in Stacks /\ Len(t) = Len(s) /\ Braces(t) = Braces(s)
             /\ \A k \in Nat : \A num : NewAbove(s, k, num) => NewAbove(t, k, num)
<1> DEFINE front == Front(s)
           top == Last(s)
           t == Append(front, block)
<1>1. front \in Stacks /\ top \in Blocks /\ s = Append(front, top)
  BY TopAndRest
<1>2. block.seen_open_brace = top.seen_open_brace /\ block.starting_linenum = top.starting_linenum
  OBVIOUS
<1> HIDE DEF front, top
<1>3. t \in Stacks /\ Len(t) = Len(front) + 1 /\ Len(s) = Len(front) + 1
  BY <1>1, AppendProperties DEF Stacks
<1>4. Braces(t) = Braces(s)
  BY <1>1, <1>2, BracesOfAppend
<1>5. ASSUME NEW k \in Nat, NEW num, NewAbove(s, k, num)
      PROVE  NewAbove(t, k, num)
  <2>1. NewAbove(front, k, num) /\ (Len(front) >= k => top.starting_linenum = num)
    BY <1>1, <1>5, NewAboveAppend
  <2> QED
    BY <1>1, <1>2, <2>1, NewAboveAppend
<1> QED
  BY <1>3, <1>4, <1>5 DEF front

\* The parentheses of the line, and an access specifier, change the top only.
LEMMA CountedParentheses ==
  ASSUME NEW s \in Stacks, NEW line \in Lines
  PROVE  LET t == CountParentheses(s, line)
         IN  t \in Stacks /\ Len(t) = Len(s) /\ Braces(t) = Braces(s)
<1>1. CASE s = <<>>
  BY <1>1 DEF CountParentheses
<1>2. CASE s # <<>>
  <2> DEFINE inner == Last(s)
             open == inner.open_parentheses + line.parens
             entering == line.parens # 0 /\ open = 1 /\ line.asm
             asm == CASE inner.inline_asm \in {"no", "end"} -> IF entering THEN "inside" ELSE "no"
                      [] inner.inline_asm = "inside" /\ open = 0 -> "end"
                      [] OTHER -> inner.inline_asm
             block == [inner EXCEPT !.open_parentheses = open, !.inline_asm = asm]
  <2>1. inner \in Blocks
    BY <1>2, TopAndRest
  <2>2. open \in Int
    <3>1. inner.open_parentheses \in Int
      BY <2>1 DEF Blocks
    <3>2. line.parens \in Int
      BY LineFields
    <3> QED
      BY <3>1, <3>2
  <2>3. asm \in AsmStates
    <3>1. inner.inline_asm \in AsmStates
      BY <2>1 DEF Blocks
    <3> HIDE DEF inner, open, entering
    <3> QED
      BY <3>1 DEF AsmStates
  <2>4. CountParentheses(s, line) = Append(Front(s), block)
    BY <1>2 DEF CountParentheses
  <2> HIDE DEF asm, open, inner
  <2>5. /\ block \in Blocks /\ block.seen_open_brace = inner.seen_open_brace
        /\ block.starting_linenum = inner.starting_linenum
    BY <2>1, <2>2, <2>3 DEF Blocks
  <2> HIDE DEF block
  <2> QED
    BY <1>2, <2>4, <2>5, ReplacedTop DEF inner
<1> QED
  BY <1>1, <1>2

\* The namespaces a line declares.
LEMMA PushedNamespaces ==
  ASSUME NEW s \in Stacks, NEW line \in Lines, NEW num \in Nat
  PROVE  LET t == PushNamespaces(s, line, num)
             opens == Cardinality({i \in DOMAIN line.namespaces : line.namespaces[i]})
         IN  /\ t \in Stacks /\ Braces(t) = Braces(s) + opens /\ opens \in Nat
             /\ NewAbove(t, Len(s), num)
<1> DEFINE n == Len(s)
           flags == line.namespaces
           m == Len(flags)
           pushed == [i \in DOMAIN flags |-> BlockInfo("namespace", num, flags[i])]
           t == PushNamespaces(s, line, num)
           O == {i \in DOMAIN flags : flags[i]}
           I == {i \in DOMAIN s : s[i].seen_open_brace}
           J == {i \in DOMAIN t : t[i].seen_open_brace}
<1>1. flags \in Seq(BOOLEAN) /\ m \in Nat /\ DOMAIN flags = 1 .. m
  <2>1. flags \in Seq(BOOLEAN)
    BY LineFields
  <2> QED
    BY <2>1, LenProperties
<1>2. n \in Nat /\ DOMAIN s = 1 .. n /\ s \in Seq(Blocks)
  BY DEF Stacks
<1> HIDE DEF flags, m
<1>3. ASSUME NEW i \in 1 .. m
      PROVE  /\ pushed[i] \in Blocks /\ pushed[i].seen_open_brace = flags[i]
             /\ pushed[i].starting_linenum = num
  <2>1. flags[i] \in BOOLEAN /\ "namespace" \in Kinds /\ pushed[i] = BlockInfo("namespace", num, flags[i])
    BY <1>1 DEF Kinds
  <2> QED
    BY <2>1, NewBlockOK
<1>4. pushed \in Seq(Blocks) /\ Len(pushed) = m
  BY <1>1, <1>3
<1>5. t = s \o pushed
  BY DEF PushNamespaces, flags
<1> HIDE DEF pushed, t, n
<1>6. /\ t \in Seq(Blocks) /\ DOMAIN t = 1 .. n + m
      /\ \A i \in 1 .. n + m : t[i] = IF i <= n THEN s[i] ELSE pushed[i - n]
  <2>1. /\ s \o pushed \in Seq(Blocks) /\ Len(s \o pushed) = n + m
        /\ \A i \in 1 .. n + m : (s \o pushed)[i] = IF i <= n THEN s[i] ELSE pushed[i - n]
    BY <1>2, <1>4, ConcatProperties DEF n
  <2>2. DOMAIN t = 1 .. n + m
    BY <1>5, <2>1, LenProperties
  <2> QED
    BY <1>5, <2>1, <2>2
<1>7. NewAbove(t, n, num)
  <2> SUFFICES ASSUME NEW i \in 1 .. n + m, i > n PROVE t[i].starting_linenum = num
    BY <1>6 DEF NewAbove
  <2>1. i - n \in 1 .. m /\ t[i] = pushed[i - n]
    BY <1>1, <1>2, <1>6
  <2> QED
    BY <1>3, <2>1
<1> DEFINE H == {n + i : i \in O}
<1>8. J = I \cup H /\ I \cap H = {}
  <2>1. ASSUME NEW i \in J PROVE i \in I \cup H
    <3>1. i \in 1 .. n + m /\ t[i].seen_open_brace
      BY <1>6
    <3>2. CASE i <= n
      BY <1>2, <1>6, <3>1, <3>2
    <3>3. CASE ~(i <= n)
      <4>1. i - n \in 1 .. m /\ t[i] = pushed[i - n] /\ i = n + (i - n)
        BY <1>1, <1>2, <1>6, <3>1, <3>3
      <4>2. i - n \in O
        BY <1>1, <1>3, <3>1, <4>1
      <4> QED
        BY <4>1, <4>2
    <3> QED
      BY <3>2, <3>3
  <2>2. ASSUME NEW i \in I PROVE i \in J
    <3>1. i \in 1 .. n /\ i \in 1 .. n + m /\ t[i] = s[i]
      BY <1>1, <1>2, <1>6
    <3> QED
      BY <1>6, <3>1
  <2>3. ASSUME NEW i \in O PROVE n + i \in J /\ n + i \notin I
    <3>1. i \in 1 .. m /\ flags[i] /\ (n + i) - n = i /\ n + i \in 1 .. n + m /\ ~(n + i <= n)
      BY <1>1, <1>2
    <3>2. t[n + i] = pushed[i]
      BY <1>6, <3>1
    <3> QED
      BY <1>2, <1>3, <1>6, <3>1, <3>2
  <2> QED
    BY <2>1, <2>2, <2>3
<1>9. IsFiniteSet(O) /\ IsFiniteSet(I) /\ Cardinality(O) \in Nat /\ Cardinality(I) \in Nat
  <2>1. O \subseteq 1 .. m /\ I \subseteq 1 .. n
    BY <1>1, <1>2
  <2>2. IsFiniteSet(1 .. m) /\ IsFiniteSet(1 .. n)
    BY <1>1, <1>2, FS_Interval
  <2> HIDE DEF O, I
  <2> QED
    BY <2>1, <2>2, FS_Subset, FS_CardinalityType
<1>10. IsFiniteSet(H) /\ Cardinality(H) = Cardinality(O)
  <2> DEFINE f == [i \in O |-> n + i]
  <2>1. O \subseteq Nat
    BY <1>1
  <2> HIDE DEF O
  <2>2. f \in [O -> H] /\ \A x, y \in O : f[x] = f[y] => x = y
    BY <1>2, <2>1
  <2>3. \A h \in H : \E x \in O : f[x] = h
    OBVIOUS
  <2>4. f \in Bijection(O, H)
    BY <2>2, <2>3, Zenon DEF Bijection, Injection, Surjection, IsInjective
  <2>5. ExistsBijection(O, H)
    BY <2>4 DEF ExistsBijection
  <2> HIDE DEF H
  <2> QED
    BY <1>9, <2>5, FS_Bijection
<1> HIDE DEF H, I, J, O
<1>11. Cardinality(J) = Cardinality(I) + Cardinality(O)
  <2>1. Cardinality(J) = Cardinality(I) + Cardinality(H) - Cardinality(I \cap H)
    BY <1>8, <1>9, <1>10, FS_Union
  <2>2. Cardinality(I \cap H) = 0
    BY <1>8, FS_EmptySet
  <2> QED
    BY <1>9, <1>10, <2>1, <2>2
<1> QED
  BY <1>6, <1>7, <1>9, <1>11 DEF I, J, O, Braces, Stacks, n, t, flags

\* The stack before the first token of a line.
Heads(s, line, num) ==
  SetAccess(PushClass(PushNamespaces(CountParentheses(s, line), line, num), line, num), line)

Opens(line) == Cardinality({i \in DOMAIN line.namespaces : line.namespaces[i]})

\* The heads of a line are new, and those with a brace are counted.
LEMMA HeadsOK ==
  ASSUME NEW s \in Stacks, NEW line \in Lines, NEW num \in Nat
  PROVE  /\ Heads(s, line, num) \in Stacks /\ NewAbove(Heads(s, line, num), Len(s), num)
         /\ Braces(Heads(s, line, num)) = Braces(s) + Opens(line) /\ Opens(line) \in Nat
<1> DEFINE a == CountParentheses(s, line)
           b == PushNamespaces(a, line, num)
           c == PushClass(b, line, num)
           d == SetAccess(c, line)
           k == Len(s)
<1>1. a \in Stacks /\ Len(a) = k /\ Braces(a) = Braces(s) /\ k \in Nat
  BY CountedParentheses DEF Stacks
<1> HIDE DEF a, k
<1>2. /\ b \in Stacks /\ NewAbove(b, k, num)
      /\ Braces(b) = Braces(a) + Opens(line) /\ Opens(line) \in Nat
  BY <1>1, PushedNamespaces DEF Opens
<1> HIDE DEF b
<1>3. c \in Stacks /\ NewAbove(c, k, num) /\ Braces(c) = Braces(b)
  <2> DEFINE info == ClassInfo(line.head, num)
  <2>1. info \in Blocks /\ info.seen_open_brace = FALSE /\ info.starting_linenum = num
    <3> DEFINE block == BlockInfo("class", num, FALSE)
               access == IF line.head = "struct" THEN "public" ELSE "private"
    <3>1. block \in Blocks /\ block.seen_open_brace = FALSE /\ block.starting_linenum = num
      BY NewBlockOK DEF Kinds
    <3>2. access \in AccessSpecifiers \cup {"none"}
      BY DEF AccessSpecifiers
    <3>3. info = [block EXCEPT !.access = access]
      BY DEF ClassInfo
    <3> HIDE DEF block, access, info
    <3> QED
      BY <3>1, <3>2, <3>3 DEF Blocks
  <2> HIDE DEF info
  <2>2. CASE c = b
    BY <1>2, <2>2
  <2>3. CASE c = Append(b, info)
    <3>1. c \in Stacks
      BY <1>2, <2>1, <2>3, AppendProperties DEF Stacks
    <3>2. NewAbove(c, k, num)
      BY <1>1, <1>2, <2>1, <2>3, NewAboveAppend
    <3>3. Braces(c) = Braces(b)
      <4>1. /\ Braces(b) \in Nat
            /\ Braces(c) = Braces(b) + (IF info.seen_open_brace THEN 1 ELSE 0)
        BY <1>2, <2>1, <2>3, BracesOfAppend
      <4> QED
        BY <2>1, <4>1
    <3> QED
      BY <3>1, <3>2, <3>3
  <2>4. c = b \/ c = Append(b, info)
    BY DEF PushClass, info
  <2> QED
    BY <2>2, <2>3, <2>4
<1> HIDE DEF c
<1>4. d \in Stacks /\ NewAbove(d, k, num) /\ Braces(d) = Braces(c)
  <2>1. CASE d = c
    BY <1>3, <2>1
  <2>2. CASE c # <<>> /\ d = Append(Front(c), [Last(c) EXCEPT !.access = line.access])
    <3> DEFINE top == Last(c)
               block == [top EXCEPT !.access = line.access]
    <3>1. top \in Blocks /\ line.access \in AccessSpecifiers \cup {"none"}
      BY <1>3, <2>2, TopAndRest, LineFields
    <3> HIDE DEF top
    <3>2. /\ block \in Blocks /\ block.seen_open_brace = top.seen_open_brace
          /\ block.starting_linenum = top.starting_linenum
      BY <3>1 DEF Blocks
    <3>3. d = Append(Front(c), block)
      BY <2>2 DEF top
    <3> HIDE DEF block, d
    <3> QED
      BY <1>1, <1>3, <2>2, <3>2, <3>3, ReplacedTop DEF top
  <2>3. d = c \/ (c # <<>> /\ d = Append(Front(c), [Last(c) EXCEPT !.access = line.access]))
    BY DEF SetAccess
  <2> QED
    BY <2>1, <2>2, <2>3
<1>5. d = Heads(s, line, num)
  BY DEF Heads, a, b, c
<1> HIDE DEF d
<1> QED
  BY <1>1, <1>2, <1>3, <1>4, <1>5 DEF k

\* The stacks of a line are those its tokens make, one after the other.
LEMMA StagesAre ==
  ASSUME NEW s \in Stacks, NEW line \in Lines, NEW num \in Nat
  PROVE  LET stage == Stages(s, line, num)
         IN  /\ stage[0] = Heads(s, line, num)
             /\ \A n \in Nat : n + 1 \in 1 .. Len(line.tokens) =>
                  stage[n + 1] = ConsumeToken(stage[n], line.tokens[n + 1], num)
<1> DEFINE m == Len(line.tokens)
           first == Heads(s, line, num)
           Is(f) == f = [n \in 0 .. m |-> IF n = 0 THEN first
                                          ELSE ConsumeToken(f[n - 1], line.tokens[n], num)]
           step == [p \in Stacks \X (1 .. m) |-> ConsumeToken(p[1], line.tokens[p[2]], num)]
<1>1. m \in Nat /\ first \in Stacks
  BY LineFields, HeadsOK, LenProperties
<1>2. step \in [Stacks \X (1 .. m) -> Stacks]
  BY ConsumedToken
<1>3. PICK f \in [0 .. m -> Stacks] :
        f[0] = first /\ \A n \in 1 .. m : f[n] = step[<<f[n - 1], n>>]
  <2> HIDE DEF m, first, step
  <2> QED
    BY <1>1, <1>2, RecursionExists, SMTT(40)
<1>4. Is(f)
  <2> DEFINE g == [n \in 0 .. m |-> IF n = 0 THEN first
                                    ELSE ConsumeToken(f[n - 1], line.tokens[n], num)]
  <2> HIDE DEF m, first
  <2>1. ASSUME NEW n \in 0 .. m PROVE f[n] = g[n]
    <3>1. CASE n = 0
      BY <1>3, <3>1
    <3>2. CASE n # 0
      <4>1. n \in 1 .. m /\ n - 1 \in 0 .. m
        BY <1>1, <3>2
      <4>2. <<f[n - 1], n>> \in Stacks \X (1 .. m)
        BY <4>1
      <4>3. f[n] = ConsumeToken(f[n - 1], line.tokens[n], num)
        BY <1>3, <4>1, <4>2
      <4> QED
        BY <3>2, <4>3
    <3> QED
      BY <3>1, <3>2
  <2> QED
    BY <2>1
<1> DEFINE stage == CHOOSE g : Is(g)
<1>5. Is(stage)
  <2> HIDE DEF Is
  <2> QED
    BY <1>4
<1>6. stage = Stages(s, line, num)
  BY DEF Stages, Heads
<1> HIDE DEF stage, first, m
<1>7. 0 \in 0 .. m /\ \A n \in Nat : n + 1 \in 1 .. m => n + 1 \in 0 .. m /\ n + 1 # 0 /\ (n + 1) - 1 = n
  BY <1>1
<1>8. /\ stage[0] = first
      /\ \A n \in Nat : n + 1 \in 1 .. m => stage[n + 1] = ConsumeToken(stage[n], line.tokens[n + 1], num)
  BY <1>5, <1>7
<1> QED
  BY <1>6, <1>8 DEF first, m

\* A line makes a stack of a stack, and what it pushes starts on it.
LEMMA ConsumedLine ==
  ASSUME NEW s \in Stacks, NEW line \in Lines, NEW num \in Nat
  PROVE  LET t == ConsumeLine(s, line, num)
         IN  t \in Stacks /\ NewAbove(t, Len(s), num)
<1> DEFINE stage == Stages(s, line, num)
           m == Len(line.tokens)
           T == {n \in Nat : n <= m => stage[n] \in Stacks /\ NewAbove(stage[n], Len(s), num)}
<1>1. m \in Nat /\ Len(s) \in Nat
  BY LineFields, LenProperties DEF Stacks
<1>2. /\ stage[0] = Heads(s, line, num)
      /\ \A n \in Nat : n + 1 \in 1 .. m =>
           stage[n + 1] = ConsumeToken(stage[n], line.tokens[n + 1], num)
  BY StagesAre
<1> HIDE DEF stage, m
<1>3. 0 \in T
  BY <1>2, HeadsOK
<1>4. ASSUME NEW n \in Nat, n \in T
      PROVE  n + 1 \in T
  <2> SUFFICES ASSUME n + 1 <= m
               PROVE  stage[n + 1] \in Stacks /\ NewAbove(stage[n + 1], Len(s), num)
    OBVIOUS
  <2>1. stage[n] \in Stacks /\ NewAbove(stage[n], Len(s), num)
    BY <1>1, <1>4
  <2>2. stage[n + 1] = ConsumeToken(stage[n], line.tokens[n + 1], num)
    BY <1>1, <1>2
  <2> QED
    BY <1>1, <2>1, <2>2, ConsumedToken
<1> HIDE DEF T
<1>5. m \in T
  BY <1>1, <1>3, <1>4, NatInduct
<1>6. ConsumeLine(s, line, num) = stage[m]
  BY DEF ConsumeLine, stage, m
<1> QED
  BY <1>1, <1>5, <1>6 DEF T

\* No token makes the depth negative.
LEMMA CountedIsNat ==
  ASSUME NEW token, NEW d \in Nat
  PROVE  Counted(token, d) \in Nat
<1>1. d > 0 => d - 1 \in Nat
  OBVIOUS
<1>2. d + 1 \in Nat
  OBVIOUS
<1> QED
  BY <1>1, <1>2, Zenon DEF Counted

\* What DepthAfter computes from the depth behind the heads.
IsCount(f, line, start) ==
  f = [n \in 0 .. Len(line.tokens) |->
         IF n = 0 THEN start
         ELSE CASE line.tokens[n] \in {"{", "extern", "asm"} -> f[n - 1] + 1
                [] line.tokens[n] = "}" /\ f[n - 1] > 0 -> f[n - 1] - 1
                [] OTHER -> f[n - 1]]

\* The cases of a token, as DepthAfter writes them.
LEMMA CountedCases ==
  ASSUME NEW token, NEW d
  PROVE  Counted(token, d) = CASE token \in {"{", "extern", "asm"} -> d + 1
                               [] token = "}" /\ d > 0 -> d - 1
                               [] OTHER -> d
BY DEF Counted, OpeningTokens

\* Such a count exists.
LEMMA CountExists ==
  ASSUME NEW line \in Lines, NEW start \in Nat
  PROVE  \E f : IsCount(f, line, start)
<1> DEFINE m == Len(line.tokens)
           step == [p \in Nat \X (1 .. m) |-> Counted(line.tokens[p[2]], p[1])]
<1>1. m \in Nat
  BY LineFields, LenProperties
<1>2. step \in [Nat \X (1 .. m) -> Nat]
  BY CountedIsNat
<1>3. PICK f \in [0 .. m -> Nat] :
        f[0] = start /\ \A n \in 1 .. m : f[n] = step[<<f[n - 1], n>>]
  <2> HIDE DEF m, step
  <2> QED
    BY <1>1, <1>2, NatRecursionExists
<1> DEFINE g == [n \in 0 .. m |->
                   IF n = 0 THEN start
                   ELSE CASE line.tokens[n] \in {"{", "extern", "asm"} -> f[n - 1] + 1
                          [] line.tokens[n] = "}" /\ f[n - 1] > 0 -> f[n - 1] - 1
                          [] OTHER -> f[n - 1]]
<1> HIDE DEF m
<1>4. ASSUME NEW n \in 0 .. m PROVE f[n] = g[n]
  <2>1. CASE n = 0
    BY <1>3, <2>1
  <2>2. CASE n # 0
    <3>1. n \in 1 .. m /\ n - 1 \in 0 .. m
      BY <1>1, <2>2
    <3>2. <<f[n - 1], n>> \in Nat \X (1 .. m)
      BY <3>1
    <3>3. f[n] = Counted(line.tokens[n], f[n - 1])
      BY <1>3, <3>1, <3>2
    <3> QED
      BY <2>2, <3>3, CountedCases
  <2> QED
    BY <2>1, <2>2
<1>5. f = g
  BY <1>4
<1> QED
  BY <1>5 DEF IsCount, m

\* DepthAfter counts the tokens one after the other.
LEMMA DepthIs ==
  ASSUME NEW line \in Lines, depth \in Nat
  PROVE  \E d : /\ DepthAfter(line) = d[Len(line.tokens)]
                /\ d[0] = depth + Opens(line)
                /\ \A n \in Nat : n + 1 \in 1 .. Len(line.tokens) =>
                     d[n + 1] = Counted(line.tokens[n + 1], d[n])
<1> DEFINE m == Len(line.tokens)
           start == depth + Opens(line)
           d == CHOOSE g : IsCount(g, line, start)
<1>1. m \in Nat
  BY LineFields, LenProperties
<1>2. start \in Nat
  <2>1. Opens(line) \in Nat
    BY EmptyStack, HeadsOK
  <2> QED
    BY <2>1
<1>3. DepthAfter(line) = d[m]
  BY DEF DepthAfter, Opens, IsCount
<1> HIDE DEF m, start
<1>4. IsCount(d, line, start)
  BY <1>2, CountExists
<1> HIDE DEF d
<1>5. 0 \in 0 .. m /\ \A n \in Nat : n + 1 \in 1 .. m => n + 1 \in 0 .. m /\ n + 1 # 0 /\ (n + 1) - 1 = n
  BY <1>1
<1>6. ASSUME NEW n \in Nat, n + 1 \in 1 .. m
      PROVE  d[n + 1] = Counted(line.tokens[n + 1], d[n])
  <2>1. d[n + 1] = CASE line.tokens[n + 1] \in {"{", "extern", "asm"} -> d[n] + 1
                     [] line.tokens[n + 1] = "}" /\ d[n] > 0 -> d[n] - 1
                     [] OTHER -> d[n]
    BY <1>4, <1>5, <1>6, ZenonT(60) DEF IsCount, m
  <2> QED
    BY <2>1, CountedCases
<1>7. d[0] = start
  BY <1>4, <1>5 DEF IsCount, m
<1> QED
  BY <1>3, <1>6, <1>7 DEF start, m

\* A taken line of C++ opens and closes as many blocks as braces.
LEMMA LineCounts ==
  ASSUME NEW s \in Stacks, NEW line \in Lines, linenum \in Nat, depth = Braces(s),
         ClosesBlocks(s, line)
  PROVE  Braces(ConsumeLine(s, line, linenum + 1)) = DepthAfter(line)
<1> DEFINE num == linenum + 1
           stage == Stages(s, line, num)
           m == Len(line.tokens)
<1>1. m \in Nat /\ line.tokens \in Seq(TokenSet) /\ num \in Nat /\ DOMAIN line.tokens = 1 .. m
  BY LineFields, LenProperties
<1>2. \A n \in 1 .. m : line.tokens[n] = "}" => SeenOpenBrace(stage[n - 1])
  BY <1>1 DEF ClosesBlocks
<1> HIDE DEF num
<1>3. /\ stage[0] = Heads(s, line, num)
      /\ \A n \in Nat : n + 1 \in 1 .. m =>
           stage[n + 1] = ConsumeToken(stage[n], line.tokens[n + 1], num)
  BY <1>1, StagesAre
<1>4. depth \in Nat
  BY BracesOfAppend, NewBlockOK DEF Kinds
<1>5. PICK d : /\ DepthAfter(line) = d[m]
               /\ d[0] = depth + Opens(line)
               /\ \A n \in Nat : n + 1 \in 1 .. m => d[n + 1] = Counted(line.tokens[n + 1], d[n])
  BY <1>4, DepthIs
<1> DEFINE T == {n \in Nat : n <= m => stage[n] \in Stacks /\ Braces(stage[n]) = d[n]}
<1> HIDE DEF stage, m
<1>6. 0 \in T
  BY <1>1, <1>3, <1>5, HeadsOK
<1>7. ASSUME NEW n \in Nat, n \in T
      PROVE  n + 1 \in T
  <2> SUFFICES ASSUME n + 1 <= m
               PROVE  stage[n + 1] \in Stacks /\ Braces(stage[n + 1]) = d[n + 1]
    OBVIOUS
  <2>1. stage[n] \in Stacks /\ Braces(stage[n]) = d[n]
    BY <1>1, <1>7
  <2>2. n + 1 \in 1 .. m /\ (n + 1) - 1 = n
    BY <1>1
  <2>3. /\ stage[n + 1] = ConsumeToken(stage[n], line.tokens[n + 1], num)
        /\ d[n + 1] = Counted(line.tokens[n + 1], d[n])
        /\ line.tokens[n + 1] = "}" => SeenOpenBrace(stage[n])
    BY <1>2, <1>3, <1>5, <2>2
  <2> QED
    BY <1>1, <2>1, <2>3, ConsumedToken
<1> HIDE DEF T
<1>8. m \in T
  BY <1>1, <1>6, <1>7, NatInduct
<1>9. ConsumeLine(s, line, linenum + 1) = stage[m]
  BY DEF ConsumeLine, stage, m, num
<1> QED
  BY <1>1, <1>5, <1>8, <1>9 DEF T

----------------------------------------------------------------------------
(* The blocks of the file.                                                  *)

TypeInv ==
  /\ stack \in Stacks
  /\ pp_stack \in Seq(Infos(Stacks)) /\ HasFirst(pp_stack)
  /\ linenum \in Nat

\* What is consumed is a stack, and the block whose indentation is checked is of
\* this line.
LEMMA UpdateFromStack ==
  ASSUME TypeInv, NEW line \in SourceLines, NEW restored \in Stacks, UpdateFrom(restored, line)
  PROVE  stack' \in Stacks /\ linenum' \in Nat /\ CheckedWhereItStarts'
<1>1. line \in Lines
  BY LinesAssumption
<1>2. linenum' \in Nat /\ stack' = ConsumeLine(restored, line, linenum')
  BY DEF UpdateFrom, TypeInv
<1>3. stack' \in Stacks /\ NewAbove(stack', Len(restored), linenum')
  BY <1>1, <1>2, ConsumedLine
<1>4. ASSUME checked' = "top"
      PROVE  Last(stack').starting_linenum = linenum'
  <2>1. Len(stack') = Len(restored) + 1
    BY <1>4 DEF UpdateFrom, CheckForNamespaceIndentation
  <2>2. Len(restored) \in Nat /\ DOMAIN stack' = 1 .. Len(stack')
    BY <1>3 DEF Stacks
  <2>3. Len(stack') \in DOMAIN stack' /\ Len(stack') > Len(restored)
    BY <2>1, <2>2
  <2> QED
    BY <1>3, <2>3 DEF NewAbove, Last
<1> QED
  BY <1>2, <1>3, <1>4 DEF CheckedWhereItStarts

\* A line leaves stacks behind, here and in the checkpoints.
LEMMA LineKeepsType ==
  ASSUME TypeInv, NEW line \in SourceLines, If(line) \/ Else(line) \/ Endif(line) \/ Other(line)
  PROVE  TypeInv' /\ CheckedWhereItStarts'
<1>1. ASSUME pp_stack # <<>>
      PROVE  /\ Front(pp_stack) \in Seq(Infos(Stacks)) /\ HasFirst(Front(pp_stack))
             /\ Last(pp_stack) \in Infos(Stacks)
  BY <1>1, LastInfo DEF TypeInv
<1>2. ASSUME NEW info \in Infos(Stacks)
      PROVE  info.stack_before_if \in Stacks /\ info.stack_before_else \in Stacks
  BY DEF Infos
<1>3. ASSUME NEW infos \in Seq(Infos(Stacks)), HasFirst(infos), pp_stack' = infos,
             NEW restored \in Stacks, UpdateFrom(restored, line)
      PROVE  TypeInv' /\ CheckedWhereItStarts'
  <2>1. stack' \in Stacks /\ linenum' \in Nat /\ CheckedWhereItStarts'
    BY <1>3, UpdateFromStack
  <2> QED
    BY <1>3, <2>1 DEF TypeInv, HasFirst, Skipped, IsFirst
<1>4. CASE If(line)
  <2> DEFINE info == PreprocessorInfo(stack)
  <2>1. info \in Infos(Stacks)
    BY EmptyStack DEF PreprocessorInfo, Infos, TypeInv
  <2> HIDE DEF info
  <2>2. Append(pp_stack, info) \in Seq(Infos(Stacks)) /\ HasFirst(Append(pp_stack, info))
    BY <2>1, AppendedInfo DEF TypeInv
  <2>3. pp_stack' = Append(pp_stack, info) /\ stack \in Stacks /\ UpdateFrom(stack, line)
    BY <1>4 DEF If, TypeInv, info
  <2> QED
    BY <1>3, <2>2, <2>3
<1>5. CASE Else(line)
  <2> DEFINE top == Last(pp_stack)
             info == [top EXCEPT !.seen_else = TRUE, !.stack_before_else = stack]
  <2>1. /\ pp_stack # <<>> /\ UpdateFrom(top.stack_before_if, line)
        /\ pp_stack' = IF top.seen_else THEN pp_stack ELSE Append(Front(pp_stack), info)
    BY <1>5 DEF Else
  <2>2. top \in Infos(Stacks) /\ top.stack_before_if \in Stacks
    BY <1>1, <1>2, <2>1
  <2> HIDE DEF top
  <2>3. info \in Infos(Stacks)
    BY <2>2 DEF Infos, TypeInv
  <2> HIDE DEF info
  <2>4. /\ Append(Front(pp_stack), info) \in Seq(Infos(Stacks))
        /\ HasFirst(Append(Front(pp_stack), info))
    BY <1>1, <2>1, <2>3, AppendedInfo
  <2>5. pp_stack' \in Seq(Infos(Stacks)) /\ HasFirst(pp_stack')
    BY <2>1, <2>4 DEF TypeInv
  <2> QED
    BY <1>3, <2>1, <2>2, <2>5
<1>6. CASE Endif(line)
  <2> DEFINE top == Last(pp_stack)
             restored == IF top.seen_else THEN top.stack_before_else ELSE stack
  <2>1. pp_stack # <<>> /\ pp_stack' = Front(pp_stack) /\ UpdateFrom(restored, line)
    BY <1>6 DEF Endif
  <2>2. restored \in Stacks
    BY <1>1, <1>2, <2>1 DEF TypeInv
  <2> QED
    BY <1>1, <1>3, <2>1, <2>2
<1>7. CASE Other(line)
  <2>1. pp_stack' = pp_stack /\ UpdateFrom(stack, line) /\ stack \in Stacks
    BY <1>7 DEF Other, TypeInv
  <2> QED
    BY <1>3, <2>1 DEF TypeInv
<1> QED
  BY <1>4, <1>5, <1>6, <1>7

\* The start of a file.
LEMMA FileStarts == Init => TypeInv
<1> SUFFICES ASSUME Init PROVE TypeInv
  OBVIOUS
<1>1. pp_stack = <<>> /\ stack = <<>> /\ linenum = 0
  BY DEF Init
<1>2. ~Skipped(pp_stack)
  BY <1>1 DEF Skipped
<1> QED
  BY <1>1, <1>2, EmptyStack DEF TypeInv, HasFirst

\* Nothing else changes a stack.
LEMMA NoLine ==
  ASSUME TypeInv, CheckedWhereItStarts, UNCHANGED <<stack, pp_stack, linenum, checked>>
  PROVE  TypeInv' /\ CheckedWhereItStarts'
BY DEF TypeInv, CheckedWhereItStarts, HasFirst, Skipped, IsFirst

\* CheckForNamespaceIndentation never checks a block on a later line than that
\* of its head (cpplint.py:2909-2915 compares the block below it with the top that was
\* there before the line).
THEOREM IndentationIsCheckedOnce == Spec => []CheckedWhereItStarts
<1>1. Init => TypeInv /\ CheckedWhereItStarts
  BY FileStarts DEF Init, CheckedWhereItStarts
<1>2. TypeInv /\ CheckedWhereItStarts /\ [Next]_vars => TypeInv' /\ CheckedWhereItStarts'
  <2> SUFFICES ASSUME TypeInv, CheckedWhereItStarts, [Next]_vars
               PROVE  TypeInv' /\ CheckedWhereItStarts'
    OBVIOUS
  <2>1. CASE \E line \in SourceLines : If(line) \/ Else(line) \/ Endif(line) \/ Other(line)
    BY <2>1, LineKeepsType
  <2>2. CASE CheckCompletedBlocks
    BY <2>2, NoLine DEF CheckCompletedBlocks
  <2>3. CASE UNCHANGED vars
    BY <2>3, NoLine DEF vars
  <2> QED
    BY <2>1, <2>2, <2>3 DEF Next
<1> QED
  BY <1>1, <1>2, PTL DEF Spec

----------------------------------------------------------------------------
(* The braces of the file.                                                  *)

\* The depth is counted on the text, the braces on the stack.
DepthInv == depth = Braces(TakenStack)

ReportInv == ended => reported \subseteq Range(stack)

CppInv == TypeInv /\ DepthInv /\ ReportInv

\* The checkpoints of TypeInv are such as TakenBranches is shown for.
LEMMA TypedIsInv == TypeInv => Inv
BY DEF TypeInv, Inv

\* The stack of the taken lines is a stack.
LEMMA TakenIsStack ==
  ASSUME TypeInv
  PROVE  TakenStack \in Stacks
<1>1. CASE Skipped(pp_stack)
  <2>1. PICK i \in DOMAIN pp_stack : IsFirst(pp_stack, i)
    BY <1>1 DEF TypeInv, HasFirst
  <2>2. TakenOf(pp_stack, stack) = pp_stack[i].stack_before_else
    BY <2>1, TakenOfFirst DEF TypeInv
  <2>3. pp_stack[i] \in Infos(Stacks)
    BY DEF TypeInv
  <2> QED
    BY <2>2, <2>3 DEF TakenStack, TakenOf, Infos
<1>2. CASE ~Skipped(pp_stack)
  BY <1>2 DEF TakenStack, TypeInv
<1> QED
  BY <1>1, <1>2

\* A line of a file that is C++ in its taken lines keeps the count.
LEMMA CppLineCounts ==
  ASSUME CppInv, NEW line \in SourceLines, CppLine(line)
  PROVE  CppInv'
<1>1. /\ TypeInv /\ DepthInv
      /\ If(line) \/ Else(line) \/ Endif(line) \/ Other(line)
      /\ ~Skipped(pp_stack') => ClosesBlocks(TakenStack, line)
  BY DEF CppInv, CppLine
<1>2. TypeInv'
  BY <1>1, LineKeepsType
<1>3. Taken!Read(line)
  <2>1. Taken!If(line) \/ Taken!Else(line) \/ Taken!Endif(line) \/ Taken!Other(line)
    BY <1>1, TypedIsInv, IfIsIf, ElseIsElse, EndifIsEndif, OtherIsOther
  <2> QED
    BY <2>1 DEF Taken!If, Taken!Else, Taken!Endif, Taken!Other
<1>4. /\ ~ended' /\ linenum' = linenum + 1
      /\ depth' = IF Skipped(pp_stack') THEN depth ELSE DepthAfter(line)
  BY <1>1 DEF If, Else, Endif, Other, UpdateFrom, Reading
<1>5. Taken!Skipped(Flags(pp_stack')) <=> Skipped(pp_stack')
  BY <1>2, FlagsOK DEF TypeInv
<1>6. TakenStack' = IF Skipped(pp_stack') THEN TakenStack
                    ELSE ConsumeLine(TakenStack, line, linenum + 1)
  BY <1>3, <1>4, <1>5 DEF Taken!Read, Flags
<1>7. depth' = Braces(TakenStack')
  <2>1. CASE Skipped(pp_stack')
    BY <1>1, <1>4, <1>6, <2>1 DEF DepthInv
  <2>2. CASE ~Skipped(pp_stack')
    <3>1. line \in Lines /\ linenum \in Nat /\ TakenStack \in Stacks
      BY <1>1, LinesAssumption, TakenIsStack DEF TypeInv
    <3>2. Braces(ConsumeLine(TakenStack, line, linenum + 1)) = DepthAfter(line)
      BY <1>1, <2>2, <3>1, LineCounts DEF DepthInv
    <3> QED
      BY <1>4, <1>6, <2>2, <3>2
  <2> QED
    BY <2>1, <2>2
<1> QED
  BY <1>2, <1>4, <1>7 DEF CppInv, DepthInv, ReportInv, Braces

\* The count stays what it is from line to line and to the end of the file.
LEMMA CppInvariant == CppSpec => []CppInv
<1>1. Init => CppInv
  <2> SUFFICES ASSUME Init PROVE CppInv
    OBVIOUS
  <2>1. stack = <<>> /\ pp_stack = <<>> /\ depth = 0 /\ ended = FALSE
    BY DEF Init
  <2>2. TakenStack = <<>>
    BY <2>1 DEF TakenStack, Skipped
  <2> QED
    BY <2>1, <2>2, FileStarts, EmptyStack DEF CppInv, DepthInv, ReportInv
<1>2. CppInv /\ [CppNext]_vars => CppInv'
  <2> SUFFICES ASSUME CppInv, [CppNext]_vars PROVE CppInv'
    OBVIOUS
  <2>1. ASSUME UNCHANGED <<stack, pp_stack, linenum, depth>>, ReportInv'
        PROVE  CppInv'
    <3>1. TypeInv'
      BY <2>1 DEF CppInv, TypeInv, HasFirst, Skipped, IsFirst
    <3>2. DepthInv'
      BY <2>1 DEF CppInv, DepthInv, TakenStack, Skipped, Braces
    <3> QED
      BY <2>1, <3>1, <3>2 DEF CppInv
  <2>2. CASE CheckCompletedBlocks
    <3>1. UNCHANGED <<stack, pp_stack, linenum, depth>> /\ reported' \subseteq Range(stack)
      BY <2>2 DEF CheckCompletedBlocks
    <3> QED
      BY <2>1, <3>1 DEF ReportInv
  <2>3. CASE UNCHANGED vars
    <3>1. UNCHANGED <<stack, pp_stack, linenum, depth, ended, reported>>
      BY <2>3 DEF vars
    <3>2. ReportInv'
      BY <3>1 DEF CppInv, ReportInv
    <3> QED
      BY <2>1, <3>1, <3>2
  <2>4. CASE \E line \in SourceLines : CppLine(line)
    BY <2>4, CppLineCounts
  <2> QED
    BY <2>2, <2>3, <2>4 DEF CppNext
<1> QED
  BY <1>1, <1>2, PTL DEF CppSpec

\* Blocks and open braces are as many in every file that is C++ in its taken lines,
\* whatever the other branches hold (NestingState.Update).
THEOREM EveryBraceHasItsBlock == CppSpec => []BracesAreBlocks
<1>1. CppInv => BracesAreBlocks
  BY DEF CppInv, DepthInv, BracesAreBlocks, TakenStack, Braces
<1> QED
  BY <1>1, CppInvariant, PTL

\* At the end of such a file, if its braces are balanced and its #ifs closed, CheckCompletedBlocks
\* complains of no block whose brace it has seen.
THEOREM CompleteBlocksAreNotReported == CppSpec => []NoFalseCompletionErrors
<1>1. CppInv => NoFalseCompletionErrors
  <2> SUFFICES ASSUME CppInv, ended, pp_stack = <<>>, depth = 0, NEW block \in reported
               PROVE  ~block.seen_open_brace
    BY DEF NoFalseCompletionErrors
  <2> DEFINE I == {i \in DOMAIN stack : stack[i].seen_open_brace}
  <2>1. TakenStack = stack
    BY DEF TakenStack, Skipped
  <2>2. Cardinality(I) = 0
    BY <2>1 DEF CppInv, DepthInv, Braces
  <2>3. IsFiniteSet(I)
    <3>1. Len(stack) \in Nat /\ DOMAIN stack = 1 .. Len(stack)
      BY DEF CppInv, TypeInv, Stacks
    <3>2. IsFiniteSet(1 .. Len(stack)) /\ I \subseteq 1 .. Len(stack)
      BY <3>1, FS_Interval
    <3> QED
      BY <3>2, FS_Subset
  <2> HIDE DEF I
  <2>4. I = {}
    BY <2>2, <2>3, FS_EmptySet
  <2>5. PICK i \in DOMAIN stack : block = stack[i]
    BY DEF CppInv, ReportInv, Range
  <2> QED
    BY <2>4, <2>5 DEF I
<1> QED
  BY <1>1, CppInvariant, PTL

=============================================================================
