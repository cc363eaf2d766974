---------------------------- MODULE EditorProofs -----------------------------
(* Proofs about the editor of an overlay window, as module MCEditor composes *)
(* it, for every set of selections and texts, every number of marks, tiles   *)
(* and questions, and any order of answers.                                  *)
EXTENDS MCEditor, FiniteSetTheorems, SequenceTheorems, WellFoundedInduction, TLAPS

(* Induction over the natural numbers, about a set of them. *)
LEMMA Induct ==
  ASSUME NEW S, 0 \in S, \A n \in Nat : n \in S => n + 1 \in S
  PROVE  Nat \subseteq S
<1> DEFINE Less == {p \in Nat \X Nat : p[1] < p[2]}
           Rest == Nat \ S
<1>1. IsWellFoundedOn(Less, Nat)
  BY NatLessThanWellFounded DEF OpToRel
<1>2. SUFFICES ASSUME Rest # {} PROVE FALSE
  OBVIOUS
<1>3. PICK n \in Rest : \A m \in Rest : <<m, n>> \notin Less
  <2> HIDE DEF Less
  <2> QED BY <1>1, <1>2, WFMin
<1>4. n # 0 /\ n - 1 \in Nat /\ n - 1 < n
  BY <1>3
<1>5. n - 1 \in Rest
  BY <1>4, <1>3
<1> QED BY <1>3, <1>4, <1>5

-----------------------------------------------------------------------------
(* Live Text and its late answers (Editor)                                   *)

Cards == [gen : Nat, asked : Texts \cup {"none"}, shown : Texts \cup {"none"}]

AnswerTypes ==
  /\ ocr_generation \in Nat /\ translate_generation \in Nat /\ text_mode \in BOOLEAN
  /\ card \in Cards
  /\ \A r \in recognizing : r.gen \in Nat
  /\ translating \subseteq [gen : Nat, text : Texts]

(* No answer is of a later question than the last; the one to the last was  *)
(* asked for what is selected, as long as Live Text lasts, and the text the *)
(* card waits for is the one that was asked.                                *)
Questions ==
  /\ \A r \in recognizing :
       r.gen <= ocr_generation /\ (text_mode /\ r.gen = ocr_generation => r.of = sel)
  /\ \A r \in translating :
       /\ r.gen <= translate_generation
       /\ card # E!NoCard /\ r.gen = translate_generation => r.text = card.asked
  /\ card.gen <= translate_generation
  /\ ~text_mode => words = "none" /\ card = E!NoCard

AnswersInv == AnswerTypes /\ Questions /\ E!AnswersFit

LEMMA AnswersInit == ASSUME E!Init PROVE AnswersInv
<1> USE DEF E!Init, E!NoCard, E!None
<1>1. AnswerTypes
  BY DEF AnswerTypes, Cards
<1>2. Questions
  BY DEF Questions
<1>3. E!AnswersFit
  BY DEF E!AnswersFit
<1> QED BY <1>1, <1>2, <1>3 DEF AnswersInv

(* A step that leaves Live Text closed may select what it likes. *)
LEMMA ClosedKeeps ==
  ASSUME AnswersInv, ~text_mode, UNCHANGED E!textVars
  PROVE  AnswersInv'
BY DEF AnswersInv, AnswerTypes, Questions, E!AnswersFit, E!textVars, E!ocrVars, E!cardVars, E!None

(* One that leaves the selection and Live Text alone keeps all. *)
LEMMA SelectionKept ==
  ASSUME AnswersInv, sel' = sel, UNCHANGED E!textVars
  PROVE  AnswersInv'
BY DEF AnswersInv, AnswerTypes, Questions, E!AnswersFit, E!textVars, E!ocrVars, E!cardVars

LEMMA LiveTextBegins ==
  ASSUME AnswersInv, ~text_mode, E!EnterTextMode(sel')
  PROVE  AnswersInv'
<1> USE DEF E!EnterTextMode, E!cardVars
<1>1. AnswerTypes'
  BY DEF AnswersInv, AnswerTypes
<1>2. Questions'
  BY DEF AnswersInv, AnswerTypes, Questions
<1>3. E!AnswersFit'
  BY DEF AnswersInv, Questions, E!AnswersFit, E!None
<1> QED BY <1>1, <1>2, <1>3 DEF AnswersInv

LEMMA LiveTextEnds ==
  ASSUME AnswersInv, sel' = sel, E!ExitTextMode
  PROVE  AnswersInv'
<1> USE DEF E!ExitTextMode
<1>1. AnswerTypes'
  BY DEF AnswersInv, AnswerTypes, Cards, E!NoCard, E!None
<1>2. Questions'
  BY <1>1 DEF AnswersInv, AnswerTypes, Questions, E!NoCard, E!None
<1>3. E!AnswersFit'
  BY DEF E!AnswersFit, E!NoCard, E!None
<1> QED BY <1>1, <1>2, <1>3 DEF AnswersInv

LEMMA CardCloses ==
  ASSUME AnswersInv, sel' = sel, card' = E!NoCard,
         UNCHANGED <<text_mode, textbar, E!ocrVars, translate_generation, translating>>
  PROVE  AnswersInv'
<1> USE DEF E!ocrVars
<1>1. AnswerTypes'
  BY DEF AnswersInv, AnswerTypes, Cards, E!NoCard, E!None
<1>2. Questions'
  BY DEF AnswersInv, AnswerTypes, Questions, E!NoCard, E!None
<1>3. E!AnswersFit'
  BY DEF AnswersInv, E!AnswersFit
<1> QED BY <1>1, <1>2, <1>3 DEF AnswersInv

LEMMA WordsArrive ==
  ASSUME AnswersInv, NEW r \in recognizing, E!OcrDone(r)
  PROVE  AnswersInv'
<1> USE DEF E!OcrDone, E!selVars, E!cardVars
<1>1. AnswerTypes' /\ Questions'
  BY DEF AnswersInv, AnswerTypes, Questions, E!None
<1>2. E!AnswersFit'
  BY DEF AnswersInv, AnswerTypes, Questions, E!AnswersFit, E!None
<1> QED BY <1>1, <1>2 DEF AnswersInv

LEMMA TextIsAsked ==
  ASSUME AnswersInv, NEW text \in Texts, E!TranslateSelection(text)
  PROVE  AnswersInv'
<1> USE DEF E!TranslateSelection, E!selVars, E!ocrVars, E!None
<1> DEFINE g == translate_generation + 1
<1>1. /\ card' = [gen |-> g, asked |-> text, shown |-> "none"] /\ translate_generation' = g
      /\ translating' = translating \cup {[gen |-> g, text |-> text]}
      /\ g \in Nat /\ text_mode /\ text_mode' = text_mode
  BY DEF AnswersInv, AnswerTypes
<1>2. AnswerTypes'
  BY <1>1 DEF AnswersInv, AnswerTypes, Cards
<1>3. Questions'
  <2>1. \A r \in translating' : r.gen <= g /\ (r.gen = g => r.text = text)
    BY <1>1 DEF AnswersInv, AnswerTypes, Questions
  <2>2. card'.gen = g /\ card'.asked = text
    BY <1>1
  <2>3. \A r \in recognizing' : r.gen <= ocr_generation' /\ (text_mode' /\ r.gen = ocr_generation' => r.of = sel')
    BY DEF AnswersInv, Questions
  <2> QED BY <1>1, <2>1, <2>2, <2>3 DEF Questions
<1>4. E!AnswersFit'
  BY <1>1 DEF AnswersInv, E!AnswersFit
<1> QED BY <1>2, <1>3, <1>4 DEF AnswersInv

LEMMA TranslationArrives ==
  ASSUME AnswersInv, NEW r \in translating, E!TranslateDone(r)
  PROVE  AnswersInv'
<1> USE DEF E!TranslateDone, E!selVars, E!ocrVars
<1>1. CASE r.gen = translate_generation /\ card # E!NoCard
  <2>1. card' = [card EXCEPT !.shown = r.text] /\ r.text = card.asked
    BY <1>1 DEF AnswersInv, Questions
  <2>2. card' \in Cards /\ card'.gen = card.gen /\ card'.asked = card.asked /\ card'.shown = card.asked
    BY <2>1 DEF AnswersInv, AnswerTypes, Cards
  <2>3. AnswerTypes'
    BY <2>2 DEF AnswersInv, AnswerTypes
  <2>4. Questions'
    BY <1>1, <2>2 DEF AnswersInv, AnswerTypes, Questions
  <2>5. E!AnswersFit'
    BY <1>1, <2>2 DEF AnswersInv, E!AnswersFit
  <2> QED BY <2>3, <2>4, <2>5 DEF AnswersInv
<1>2. CASE ~(r.gen = translate_generation /\ card # E!NoCard)
  BY <1>2 DEF AnswersInv, AnswerTypes, Questions, E!AnswersFit
<1> QED BY <1>1, <1>2

LEMMA AnswersNext == ASSUME AnswersInv, E!Next PROVE AnswersInv'
<1>1. CASE E!PointerDown
  BY <1>1, ClosedKeeps DEF E!PointerDown
<1>2. CASE E!PointerMove
  BY <1>2, ClosedKeeps DEF E!PointerMove
<1>3. CASE E!PointerUp
  <2>1. ~text_mode
    BY <1>3 DEF E!PointerUp
  <2>2. UNCHANGED E!textVars \/ E!EnterTextMode(sel')
    BY <1>3 DEF E!PointerUp, E!Created
  <2> QED BY <2>1, <2>2, ClosedKeeps, LiveTextBegins
<1>4. CASE E!DoubleClick \/ E!CancelButton \/ E!PickColor \/ E!Act \/ E!TextCopy \/ \E t \in E!Tools : E!SetTool(t)
  BY <1>4, SelectionKept DEF E!DoubleClick, E!CancelButton, E!PickColor, E!Act, E!TextCopy, E!SetTool, E!selVars
<1>5. CASE E!TextDown
  BY <1>5, CardCloses DEF E!TextDown, E!selVars
<1>6. CASE E!TextUp
  BY <1>6 DEF E!TextUp, E!selVars, E!ocrVars, E!cardVars, AnswersInv, AnswerTypes, Questions, E!AnswersFit
<1>7. CASE E!KeyEscape
  <2>1. CASE text_mode /\ card # E!NoCard
    <3>1. sel' = sel /\ card' = E!NoCard /\ UNCHANGED <<text_mode, textbar, E!ocrVars, translate_generation, translating>>
      BY <1>7, <2>1 DEF E!KeyEscape, E!selVars
    <3> QED BY <3>1, CardCloses
  <2>2. CASE text_mode /\ card = E!NoCard
    <3>1. sel' = sel /\ E!ExitTextMode
      BY <1>7, <2>2 DEF E!KeyEscape
    <3> QED BY <3>1, LiveTextEnds
  <2>3. CASE ~text_mode
    <3>1. UNCHANGED E!textVars
      BY <1>7, <2>3 DEF E!KeyEscape
    <3> QED BY <2>3, <3>1, ClosedKeeps
  <2> QED BY <2>1, <2>2, <2>3 DEF AnswersInv, AnswerTypes
<1>8. CASE E!KeyFull \/ E!KeyNudge
  BY <1>8, ClosedKeeps DEF E!KeyFull, E!KeyNudge
<1>9. CASE E!LiveText
  BY <1>9, LiveTextBegins DEF E!LiveText
<1>10. CASE E!TextBack
  BY <1>10, LiveTextEnds DEF E!TextBack
<1>11. CASE E!TranslateClose
  BY <1>11, CardCloses DEF E!TranslateClose, E!selVars
<1>12. CASE \E text \in Texts : E!TranslateSelection(text)
  BY <1>12, TextIsAsked
<1>13. CASE E!Answers
  BY <1>13, WordsArrive, TranslationArrives DEF E!Answers
<1> QED BY <1>1, <1>2, <1>3, <1>4, <1>5, <1>6, <1>7, <1>8, <1>9, <1>10, <1>11, <1>12, <1>13 DEF E!Next

-----------------------------------------------------------------------------
(* What is selected, and the two toolbars (Editor)                           *)

(* A drag has something selected, and so has the editor unless it is idle;  *)
(* each toolbar belongs to one of its two modes.                            *)
SelectionInv ==
  /\ E!TypeOK
  /\ drag # "none" => sel # "none"
  /\ text_mode \in BOOLEAN
  /\ toolbar => ~text_mode
  /\ textbar => text_mode
  /\ text_mode => mode = "selected"
  /\ \A r \in recognizing : r.of \in E!Selections \cup {"none"}

LEMMA SelectionInit == ASSUME E!Init PROVE SelectionInv
BY DEF E!Init, SelectionInv, E!TypeOK, E!None, E!Drags, E!Tools, E!Selections

LEMMA SelectionNext ==
  ASSUME SelectionInv, "none" \notin Boxes, E!Next
  PROVE  SelectionInv'
<1> USE DEF SelectionInv, E!TypeOK, E!None, E!Thin, E!Drags, E!Tools, E!Selections, E!BarFor
<1>1. CASE E!PointerDown
  BY <1>1 DEF E!PointerDown, E!BeginCreate, E!PressSelected, E!selVars, E!textVars, E!ocrVars
<1>2. CASE E!PointerMove
  BY <1>2 DEF E!PointerMove, E!textVars, E!ocrVars
<1>3. CASE E!PointerUp
  <2>1. CASE drag = "create"
    <3>1. PICK near \in BOOLEAN : E!Created(near)
      BY <1>3, <2>1 DEF E!PointerUp
    <3>2. CASE ~near /\ sel = "thin"
      BY <1>3, <3>1, <3>2 DEF E!PointerUp, E!Created, E!textVars, E!ocrVars
    <3>3. CASE ~(~near /\ sel = "thin")
      <4>1. sel' \in E!Selections /\ sel' # "none" /\ mode' = "selected" /\ drag' = "none" /\ tool' = tool
        BY <1>3, <2>1, <3>1, <3>3 DEF E!PointerUp, E!Created
      <4>2. CASE UNCHANGED E!textVars
        BY <1>3, <3>1, <3>3, <4>1, <4>2 DEF E!PointerUp, E!Created, E!textVars, E!ocrVars
      <4>3. CASE E!EnterTextMode(sel')
        BY <1>3, <4>1, <4>3 DEF E!PointerUp, E!EnterTextMode
      <4> QED BY <3>1, <3>3, <4>2, <4>3 DEF E!Created
    <3> QED BY <3>2, <3>3
  <2>2. CASE drag # "create"
    BY <1>3, <2>2 DEF E!PointerUp, E!textVars, E!ocrVars
  <2> QED BY <2>1, <2>2
<1>4. CASE E!DoubleClick \/ E!CancelButton \/ E!PickColor \/ E!Act \/ E!TextCopy
  BY <1>4 DEF E!DoubleClick, E!CancelButton, E!PickColor, E!Act, E!TextCopy, E!Finish, E!selVars, E!textVars, E!ocrVars
<1>5. CASE E!TextDown \/ E!TextUp \/ E!TranslateClose
  BY <1>5 DEF E!TextDown, E!TextUp, E!TranslateClose, E!selVars, E!ocrVars
<1>6. CASE E!KeyEscape
  BY <1>6 DEF E!KeyEscape, E!ExitTextMode, E!selVars, E!textVars, E!ocrVars
<1>7. CASE E!KeyFull \/ E!KeyNudge
  BY <1>7 DEF E!KeyFull, E!KeyNudge, E!textVars, E!ocrVars
<1>8. ASSUME NEW t \in E!Tools, E!SetTool(t) PROVE SelectionInv'
  BY <1>8 DEF E!SetTool, E!textVars, E!ocrVars
<1>9. CASE E!LiveText
  BY <1>9 DEF E!LiveText, E!EnterTextMode
<1>10. CASE E!TextBack
  BY <1>10 DEF E!TextBack, E!ExitTextMode
<1>11. ASSUME NEW text \in Texts, E!TranslateSelection(text) PROVE SelectionInv'
  BY <1>11 DEF E!TranslateSelection, E!selVars, E!ocrVars
<1>12. ASSUME NEW r \in recognizing, E!OcrDone(r) PROVE SelectionInv'
  BY <1>12 DEF E!OcrDone, E!selVars
<1>13. ASSUME NEW r \in translating, E!TranslateDone(r) PROVE SelectionInv'
  BY <1>13 DEF E!TranslateDone, E!selVars, E!ocrVars
<1> QED BY <1>1, <1>2, <1>3, <1>4, <1>5, <1>6, <1>7, <1>8, <1>9, <1>10, <1>11, <1>12, <1>13 DEF E!Next, E!Answers

-----------------------------------------------------------------------------
(* Badges, and the two lists (Marks)                                         *)

MarkSet == {m \in [kind : M!Kinds, at : Seq(M!Tiles), n : Nat] : m.kind # "counter" => m.n = 0}

Badges(s, k) == {j \in 1 .. k : s[j].kind = "counter"}
Count(s, k) == Cardinality(Badges(s, k))

LEMMA CountType ==
  ASSUME NEW s, NEW k \in Nat
  PROVE  IsFiniteSet(Badges(s, k)) /\ Count(s, k) \in 0 .. k
<1>1. IsFiniteSet(1 .. k) /\ Cardinality(1 .. k) = k
  BY FS_Interval
<1>2. Badges(s, k) \subseteq 1 .. k
  BY DEF Badges
<1>3. IsFiniteSet(Badges(s, k)) /\ Cardinality(Badges(s, k)) <= k
  BY <1>1, <1>2, FS_Subset
<1> QED BY <1>3, FS_CardinalityType DEF Count

LEMMA CountNext ==
  ASSUME NEW s, NEW k \in Nat
  PROVE  Count(s, k + 1) = IF s[k + 1].kind = "counter" THEN Count(s, k) + 1 ELSE Count(s, k)
<1>1. CASE s[k + 1].kind = "counter"
  <2>1. Badges(s, k + 1) = Badges(s, k) \cup {k + 1} /\ k + 1 \notin Badges(s, k)
    BY <1>1 DEF Badges
  <2> QED BY <1>1, <2>1, CountType, FS_AddElement DEF Count
<1>2. CASE s[k + 1].kind # "counter"
  <2>1. Badges(s, k + 1) = Badges(s, k)
    BY <1>2 DEF Badges
  <2> QED BY <1>2, <2>1 DEF Count
<1> QED BY <1>1, <1>2

(* Lists that agree so far count alike. *)
LEMMA CountAlike ==
  ASSUME NEW s, NEW t, NEW k \in Nat, \A j \in 1 .. k : s[j] = t[j]
  PROVE  Count(s, k) = Count(t, k)
<1>1. Badges(s, k) = Badges(t, k)
  BY DEF Badges
<1> QED BY <1>1 DEF Count

LEMMA Shortened ==
  ASSUME NEW S, NEW s \in Seq(S), s # <<>>
  PROVE  /\ M!Front(s) \in Seq(S) /\ Len(s) \in Nat \ {0} /\ Len(M!Front(s)) = Len(s) - 1
         /\ M!Last(s) \in S /\ M!Last(s) = s[Len(s)]
         /\ \A j \in 1 .. Len(s) - 1 : M!Front(s)[j] = s[j]
         /\ s = Append(M!Front(s), M!Last(s))
<1>1. Len(s) \in Nat \ {0}
  OBVIOUS
<1>2. M!Last(s) = s[Len(s)] /\ M!Front(s) = SubSeq(s, 1, Len(s) - 1)
  BY DEF M!Last, M!Front
<1>3. /\ SubSeq(s, 1, Len(s) - 1) \in Seq(S) /\ Len(SubSeq(s, 1, Len(s) - 1)) = Len(s) - 1
      /\ \A j \in 1 .. Len(s) - 1 : SubSeq(s, 1, Len(s) - 1)[j] = s[j]
  <2>1. \A i \in 1 .. Len(s) - 1 : s[i] \in S
    BY <1>1, ElementOfSeq
  <2> DEFINE last == Len(s) - 1
             t == SubSeq(s, 1, last)
  <2>2. 1 \in Int /\ last \in Int /\ last >= 0 /\ \A i \in 1 .. last : s[i] \in S
    BY <1>1, <2>1
  <2> HIDE DEF last
  <2>3. /\ t \in Seq(S) /\ Len(t) = IF 1 <= last THEN last - 1 + 1 ELSE 0
        /\ \A i \in 1 .. last - 1 + 1 : t[i] = s[1 + i - 1]
    BY <2>2, SubSeqProperties
  <2> HIDE DEF t
  <2>4. t \in Seq(S) /\ Len(t) = last /\ \A j \in 1 .. last : t[j] = s[j]
    BY <2>2, <2>3
  <2> QED BY <2>4, Zenon DEF t, last
<1>4. s[Len(s)] \in S
  BY <1>1, ElementOfSeq
<1>5. s = Append(M!Front(s), M!Last(s))
  <2> DEFINE t == Append(M!Front(s), M!Last(s))
  <2>1. t \in Seq(S) /\ Len(t) = Len(s) /\ \A i \in 1 .. Len(s) : s[i] = t[i]
    BY <1>1, <1>2, <1>3, <1>4, AppendProperties
  <2> HIDE DEF t
  <2>2. s = t
    BY <2>1, SeqEqual
  <2> QED BY <2>2 DEF t
<1> QED BY <1>1, <1>2, <1>3, <1>4, <1>5

Lists == annotations \in Seq(MarkSet) /\ redo_stack \in Seq(MarkSet) /\ Len(annotations) + Len(redo_stack) <= MaxMarks

(* What was undone waits with the numbers that follow, the next on top. *)
BadgesInv ==
  /\ Lists
  /\ \A k \in 1 .. Len(annotations) : annotations[k].kind = "counter" => annotations[k].n = Count(annotations, k)
  /\ counter_n = Count(annotations, Len(annotations)) + 1
  /\ \A k \in 1 .. Len(redo_stack) : redo_stack[k].kind = "counter" =>
       redo_stack[k].n = Count(annotations, Len(annotations)) + Count(redo_stack, Len(redo_stack))
                           - Count(redo_stack, k) + 1

LEMMA BadgesInit == ASSUME M!MarksAssumption, M!Init PROVE BadgesInv
<1>1. Lists
  BY DEF M!MarksAssumption, M!Init, Lists
<1>2. Len(annotations) = 0 /\ Len(redo_stack) = 0 /\ Count(annotations, 0) = 0
  <2>1. Badges(annotations, 0) = {}
    BY DEF Badges
  <2> QED BY <2>1, FS_EmptySet DEF M!Init, Count
<1> QED BY <1>1, <1>2 DEF BadgesInv, M!Init

LEMMA MarkIsPushed ==
  ASSUME M!MarksAssumption, BadgesInv, NEW m \in MarkSet, NEW g, M!PushAnno(m, g),
         m.kind = "counter" => m.n = counter_n,
         counter_n' = IF m.kind = "counter" THEN counter_n + 1 ELSE counter_n
  PROVE  BadgesInv'
<1> DEFINE s == annotations
           last == Len(annotations)
<1>1. annotations' = Append(s, m) /\ redo_stack' = <<>> /\ s \in Seq(MarkSet) /\ Len(redo_stack) \in Nat
  BY DEF M!PushAnno, BadgesInv, Lists
<1>2. /\ annotations' \in Seq(MarkSet) /\ last \in Nat /\ Len(annotations') = last + 1 /\ annotations'[last + 1] = m
      /\ \A j \in 1 .. last : annotations'[j] = s[j]
  BY <1>1, AppendProperties, LenProperties
<1> HIDE DEF s, last
<1>3. Lists'
  <2>1. Len(annotations) + Len(redo_stack) < MaxMarks /\ MaxMarks \in Nat
    BY DEF M!PushAnno, M!Room, M!MarksAssumption
  <2>2. <<>> \in Seq(MarkSet) /\ Len(<<>>) = 0
    OBVIOUS
  <2> QED BY <1>1, <1>2, <2>1, <2>2 DEF Lists, last
<1>4. \A k \in 0 .. last : Count(annotations', k) = Count(s, k)
  BY <1>2, CountAlike
<1>5. Count(annotations', last + 1) = IF m.kind = "counter" THEN Count(s, last) + 1 ELSE Count(s, last)
  BY <1>2, <1>4, CountNext
<1>6. counter_n = Count(s, last) + 1 /\ Count(s, last) \in Nat
  BY <1>2, CountType DEF BadgesInv, s, last
<1>7. \A k \in 1 .. last + 1 : annotations'[k].kind = "counter" => annotations'[k].n = Count(annotations', k)
  <2>1. ASSUME NEW k \in 1 .. last, s[k].kind = "counter" PROVE s[k].n = Count(s, k)
    BY <2>1 DEF BadgesInv, s, last
  <2> QED BY <1>2, <1>4, <1>5, <1>6, <2>1
<1>8. Len(redo_stack') = 0
  BY <1>1
<1> QED BY <1>2, <1>3, <1>5, <1>6, <1>7, <1>8 DEF BadgesInv

LEMMA MarkIsUndone == ASSUME BadgesInv, M!Undo PROVE BadgesInv'
<1> DEFINE s == annotations
           t == redo_stack
           m == M!Last(annotations)
<1>1. /\ s # <<>> /\ s \in Seq(MarkSet) /\ t \in Seq(MarkSet)
      /\ annotations' = M!Front(s) /\ redo_stack' = Append(t, m)
      /\ counter_n' = IF m.kind = "counter" THEN M!Max({counter_n - 1, 1}) ELSE counter_n
  BY DEF M!Undo, BadgesInv, Lists
<1>2. /\ annotations' \in Seq(MarkSet) /\ Len(s) \in Nat \ {0} /\ Len(annotations') = Len(s) - 1 /\ m \in MarkSet
      /\ m = s[Len(s)] /\ \A j \in 1 .. Len(s) - 1 : annotations'[j] = s[j]
  BY <1>1, Shortened
<1>3. /\ redo_stack' \in Seq(MarkSet) /\ Len(t) \in Nat /\ Len(redo_stack') = Len(t) + 1
      /\ redo_stack'[Len(t) + 1] = m /\ \A j \in 1 .. Len(t) : redo_stack'[j] = t[j]
  BY <1>1, <1>2, AppendProperties, LenProperties
<1>4. /\ Len(s) + Len(t) <= MaxMarks
      /\ \A k \in 1 .. Len(s) : s[k].kind = "counter" => s[k].n = Count(s, k)
      /\ counter_n = Count(s, Len(s)) + 1
      /\ \A k \in 1 .. Len(t) : t[k].kind = "counter" => t[k].n = Count(s, Len(s)) + Count(t, Len(t)) - Count(t, k) + 1
  BY DEF BadgesInv, Lists
<1> HIDE DEF s, t, m
<1>5. Lists'
  BY <1>2, <1>3, <1>4 DEF Lists
<1>6. \A k \in 0 .. Len(s) - 1 : Count(annotations', k) = Count(s, k) /\ Count(s, k) \in Nat
  BY <1>2, CountAlike, CountType
<1>7. /\ Count(s, Len(s)) = IF m.kind = "counter" THEN Count(s, Len(s) - 1) + 1 ELSE Count(s, Len(s) - 1)
      /\ Count(s, Len(s) - 1) \in Nat
  <2>1. Len(s) - 1 \in Nat /\ Len(s) - 1 + 1 = Len(s)
    BY <1>2
  <2>2. Count(s, Len(s) - 1 + 1) =
          IF s[Len(s) - 1 + 1].kind = "counter" THEN Count(s, Len(s) - 1) + 1 ELSE Count(s, Len(s) - 1)
    BY <2>1, CountNext
  <2>3. Count(s, Len(s) - 1) \in Nat
    BY <2>1, CountType
  <2> QED BY <1>2, <2>1, <2>2, <2>3
<1>8. \A k \in 0 .. Len(t) : Count(redo_stack', k) = Count(t, k) /\ Count(t, k) \in Nat
  BY <1>3, CountAlike, CountType
<1>9. Count(redo_stack', Len(t) + 1) = IF m.kind = "counter" THEN Count(t, Len(t)) + 1 ELSE Count(t, Len(t))
  <2>1. Count(redo_stack', Len(t) + 1) =
          IF redo_stack'[Len(t) + 1].kind = "counter" THEN Count(redo_stack', Len(t)) + 1 ELSE Count(redo_stack', Len(t))
    BY <1>3, CountNext
  <2>2. Count(redo_stack', Len(t)) = Count(t, Len(t))
    BY <1>3, <1>8
  <2> QED BY <1>3, <2>1, <2>2
<1>10. counter_n' = Count(annotations', Len(annotations')) + 1
  <2>1. CASE m.kind = "counter"
    <3>1. counter_n' = M!Max({counter_n - 1, 1}) /\ counter_n - 1 = Count(s, Len(s) - 1) + 1
      BY <1>1, <1>4, <1>7, <2>1
    <3>2. \A c \in Nat \ {0} : M!Max({c, 1}) = c
      BY DEF M!Max
    <3> QED BY <1>2, <1>6, <1>7, <3>1, <3>2
  <2>2. CASE m.kind # "counter"
    BY <1>1, <1>2, <1>4, <1>6, <1>7, <2>2
  <2> QED BY <2>1, <2>2
<1>11. \A k \in 1 .. Len(s) - 1 : annotations'[k].kind = "counter" => annotations'[k].n = Count(annotations', k)
  <2> SUFFICES ASSUME NEW k \in 1 .. Len(s) - 1, annotations'[k].kind = "counter"
               PROVE  annotations'[k].n = Count(annotations', k)
    OBVIOUS
  <2>1. k \in 0 .. Len(s) - 1 /\ k \in 1 .. Len(s) /\ annotations'[k] = s[k]
    BY <1>2
  <2>2. s[k].n = Count(s, k) /\ Count(annotations', k) = Count(s, k)
    BY <1>4, <1>6, <2>1
  <2> QED BY <2>1, <2>2
<1>12. \A k \in 1 .. Len(t) + 1 : redo_stack'[k].kind = "counter" =>
         redo_stack'[k].n = Count(annotations', Len(s) - 1) + Count(redo_stack', Len(t) + 1) - Count(redo_stack', k) + 1
  <2> SUFFICES ASSUME NEW k \in 1 .. Len(t) + 1, redo_stack'[k].kind = "counter"
               PROVE  redo_stack'[k].n =
                        Count(annotations', Len(s) - 1) + Count(redo_stack', Len(t) + 1) - Count(redo_stack', k) + 1
    OBVIOUS
  <2>1. Count(annotations', Len(s) - 1) = Count(s, Len(s) - 1) /\ Count(t, Len(t)) \in Nat
    BY <1>2, <1>3, <1>6, <1>8
  <2>2. CASE k = Len(t) + 1
    <3>1. m.kind = "counter" /\ m.n = Count(s, Len(s))
      BY <1>2, <1>3, <1>4, <2>2
    <3> QED BY <1>3, <1>7, <1>9, <2>1, <2>2, <3>1
  <2>3. CASE k # Len(t) + 1
    <3>1. k \in 1 .. Len(t) /\ redo_stack'[k] = t[k]
      BY <1>3, <2>3
    <3>2. Count(redo_stack', k) = Count(t, k) /\ Count(t, k) \in Nat
      BY <1>8, <3>1
    <3>3. t[k].n = Count(s, Len(s)) + Count(t, Len(t)) - Count(t, k) + 1
      BY <1>4, <3>1
    <3> QED BY <1>7, <1>9, <2>1, <3>1, <3>2, <3>3
  <2> QED BY <2>2, <2>3
<1> QED BY <1>2, <1>3, <1>5, <1>10, <1>11, <1>12 DEF BadgesInv

LEMMA MarkIsRedone == ASSUME BadgesInv, M!Redo PROVE BadgesInv'
<1> DEFINE s == annotations
           t == redo_stack
           m == M!Last(redo_stack)
<1>1. /\ t # <<>> /\ s \in Seq(MarkSet) /\ t \in Seq(MarkSet)
      /\ annotations' = Append(s, m) /\ redo_stack' = M!Front(t)
      /\ counter_n' = IF m.kind = "counter" THEN m.n + 1 ELSE counter_n
  BY DEF M!Redo, BadgesInv, Lists
<1>2. /\ redo_stack' \in Seq(MarkSet) /\ Len(t) \in Nat \ {0} /\ Len(redo_stack') = Len(t) - 1 /\ m \in MarkSet
      /\ m = t[Len(t)] /\ \A j \in 1 .. Len(t) - 1 : redo_stack'[j] = t[j]
  BY <1>1, Shortened
<1>3. /\ annotations' \in Seq(MarkSet) /\ Len(s) \in Nat /\ Len(annotations') = Len(s) + 1
      /\ annotations'[Len(s) + 1] = m /\ \A j \in 1 .. Len(s) : annotations'[j] = s[j]
  BY <1>1, <1>2, AppendProperties, LenProperties
<1>4. /\ Len(s) + Len(t) <= MaxMarks
      /\ \A k \in 1 .. Len(s) : s[k].kind = "counter" => s[k].n = Count(s, k)
      /\ counter_n = Count(s, Len(s)) + 1
      /\ \A k \in 1 .. Len(t) : t[k].kind = "counter" => t[k].n = Count(s, Len(s)) + Count(t, Len(t)) - Count(t, k) + 1
  BY DEF BadgesInv, Lists
<1> HIDE DEF s, t, m
<1>5. Lists'
  BY <1>2, <1>3, <1>4 DEF Lists
<1>6. \A k \in 0 .. Len(s) : Count(annotations', k) = Count(s, k) /\ Count(s, k) \in Nat
  BY <1>3, CountAlike, CountType
<1>7. Count(annotations', Len(s) + 1) = IF m.kind = "counter" THEN Count(s, Len(s)) + 1 ELSE Count(s, Len(s))
  <2>1. Count(annotations', Len(s) + 1) =
          IF annotations'[Len(s) + 1].kind = "counter" THEN Count(annotations', Len(s)) + 1
          ELSE Count(annotations', Len(s))
    BY <1>3, CountNext
  <2>2. Count(annotations', Len(s)) = Count(s, Len(s))
    BY <1>3, <1>6
  <2> QED BY <1>3, <2>1, <2>2
<1>8. \A k \in 0 .. Len(t) - 1 : Count(redo_stack', k) = Count(t, k) /\ Count(t, k) \in Nat
  BY <1>2, CountAlike, CountType
<1>9. /\ Count(t, Len(t)) = IF m.kind = "counter" THEN Count(t, Len(t) - 1) + 1 ELSE Count(t, Len(t) - 1)
      /\ Count(t, Len(t) - 1) \in Nat
  <2>1. Len(t) - 1 \in Nat /\ Len(t) - 1 + 1 = Len(t)
    BY <1>2
  <2>2. Count(t, Len(t) - 1 + 1) =
          IF t[Len(t) - 1 + 1].kind = "counter" THEN Count(t, Len(t) - 1) + 1 ELSE Count(t, Len(t) - 1)
    BY <2>1, CountNext
  <2>3. Count(t, Len(t) - 1) \in Nat
    BY <2>1, CountType
  <2> QED BY <1>2, <2>1, <2>2, <2>3
<1>10. m.kind = "counter" => m.n = Count(s, Len(s)) + 1
  <2>1. m.kind = "counter" => m.n = Count(s, Len(s)) + Count(t, Len(t)) - Count(t, Len(t)) + 1
    BY <1>2, <1>4
  <2>2. Count(s, Len(s)) \in Nat /\ Count(t, Len(t)) \in Nat
    BY <1>3, <1>6, <1>9
  <2> QED BY <2>1, <2>2
<1>11. counter_n' = Count(annotations', Len(annotations')) + 1
  BY <1>1, <1>3, <1>4, <1>7, <1>10
<1>12. \A k \in 1 .. Len(s) + 1 : annotations'[k].kind = "counter" => annotations'[k].n = Count(annotations', k)
  <2> SUFFICES ASSUME NEW k \in 1 .. Len(s) + 1, annotations'[k].kind = "counter"
               PROVE  annotations'[k].n = Count(annotations', k)
    OBVIOUS
  <2>1. CASE k = Len(s) + 1
    BY <1>3, <1>7, <1>10, <2>1
  <2>2. CASE k # Len(s) + 1
    <3>1. k \in 1 .. Len(s) /\ k \in 0 .. Len(s)
      BY <1>3, <2>2
    <3> QED BY <1>3, <1>4, <1>6, <3>1
  <2> QED BY <2>1, <2>2
<1>13. \A k \in 1 .. Len(t) - 1 : redo_stack'[k].kind = "counter" =>
         redo_stack'[k].n = Count(annotations', Len(s) + 1) + Count(redo_stack', Len(t) - 1) - Count(redo_stack', k) + 1
  <2> SUFFICES ASSUME NEW k \in 1 .. Len(t) - 1, redo_stack'[k].kind = "counter"
               PROVE  redo_stack'[k].n =
                        Count(annotations', Len(s) + 1) + Count(redo_stack', Len(t) - 1) - Count(redo_stack', k) + 1
    OBVIOUS
  <2>1. k \in 1 .. Len(t) /\ redo_stack'[k] = t[k] /\ Count(redo_stack', k) = Count(t, k) /\ Count(t, k) \in Nat
        /\ Count(redo_stack', Len(t) - 1) = Count(t, Len(t) - 1)
    BY <1>2, <1>8
  <2>2. t[k].n = Count(s, Len(s)) + Count(t, Len(t)) - Count(t, k) + 1
    BY <1>4, <2>1
  <2>3. Count(s, Len(s)) \in Nat
    BY <1>3, <1>6
  <2> QED BY <1>7, <1>9, <2>1, <2>2, <2>3
<1> QED BY <1>2, <1>3, <1>5, <1>11, <1>12, <1>13 DEF BadgesInv

(* The mark under the pointer and the text editor are what they can be. *)
PointerInv ==
  /\ temp = M!NoMark \/ (temp \in MarkSet /\ temp.kind \in {"stroke", "shape"} /\ Len(temp.at) >= 1)
  /\ drawing = (temp # M!NoMark)
  /\ typing = M!NoEditor \/ typing \in [at : M!Tiles, typed : BOOLEAN]
  /\ hole \subseteq M!Tiles

LEMMA PointerInit == ASSUME M!MarksAssumption, M!Init PROVE PointerInv
BY DEF M!Init, M!MarksAssumption, PointerInv, M!Tiles

LEMMA OnePoint ==
  ASSUME NEW i \in M!Tiles, NEW kind \in M!Kinds, NEW n \in Nat, kind # "counter" => n = 0
  PROVE  [kind |-> kind, at |-> <<i>>, n |-> n] \in MarkSet /\ Len(<<i>>) = 1
BY DEF MarkSet

LEMMA PointerNext == ASSUME M!MarksAssumption, PointerInv, M!Next PROVE PointerInv'
<1> USE DEF PointerInv
<1>1. CASE M!PressCommits
  BY <1>1 DEF M!PressCommits, M!CommitText
<1>2. CASE M!Release \/ M!Escape
  BY <1>2 DEF M!Release, M!Escape
<1>3. CASE M!Undo \/ M!Redo
  BY <1>3 DEF M!Undo, M!Redo
<1>4. CASE M!EditorCancel
  BY <1>4 DEF M!EditorCancel
<1>5. ASSUME NEW i \in Presses, M!PressText(i) PROVE PointerInv'
  <2>1. i \in M!Tiles
    BY DEF M!MarksAssumption, M!Tiles
  <2> QED BY <1>5, <2>1 DEF M!PressText
<1>6. ASSUME NEW i \in Presses, M!PressCounter(i) PROVE PointerInv'
  BY <1>6 DEF M!PressCounter
<1>7. ASSUME NEW t \in {"stroke", "shape"}, NEW i \in Presses, M!PressDraws(t, i) PROVE PointerInv'
  <2>1. temp' = [kind |-> t, at |-> <<i>>, n |-> 0] /\ drawing' = TRUE /\ typing' = typing /\ hole' = hole
    BY <1>7 DEF M!PressDraws
  <2>2. i \in M!Tiles /\ t \in M!Kinds /\ t # "counter"
    BY DEF M!MarksAssumption, M!Tiles, M!Kinds
  <2>3. temp' \in MarkSet /\ temp'.kind = t /\ Len(temp'.at) = 1
    BY <2>1, <2>2, OnePoint
  <2>4. temp' # M!NoMark /\ temp'.kind \in {"stroke", "shape"} /\ Len(temp'.at) >= 1
    BY <2>1, <2>3 DEF M!NoMark
  <2>5. drawing' = (temp' # M!NoMark)
    BY <2>1, <2>4
  <2> QED BY <2>1, <2>3, <2>4, <2>5
<1>8. ASSUME NEW i \in M!Tiles, M!DrawMove(i) PROVE PointerInv'
  <2>1. temp \in MarkSet /\ temp.kind \in {"stroke", "shape"} /\ temp.at \in Seq(M!Tiles) /\ Len(temp.at) >= 1
    BY <1>8 DEF M!DrawMove, MarkSet
  <2>2. PICK at \in Seq(M!Tiles) : temp' = [temp EXCEPT !.at = at] /\ Len(at) >= 1
    <3>1. CASE temp.kind = "stroke"
      <4>1. temp' = [temp EXCEPT !.at = Append(@, i)]
        BY <1>8, <3>1 DEF M!DrawMove
      <4>2. Append(temp.at, i) \in Seq(M!Tiles) /\ Len(Append(temp.at, i)) >= 1
        BY <2>1, AppendProperties, LenProperties
      <4>3. [temp EXCEPT !.at = Append(@, i)] = [temp EXCEPT !.at = Append(temp.at, i)]
        OBVIOUS
      <4> QED BY <4>1, <4>2, <4>3
    <3>2. CASE temp.kind # "stroke"
      <4>1. PICK far \in BOOLEAN : temp' = [temp EXCEPT !.at = IF far THEN <<@[1], i>> ELSE <<@[1]>>]
        BY <1>8, <3>2 DEF M!DrawMove
      <4>2. temp.at[1] \in M!Tiles
        BY <2>1, ElementOfSeq, LenProperties
      <4>3. <<temp.at[1], i>> \in Seq(M!Tiles) /\ <<temp.at[1]>> \in Seq(M!Tiles)
        BY <4>2
      <4> DEFINE at == IF far THEN <<temp.at[1], i>> ELSE <<temp.at[1]>>
      <4>4. at \in Seq(M!Tiles) /\ Len(at) >= 1
        BY <4>3
      <4>5. temp' = [temp EXCEPT !.at = at]
        BY <4>1, Zenon
      <4> HIDE DEF at
      <4> QED BY <4>4, <4>5
    <3> QED BY <3>1, <3>2
  <2>3. temp' \in MarkSet /\ temp'.kind = temp.kind /\ temp'.at = at
    BY <2>1, <2>2 DEF MarkSet
  <2>4. temp' # M!NoMark
    BY <2>1, <2>3 DEF M!NoMark
  <2> QED BY <1>8, <2>1, <2>2, <2>3, <2>4 DEF M!DrawMove
<1>9. ASSUME NEW typed \in BOOLEAN, M!EditorInput(typed) PROVE PointerInv'
  BY <1>9 DEF M!EditorInput
<1>10. ASSUME NEW h \in Holes, M!MoveSelection(h) PROVE PointerInv'
  BY <1>10 DEF M!MoveSelection, M!MarksAssumption, M!Tiles
<1> QED BY <1>1, <1>2, <1>3, <1>4, <1>5, <1>6, <1>7, <1>8, <1>9, <1>10 DEF M!Next

LEMMA ListsStay == ASSUME BadgesInv, UNCHANGED M!listVars PROVE BadgesInv'
<1>1. annotations' = annotations /\ redo_stack' = redo_stack /\ counter_n' = counter_n
  BY DEF M!listVars
<1>2. Len(annotations') = Len(annotations) /\ Len(redo_stack') = Len(redo_stack)
  BY <1>1
<1> QED BY <1>1, <1>2 DEF BadgesInv, Lists

LEMMA TextIsMarked == ASSUME M!MarksAssumption, BadgesInv, PointerInv, M!CommitText PROVE BadgesInv'
<1>1. CASE typing.typed /\ typing # M!NoEditor
  <2> DEFINE m == [kind |-> "text", at |-> <<typing.at>>, n |-> 0]
  <2>1. typing.at \in M!Tiles /\ "text" \in M!Kinds /\ "text" # "counter"
    BY <1>1 DEF PointerInv, M!Kinds
  <2>2. m \in MarkSet /\ m.kind # "counter"
    BY <2>1, OnePoint
  <2>3. M!PushAnno(m, M!UnderLive(M!Added(grid, m), temp)) /\ counter_n' = counter_n
    BY <1>1 DEF M!CommitText
  <2> HIDE DEF m
  <2> QED BY <2>2, <2>3, MarkIsPushed
<1>2. CASE ~typing.typed
  BY <1>2, ListsStay DEF M!CommitText, M!listVars
<1>3. CASE typing = M!NoEditor
  BY <1>2, <1>3 DEF M!NoEditor
<1> QED BY <1>1, <1>2, <1>3

LEMMA BadgesNext == ASSUME M!MarksAssumption, BadgesInv, PointerInv, M!Next PROVE BadgesInv'
<1>1. CASE M!PressCommits
  BY <1>1, TextIsMarked DEF M!PressCommits
<1>2. CASE M!Release
  <2>1. CASE temp # M!NoMark /\ Len(temp.at) > 1
    <3>1. temp \in MarkSet /\ temp.kind # "counter" /\ counter_n' = counter_n
      BY <1>2, <2>1 DEF PointerInv, M!Release
    <3>2. M!PushAnno(temp, M!LiveCommitted(grid))
      BY <1>2, <2>1 DEF M!Release
    <3> QED BY <3>1, <3>2, MarkIsPushed
  <2>2. CASE ~(temp # M!NoMark /\ Len(temp.at) > 1)
    BY <1>2, <2>2, ListsStay DEF M!Release, M!listVars
  <2> QED BY <2>1, <2>2
<1>3. CASE M!Escape \/ M!EditorCancel
  BY <1>3, ListsStay DEF M!Escape, M!EditorCancel
<1>4. CASE M!Undo
  BY <1>4, MarkIsUndone
<1>5. CASE M!Redo
  BY <1>5, MarkIsRedone
<1>6. ASSUME NEW i \in Presses, M!PressText(i) PROVE BadgesInv'
  BY <1>6, ListsStay DEF M!PressText
<1>7. ASSUME NEW i \in Presses, M!PressCounter(i) PROVE BadgesInv'
  <2> DEFINE m == [kind |-> "counter", at |-> <<i>>, n |-> counter_n]
  <2>1. i \in M!Tiles /\ "counter" \in M!Kinds
    BY DEF M!MarksAssumption, M!Tiles, M!Kinds
  <2>2. counter_n \in Nat
    <3>1. Len(annotations) \in Nat
      BY LenProperties DEF BadgesInv, Lists
    <3> QED BY <3>1, CountType DEF BadgesInv
  <2>3. m \in MarkSet /\ m.kind = "counter" /\ m.n = counter_n
    BY <2>1, <2>2, OnePoint
  <2>4. M!PushAnno(m, M!UnderLive(M!Added(grid, m), temp)) /\ counter_n' = counter_n + 1
    BY <1>7 DEF M!PressCounter
  <2> HIDE DEF m
  <2> QED BY <2>3, <2>4, MarkIsPushed
<1>8. ASSUME NEW t \in {"stroke", "shape"}, NEW i \in Presses, M!PressDraws(t, i) PROVE BadgesInv'
  BY <1>8, ListsStay DEF M!PressDraws
<1>9. ASSUME NEW i \in M!Tiles, M!DrawMove(i) PROVE BadgesInv'
  BY <1>9, ListsStay DEF M!DrawMove
<1>10. ASSUME NEW typed \in BOOLEAN, M!EditorInput(typed) PROVE BadgesInv'
  BY <1>10, ListsStay DEF M!EditorInput
<1>11. ASSUME NEW h \in Holes, M!MoveSelection(h) PROVE BadgesInv'
  BY <1>11, ListsStay DEF M!MoveSelection
<1> QED BY <1>1, <1>2, <1>3, <1>4, <1>5, <1>6, <1>7, <1>8, <1>9, <1>10, <1>11 DEF M!Next

LEMMA BadgesDo == ASSUME BadgesInv PROVE M!BadgesCount
<1>1. Len(annotations) \in Nat
  BY LenProperties DEF BadgesInv, Lists
<1>2. \A k \in Badges(annotations, Len(annotations)) :
        k \in 1 .. Len(annotations) /\ annotations[k].n = Cardinality(Badges(annotations, k))
  BY DEF BadgesInv, Badges, Count
<1>3. counter_n = Cardinality(Badges(annotations, Len(annotations))) + 1
  BY DEF BadgesInv, Count
<1>4. \A S : M!Cardinality(S) = Cardinality(S)
  BY DEF M!Cardinality, Cardinality, M!IsFiniteSet, IsFiniteSet
<1> QED BY <1>2, <1>3, <1>4, Zenon DEF M!BadgesCount, Badges

-----------------------------------------------------------------------------
(* What a mark paints, and what a list of them does (Marks)                  *)

Pictures == Seq(M!Kinds \X SUBSET (Nat \X Nat))

Paints(p, s, i, f) == f = [n \in 0 .. Len(s) |-> IF n = 0 THEN p ELSE M!Paint(f[n - 1], s[n], i)]

LEMMA ReachIsTiles ==
  ASSUME NEW points, NEW i, i \in M!Reach(points)
  PROVE  i \in M!Tiles
BY DEF M!Reach

LEMMA PiecesType ==
  ASSUME NEW m \in MarkSet, NEW i \in M!Tiles
  PROVE  M!Pieces(m, i) \in SUBSET (Nat \X Nat)
<1>1. m.at \in Seq(M!Tiles) /\ m.n \in Nat
  BY DEF MarkSet
<1>2. CASE m.kind = "stroke"
  BY <1>1, <1>2 DEF M!Pieces
<1>3. CASE m.kind # "stroke"
  <2>1. M!Reach(m.at) # {} => Len(m.at) \in Nat \ {0} /\ m.at[1] \in Nat /\ m.at[Len(m.at)] \in Nat
    <3> SUFFICES ASSUME M!Reach(m.at) # {}
                 PROVE  Len(m.at) \in Nat \ {0} /\ m.at[1] \in Nat /\ m.at[Len(m.at)] \in Nat
      OBVIOUS
    <3>1. DOMAIN m.at # {}
      BY DEF M!Reach
    <3>2. DOMAIN m.at = 1 .. Len(m.at) /\ Len(m.at) \in Nat
      BY <1>1, LenProperties
    <3>3. \A k \in 1 .. Len(m.at) : m.at[k] \in M!Tiles
      BY <1>1, ElementOfSeq
    <3>4. \A t \in M!Tiles : t \in Nat
      BY DEF M!Tiles
    <3>5. Len(m.at) \in Nat \ {0} /\ 1 \in 1 .. Len(m.at) /\ Len(m.at) \in 1 .. Len(m.at)
      <4>1. Len(m.at) # 0
        BY <3>1, <3>2
      <4> QED BY <3>2, <4>1
    <3> QED BY <3>3, <3>4, <3>5
  <2> QED BY <1>1, <1>3, <2>1 DEF M!Pieces, M!Last
<1> QED BY <1>2, <1>3

LEMMA PaintType ==
  ASSUME NEW p \in Pictures, NEW m \in MarkSet, NEW i \in M!Tiles
  PROVE  /\ M!Paint(p, m, i) \in Pictures
         /\ M!Paint(p, m, i) = p \/ M!Paint(p, m, i) # <<>>
         /\ M!Touches(m, i) => M!Paint(p, m, i) # <<>>
<1> DEFINE Strokes == M!Kinds \X SUBSET (Nat \X Nat)
           e == <<m.kind, M!Pieces(m, i)>>
<1>1. e \in Strokes
  BY PiecesType DEF MarkSet
<1>2. p \in Seq(Strokes)
  BY DEF Pictures
<1> HIDE DEF Strokes, e
<1>3. Append(p, e) \in Seq(Strokes) /\ Append(p, e) # <<>>
  BY <1>1, <1>2, AppendProperties
<1> QED BY <1>2, <1>3 DEF M!Paint, Pictures, Strokes, e

LEMMA NoTileIsNoPicture == M!NoTile \notin Pictures
<1> SUFFICES ASSUME M!NoTile \in Pictures PROVE FALSE
  OBVIOUS
<1> DEFINE Strokes == M!Kinds \X SUBSET (Nat \X Nat)
<1>1. M!NoTile \in Seq(Strokes) /\ Len(M!NoTile) = 1 /\ M!NoTile[1] = <<"none", {}>>
  BY DEF Pictures, M!NoTile
<1>2. <<"none", {}>> \in Strokes
  <2> DEFINE t == M!NoTile
  <2>1. t \in Seq(Strokes) /\ 1 \in 1 .. Len(t) /\ t[1] = <<"none", {}>>
    BY <1>1
  <2> HIDE DEF Strokes, t
  <2>2. t[1] \in Strokes
    BY <2>1, ElementOfSeq
  <2> QED BY <2>1, <2>2
<1> QED BY <1>2 DEF M!Kinds

LEMMA NoMarkPaintsNothing ==
  ASSUME NEW p, NEW i \in M!Tiles
  PROVE  ~M!Touches(M!NoMark, i) /\ M!Paint(p, M!NoMark, i) = p
<1>1. M!NoMark.kind = "none" /\ M!NoMark.at = <<>>
  BY DEF M!NoMark
<1>2. M!Reach(<<>>) = {}
  BY DEF M!Reach
<1>3. M!Pieces(M!NoMark, i) = {}
  BY <1>1, <1>2 DEF M!Pieces
<1> QED BY <1>3 DEF M!Touches, M!Paint

(* Painting one mark after another has a result. *)
LEMMA PaintsExists ==
  ASSUME NEW s \in Seq(MarkSet), NEW i \in M!Tiles
  PROVE  \E f : Paints(<<>>, s, i, f) /\ \A n \in 0 .. Len(s) : f[n] \in Pictures
<1> DEFINE Value(f, n) == IF n = 0 THEN <<>> ELSE M!Paint(f[n - 1], s[n], i)
           Good(k) == \E f \in [0 .. k -> Pictures] : \A n \in 0 .. k : f[n] = Value(f, n)
           S == {k \in Nat : k <= Len(s) => Good(k)}
<1>1. Len(s) \in Nat /\ \A n \in 1 .. Len(s) : s[n] \in MarkSet
  BY LenProperties, ElementOfSeq
<1>2. <<>> \in Pictures
  BY DEF Pictures
<1>3. 0 \in S
  <2> DEFINE g == [n \in 0 .. 0 |-> <<>>]
  <2>1. g \in [0 .. 0 -> Pictures] /\ \A n \in 0 .. 0 : g[n] = Value(g, n)
    BY <1>2
  <2>2. Good(0)
    <3> HIDE DEF g, Value
    <3> QED BY <2>1
  <2> QED BY <2>2
<1>4. ASSUME NEW k \in Nat, k \in S PROVE k + 1 \in S
  <2>1. SUFFICES ASSUME k + 1 <= Len(s) PROVE Good(k + 1)
    <3> HIDE DEF Good
    <3> QED OBVIOUS
  <2>2. k <= Len(s) /\ s[k + 1] \in MarkSet
    BY <1>1, <2>1
  <2>3. PICK f \in [0 .. k -> Pictures] : \A n \in 0 .. k : f[n] = Value(f, n)
    BY <1>1, <1>4, <2>2
  <2> DEFINE g == [n \in 0 .. k + 1 |-> IF n = k + 1 THEN M!Paint(f[k], s[k + 1], i) ELSE f[n]]
  <2>4. g \in [0 .. k + 1 -> Pictures]
    <3>1. M!Paint(f[k], s[k + 1], i) \in Pictures
      BY <2>2, PaintType
    <3> QED BY <3>1
  <2>5. ASSUME NEW n \in 0 .. k + 1 PROVE g[n] = Value(g, n)
    <3>1. CASE n = k + 1
      BY <3>1
    <3>2. CASE n # k + 1
      <4>1. n \in 0 .. k /\ g[n] = f[n] /\ f[n] = Value(f, n)
        BY <3>2, <2>3
      <4>2. n # 0 => n - 1 \in 0 .. k + 1 /\ n - 1 # k + 1 /\ g[n - 1] = f[n - 1]
        BY <3>2
      <4> QED BY <4>1, <4>2
    <3> QED BY <3>1, <3>2
  <2> QED
    <3> HIDE DEF g, Value
    <3> QED BY <2>4, <2>5
<1>5. Good(Len(s))
  <2> HIDE DEF Good
  <2>1. Nat \subseteq S
    <3> HIDE DEF S
    <3> QED BY <1>3, <1>4, Induct
  <2> QED BY <1>1, <2>1
<1>6. PICK f \in [0 .. Len(s) -> Pictures] : \A n \in 0 .. Len(s) : f[n] = Value(f, n)
  BY <1>5
<1>7. f = [n \in 0 .. Len(s) |-> Value(f, n)]
  BY <1>6
<1> QED BY <1>6, <1>7 DEF Paints

LEMMA DrawnDef ==
  ASSUME NEW s \in Seq(MarkSet), NEW i \in M!Tiles
  PROVE  \A n \in 0 .. Len(s) :
           /\ M!Drawn(s, i)[n] = IF n = 0 THEN <<>> ELSE M!Paint(M!Drawn(s, i)[n - 1], s[n], i)
           /\ M!Drawn(s, i)[n] \in Pictures
<1> DEFINE f == M!Drawn(s, i)
           S == {n \in Nat : n <= Len(s) => f[n] \in Pictures}
<1>1. f = CHOOSE g : Paints(<<>>, s, i, g)
  BY Zenon DEF M!Drawn, Paints
<1>2. Paints(<<>>, s, i, f)
  BY <1>1, PaintsExists
<1> HIDE DEF f
<1>3. \A n \in 0 .. Len(s) : f[n] = IF n = 0 THEN <<>> ELSE M!Paint(f[n - 1], s[n], i)
  BY <1>2, Zenon DEF Paints
<1>4. Len(s) \in Nat /\ \A n \in 1 .. Len(s) : s[n] \in MarkSet
  BY LenProperties, ElementOfSeq
<1>5. 0 \in S
  <2>1. f[0] = <<>>
    BY <1>3, <1>4
  <2>2. <<>> \in Pictures
    BY DEF Pictures
  <2> QED BY <2>1, <2>2
<1>6. ASSUME NEW n \in Nat, n \in S PROVE n + 1 \in S
  <2>1. SUFFICES ASSUME n + 1 <= Len(s) PROVE f[n + 1] \in Pictures
    OBVIOUS
  <2>2. n + 1 \in 0 .. Len(s) /\ n + 1 # 0 /\ n + 1 - 1 = n /\ n + 1 \in 1 .. Len(s)
    BY <1>4, <2>1
  <2>3. f[n + 1] = M!Paint(f[n], s[n + 1], i)
    BY <1>3, <2>2
  <2>4. f[n] \in Pictures /\ s[n + 1] \in MarkSet
    BY <1>4, <1>6, <2>1, <2>2
  <2> QED BY <2>3, <2>4, PaintType
<1>7. Nat \subseteq S
  <2> HIDE DEF S
  <2> QED BY <1>5, <1>6, Induct
<1>8. \A n \in 0 .. Len(s) : f[n] \in Pictures
  BY <1>4, <1>7
<1> QED BY <1>3, <1>8 DEF f

LEMMA DrawnAlike ==
  ASSUME NEW s \in Seq(MarkSet), NEW t \in Seq(MarkSet), NEW i \in M!Tiles, Len(s) <= Len(t),
         \A j \in 1 .. Len(s) : t[j] = s[j]
  PROVE  M!Drawn(t, i)[Len(s)] = M!Drawn(s, i)[Len(s)]
<1> DEFINE f == M!Drawn(s, i)
           g == M!Drawn(t, i)
           S == {n \in Nat : n <= Len(s) => g[n] = f[n]}
<1>1. \A n \in 0 .. Len(s) : f[n] = IF n = 0 THEN <<>> ELSE M!Paint(f[n - 1], s[n], i)
  <2> HIDE DEF f
  <2> QED BY DrawnDef DEF f
<1>2. \A n \in 0 .. Len(t) : g[n] = IF n = 0 THEN <<>> ELSE M!Paint(g[n - 1], t[n], i)
  <2> HIDE DEF g
  <2> QED BY DrawnDef DEF g
<1>3. Len(s) \in Nat /\ Len(t) \in Nat
  BY LenProperties
<1> HIDE DEF f, g
<1>4. 0 \in S
  BY <1>1, <1>2, <1>3
<1>5. ASSUME NEW n \in Nat, n \in S PROVE n + 1 \in S
  <2>1. SUFFICES ASSUME n + 1 <= Len(s) PROVE g[n + 1] = f[n + 1]
    OBVIOUS
  <2>2. n + 1 \in 0 .. Len(s) /\ n + 1 \in 0 .. Len(t) /\ n + 1 # 0 /\ n + 1 - 1 = n /\ n + 1 \in 1 .. Len(s)
    BY <1>3, <2>1
  <2>3. f[n + 1] = M!Paint(f[n], s[n + 1], i) /\ g[n + 1] = M!Paint(g[n], t[n + 1], i)
    BY <1>1, <1>2, <2>2
  <2>4. g[n] = f[n] /\ t[n + 1] = s[n + 1]
    BY <1>3, <1>5, <2>1, <2>2
  <2> QED BY <2>3, <2>4
<1>6. Nat \subseteq S
  <2> HIDE DEF S
  <2> QED BY <1>4, <1>5, Induct
<1> QED BY <1>3, <1>6 DEF f, g

LEMMA BurnNext ==
  ASSUME NEW s \in Seq(MarkSet), NEW m \in MarkSet, NEW i \in M!Tiles
  PROVE  /\ M!Burn(s, i) \in Pictures
         /\ M!Burn(Append(s, m), i) = M!Paint(M!Burn(s, i), m, i)
         /\ M!Burn(<<>>, i) = <<>>
<1> DEFINE t == Append(s, m)
<1>1. t \in Seq(MarkSet) /\ Len(s) \in Nat /\ Len(t) = Len(s) + 1 /\ t[Len(s) + 1] = m /\ \A j \in 1 .. Len(s) : t[j] = s[j]
  BY AppendProperties, LenProperties
<1> HIDE DEF t
<1>2. M!Drawn(t, i)[Len(s) + 1] = M!Paint(M!Drawn(t, i)[Len(s)], m, i)
  <2>1. Len(s) + 1 \in 0 .. Len(t) /\ Len(s) + 1 # 0 /\ Len(s) + 1 - 1 = Len(s)
    BY <1>1
  <2>2. M!Drawn(t, i)[Len(s) + 1] =
          IF Len(s) + 1 = 0 THEN <<>> ELSE M!Paint(M!Drawn(t, i)[Len(s) + 1 - 1], t[Len(s) + 1], i)
    BY <1>1, <2>1, DrawnDef
  <2> QED BY <1>1, <2>1, <2>2
<1>3. M!Drawn(t, i)[Len(s)] = M!Drawn(s, i)[Len(s)]
  BY <1>1, DrawnAlike
<1>4. M!Drawn(s, i)[Len(s)] \in Pictures
  BY <1>1, DrawnDef
<1>5. M!Drawn(<<>>, i)[Len(<<>>)] = <<>>
  <2>1. <<>> \in Seq(MarkSet) /\ Len(<<>>) = 0 /\ 0 \in 0 .. 0
    OBVIOUS
  <2>2. M!Drawn(<<>>, i)[0] = IF 0 = 0 THEN <<>> ELSE M!Paint(M!Drawn(<<>>, i)[0 - 1], <<>>[0], i)
    BY <2>1, DrawnDef
  <2> QED BY <2>1, <2>2
<1> QED BY <1>1, <1>2, <1>3, <1>4, <1>5 DEF M!Burn, t

(* Where points i to j of a list of tiles reach. *)
LEMMA ReachOfSome ==
  ASSUME NEW s \in Seq(M!Tiles), NEW a \in Nat \ {0}, NEW b \in Nat, b <= Len(s), NEW i \in M!Tiles
  PROVE  i \in M!Reach(SubSeq(s, a, b)) <=> \E x, y \in a .. b : s[x] <= i /\ i <= s[y]
<1> DEFINE t == SubSeq(s, a, b)
<1>1. \A x \in a .. b : s[x] \in M!Tiles
  BY ElementOfSeq, LenProperties
<1>2. /\ t \in Seq(M!Tiles) /\ Len(t) = IF a <= b THEN b - a + 1 ELSE 0
      /\ \A x \in 1 .. b - a + 1 : t[x] = s[a + x - 1]
  BY <1>1, SubSeqProperties
<1>3. DOMAIN t = 1 .. Len(t)
  BY <1>2, LenProperties
<1> HIDE DEF t
<1>4. i \in M!Reach(t) <=> \E x, y \in 1 .. Len(t) : t[x] <= i /\ i <= t[y]
  BY <1>3 DEF M!Reach
<1>5. ASSUME NEW x \in 1 .. Len(t) PROVE a + x - 1 \in a .. b /\ t[x] = s[a + x - 1]
  BY <1>2
<1>6. ASSUME NEW x \in a .. b PROVE x - a + 1 \in 1 .. Len(t) /\ t[x - a + 1] = s[x]
  <2>1. x - a + 1 \in 1 .. b - a + 1 /\ a + (x - a + 1) - 1 = x /\ Len(t) = b - a + 1
    BY <1>2
  <2> QED BY <1>2, <2>1
<1>7. (\E x, y \in 1 .. Len(t) : t[x] <= i /\ i <= t[y]) => \E x, y \in a .. b : s[x] <= i /\ i <= s[y]
  BY <1>5
<1>8. (\E x, y \in a .. b : s[x] <= i /\ i <= s[y]) => \E x, y \in 1 .. Len(t) : t[x] <= i /\ i <= t[y]
  BY <1>6
<1> QED BY <1>4, <1>7, <1>8 DEF t

(* The pieces of a stroke at its points. *)
LEMMA PiecesOfStroke ==
  ASSUME NEW m \in MarkSet, m.kind = "stroke", NEW i \in M!Tiles, NEW k \in 2 .. Len(m.at)
  PROVE  i \in M!Reach(M!Around(m.at, k)) <=>
           \E x, y \in k - 1 .. (IF k < Len(m.at) THEN k + 1 ELSE k) : m.at[x] <= i /\ i <= m.at[y]
<1> DEFINE b == IF k < Len(m.at) THEN k + 1 ELSE k
<1>1. m.at \in Seq(M!Tiles) /\ Len(m.at) \in Nat
  BY LenProperties DEF MarkSet
<1>2. k - 1 \in Nat \ {0} /\ b \in Nat /\ b <= Len(m.at)
  BY <1>1
<1>3. M!Around(m.at, k) = SubSeq(m.at, k - 1, b)
  BY DEF M!Around
<1> HIDE DEF b
<1>4. i \in M!Reach(SubSeq(m.at, k - 1, b)) <=> \E x, y \in k - 1 .. b : m.at[x] <= i /\ i <= m.at[y]
  BY <1>1, <1>2, ReachOfSome
<1> QED BY <1>3, <1>4 DEF b

LEMMA TouchInReach ==
  ASSUME NEW m \in MarkSet, NEW i \in M!Tiles, M!Touches(m, i)
  PROVE  i \in M!Reach(m.at)
<1>1. m.at \in Seq(M!Tiles) /\ Len(m.at) \in Nat /\ DOMAIN m.at = 1 .. Len(m.at)
  BY LenProperties DEF MarkSet
<1>2. CASE m.kind = "stroke"
  <2>1. PICK k \in 2 .. Len(m.at) : i \in M!Reach(M!Around(m.at, k))
    BY <1>2 DEF M!Touches, M!Pieces
  <2>2. PICK x \in k - 1 .. (IF k < Len(m.at) THEN k + 1 ELSE k),
             y \in k - 1 .. (IF k < Len(m.at) THEN k + 1 ELSE k) : m.at[x] <= i /\ i <= m.at[y]
    BY <1>2, <2>1, PiecesOfStroke
  <2>3. x \in DOMAIN m.at /\ y \in DOMAIN m.at
    BY <1>1, <2>1, <2>2
  <2> QED BY <2>2, <2>3 DEF M!Reach
<1>3. CASE m.kind # "stroke"
  BY <1>3 DEF M!Touches, M!Pieces
<1> QED BY <1>2, <1>3

(* A stroke that gets a point keeps its pieces but for the last two.         *)
LEMMA StrokeGrows ==
  ASSUME NEW m \in MarkSet, m.kind = "stroke", Len(m.at) >= 1, NEW p \in M!Tiles, NEW i \in M!Tiles,
         i \notin M!Reach(SubSeq(Append(m.at, p), M!Max({1, Len(m.at) - 1}), Len(m.at) + 1))
  PROVE  M!Pieces([m EXCEPT !.at = Append(@, p)], i) = M!Pieces(m, i)
<1> DEFINE n == Len(m.at)
           at == Append(m.at, p)
           new == [m EXCEPT !.at = Append(@, p)]
           a == IF n = 1 THEN 1 ELSE n - 1
           Kept == {<<k, 0>> : k \in {k \in 2 .. n - 1 : i \in M!Reach(M!Around(m.at, k))}}
<1>1. m.at \in Seq(M!Tiles) /\ n \in Nat \ {0}
  BY LenProperties DEF MarkSet
<1>2. at \in Seq(M!Tiles) /\ Len(at) = n + 1 /\ at[n + 1] = p /\ \A x \in 1 .. n : at[x] = m.at[x]
  BY <1>1, AppendProperties, LenProperties
<1>3. new \in MarkSet /\ new.kind = "stroke" /\ new.at = at
  BY <1>2 DEF MarkSet
<1>4. M!Max({1, n - 1}) = a /\ a \in Nat \ {0} /\ a <= n
  <2>1. \A c \in Nat : c > 1 => M!Max({1, c}) = c
    BY DEF M!Max
  <2>2. \A c \in {0, 1} : M!Max({1, c}) = 1
    BY DEF M!Max
  <2> DEFINE c == n - 1
  <2>3. c \in Nat /\ n = c + 1
    BY <1>1
  <2> HIDE DEF c, n
  <2>4. M!Max({1, c}) = IF c > 1 THEN c ELSE 1
    <3>1. CASE c > 1
      BY <2>1, <2>3, <3>1
    <3>2. CASE ~(c > 1)
      <4>1. c \in {0, 1}
        BY <2>3, <3>2
      <4> HIDE DEF c
      <4>2. M!Max({1, c}) = 1
        BY <2>2, <4>1
      <4> QED BY <3>2, <4>2
    <3> QED BY <3>1, <3>2
  <2>6. (IF c > 1 THEN c ELSE 1) = a
    BY <2>3
  <2>5. a \in Nat \ {0} /\ a <= n
    BY <2>3
  <2> QED BY <2>4, <2>5, <2>6 DEF c
<1> HIDE DEF at, new, n
<1>5. ~ \E x, y \in a .. n + 1 : at[x] <= i /\ i <= at[y]
  <2>1. i \notin M!Reach(SubSeq(at, a, n + 1))
    BY <1>4 DEF at, n
  <2>2. n + 1 \in Nat /\ n + 1 <= Len(at)
    BY <1>1, <1>2
  <2> HIDE DEF a
  <2> QED BY <1>2, <1>4, <2>1, <2>2, ReachOfSome
<1>6. ASSUME NEW k \in 2 .. n - 1
      PROVE  i \in M!Reach(M!Around(at, k)) <=> i \in M!Reach(M!Around(m.at, k))
  <2>1. /\ i \in M!Reach(M!Around(at, k)) <=> \E x, y \in k - 1 .. k + 1 : at[x] <= i /\ i <= at[y]
        /\ i \in M!Reach(M!Around(m.at, k)) <=> \E x, y \in k - 1 .. k + 1 : m.at[x] <= i /\ i <= m.at[y]
    <3>1. k \in 2 .. Len(new.at) /\ k \in 2 .. Len(m.at) /\ k < Len(new.at) /\ k < Len(m.at)
      BY <1>1, <1>2, <1>3 DEF n
    <3> QED BY <1>3, <3>1, PiecesOfStroke
  <2>2. \A x \in k - 1 .. k + 1 : at[x] = m.at[x]
    BY <1>1, <1>2
  <2> QED BY <2>1, <2>2
<1>7. ASSUME NEW k \in {n, n + 1}, k >= 2
      PROVE  i \notin M!Reach(M!Around(at, k))
  <2>1. k \in 2 .. Len(new.at)
    BY <1>1, <1>2, <1>3, <1>7
  <2>2. i \in M!Reach(M!Around(at, k)) <=>
          \E x, y \in k - 1 .. (IF k < Len(at) THEN k + 1 ELSE k) : at[x] <= i /\ i <= at[y]
    BY <1>3, <2>1, PiecesOfStroke
  <2>3. \A x \in k - 1 .. (IF k < Len(at) THEN k + 1 ELSE k) : x \in a .. n + 1
    BY <1>1, <1>2, <1>7
  <2> QED BY <1>5, <2>2, <2>3
<1>8. n >= 2 => i \notin M!Reach(M!Around(m.at, n))
  <2> SUFFICES ASSUME n >= 2 PROVE i \notin M!Reach(M!Around(m.at, n))
    OBVIOUS
  <2>1. i \in M!Reach(M!Around(m.at, n)) <=> \E x, y \in n - 1 .. n : m.at[x] <= i /\ i <= m.at[y]
    <3>1. n \in 2 .. Len(m.at) /\ ~(n < Len(m.at))
      BY <1>1 DEF n
    <3> QED BY <3>1, PiecesOfStroke
  <2>2. \A x \in n - 1 .. n : x \in a .. n + 1 /\ at[x] = m.at[x]
    BY <1>1, <1>2
  <2> QED BY <1>5, <2>1, <2>2
<1>9. M!Pieces(m, i) = Kept
  <2>1. M!Pieces(m, i) = {<<k, IF k = n THEN 1 ELSE 0>> : k \in {k \in 2 .. n : i \in M!Reach(M!Around(m.at, k))}}
    BY DEF M!Pieces, n
  <2>2. {k \in 2 .. n : i \in M!Reach(M!Around(m.at, k))} = {k \in 2 .. n - 1 : i \in M!Reach(M!Around(m.at, k))}
    BY <1>1, <1>8
  <2> QED BY <1>1, <2>1, <2>2
<1>10. M!Pieces(new, i) = Kept
  <2>1. M!Pieces(new, i) =
          {<<k, IF k = n + 1 THEN 1 ELSE 0>> : k \in {k \in 2 .. n + 1 : i \in M!Reach(M!Around(at, k))}}
    BY <1>2, <1>3 DEF M!Pieces
  <2>2. {k \in 2 .. n + 1 : i \in M!Reach(M!Around(at, k))} = {k \in 2 .. n - 1 : i \in M!Reach(M!Around(m.at, k))}
    BY <1>1, <1>6, <1>7
  <2> QED BY <1>1, <2>1, <2>2
<1> QED BY <1>9, <1>10 DEF new

-----------------------------------------------------------------------------
(* The tiles (Marks)                                                         *)

Tile == Pictures \cup {M!NoTile}
Grids == [base : [M!Tiles -> Tile], display : [M!Tiles -> Tile], live : SUBSET M!Tiles, changed : SUBSET M!Tiles]

(* The bases hold the list, and a tile that no mark reached is not there.    *)
Fits(g, marks) ==
  \A i \in M!Tiles : M!BaseOf(g, i) = M!Burn(marks, i) /\ (g.base[i] = M!NoTile => g.display[i] = M!NoTile)

LiveExists(g) == \A i \in g.live : g.base[i] # M!NoTile
Flat(g) == \A i \in M!Tiles \ g.live : g.base[i] # M!NoTile => g.display[i] = g.base[i]

(* The bases hold the list; what the live tiles show is still to be painted. *)
Loose(g, marks) == g \in Grids /\ Fits(g, marks) /\ LiveExists(g) /\ Flat(g)

Touched(g, m) == (\A i \in M!Tiles : M!Touches(m, i) => i \in g.live) /\ (m = M!NoMark => g.live = {})
Shown(g, m) == \A i \in M!Tiles : g.base[i] # M!NoTile => g.display[i] = M!Paint(g.base[i], m, i)

(* The tiles show the list and, over it, the mark under the pointer.         *)
Settled(g, marks, m) == g \in Grids /\ Fits(g, marks) /\ LiveExists(g) /\ Touched(g, m) /\ Shown(g, m)

(* What h shows otherwise than g, it says to have changed. *)
Told(g, h) == g.changed \subseteq h.changed /\ \A i \in M!Tiles \ h.changed : h.display[i] = g.display[i]

LEMMA BaseOfType ==
  ASSUME NEW g \in Grids, NEW i \in M!Tiles
  PROVE  /\ M!BaseOf(g, i) \in Pictures /\ M!BaseOf(g, i) # M!NoTile
         /\ g.base[i] # M!NoTile => M!BaseOf(g, i) = g.base[i]
         /\ g.base[i] = M!NoTile => M!BaseOf(g, i) = <<>>
<1>1. <<>> \in Pictures
  BY DEF Pictures
<1>2. M!BaseOf(g, i) \in Pictures
  BY <1>1 DEF M!BaseOf, M!Exists, Grids, Tile
<1> QED BY <1>2, NoTileIsNoPicture DEF M!BaseOf, M!Exists

LEMMA PaintLiveIs ==
  ASSUME NEW g \in Grids, NEW m \in MarkSet, NEW area \in SUBSET M!Tiles
  PROVE  LET p == M!PaintLive(g, m, area)
         IN  /\ p \in Grids /\ p.live = g.live /\ p.changed = g.changed \cup area
             /\ \A i \in M!Tiles :
                  /\ p.base[i] = IF i \in area THEN M!BaseOf(g, i) ELSE g.base[i]
                  /\ p.display[i] = IF i \in area THEN M!Paint(M!BaseOf(g, i), m, i) ELSE g.display[i]
<1> DEFINE p == M!PaintLive(g, m, area)
           base == [i \in M!Tiles |-> IF i \in area THEN M!BaseOf(g, i) ELSE g.base[i]]
           display == [i \in M!Tiles |-> IF i \in area THEN M!Paint(M!BaseOf(g, i), m, i) ELSE g.display[i]]
<1>1. /\ base = M!Over(area, [i \in M!Tiles |-> M!BaseOf(g, i)], g.base)
      /\ display = M!Over(area, [i \in M!Tiles |-> M!Paint(M!BaseOf(g, i), m, i)], g.display)
  BY DEF M!Over
<1>2. p = [g EXCEPT !.base = base, !.display = display, !.changed = g.changed \cup area]
  BY <1>1, Zenon DEF M!PaintLive
<1>3. \A i \in M!Tiles : M!BaseOf(g, i) \in Tile /\ M!Paint(M!BaseOf(g, i), m, i) \in Tile
  BY BaseOfType, PaintType DEF Tile
<1>4. base \in [M!Tiles -> Tile] /\ display \in [M!Tiles -> Tile]
  BY <1>3 DEF Grids
<1> HIDE DEF p
<1>5. p \in Grids /\ p.live = g.live /\ p.changed = g.changed \cup area /\ p.base = base /\ p.display = display
  <2> HIDE DEF base, display
  <2> QED BY <1>2, <1>4 DEF Grids
<1> QED BY <1>5 DEF p

LEMMA LiveChangedIs ==
  ASSUME NEW g \in Grids, NEW m \in MarkSet
  PROVE  LET p == M!LiveChanged(g, m)
         IN  /\ p \in Grids
             /\ p.live = {i \in M!Tiles : M!Touches(m, i)} /\ g.changed \subseteq p.changed
             /\ \A i \in M!Tiles :
                  /\ p.base[i] = IF M!Touches(m, i) THEN M!BaseOf(g, i) ELSE g.base[i]
                  /\ p.display[i] = IF M!Touches(m, i) THEN M!Paint(M!BaseOf(g, i), m, i)
                                    ELSE IF i \in g.live /\ g.base[i] # M!NoTile THEN g.base[i] ELSE g.display[i]
                  /\ i \notin p.changed => p.display[i] = g.display[i]
<1> DEFINE p == M!LiveChanged(g, m)
           now == {i \in M!Tiles : M!Touches(m, i)}
           gone == {i \in g.live \ now : M!Exists(g, i)}
           painted == M!PaintLive(g, m, now)
           display == [i \in M!Tiles |-> IF i \in gone THEN painted.base[i] ELSE painted.display[i]]
<1>1. now = {i \in M!Reach(m.at) : M!Touches(m, i)}
  BY TouchInReach, ReachIsTiles
<1>2. /\ painted \in Grids /\ painted.live = g.live /\ painted.changed = g.changed \cup now
      /\ \A i \in M!Tiles :
           /\ painted.base[i] = IF i \in now THEN M!BaseOf(g, i) ELSE g.base[i]
           /\ painted.display[i] = IF i \in now THEN M!Paint(M!BaseOf(g, i), m, i) ELSE g.display[i]
  <2>1. now \in SUBSET M!Tiles
    OBVIOUS
  <2> HIDE DEF now
  <2> QED BY <2>1, PaintLiveIs
<1>3. display = M!Over(gone, painted.base, painted.display)
  BY DEF M!Over
<1>4. p = [painted EXCEPT !.display = display, !.changed = painted.changed \cup gone, !.live = now]
  BY <1>1, <1>3, Zenon DEF M!LiveChanged
<1>5. display \in [M!Tiles -> Tile] /\ now \in SUBSET M!Tiles /\ gone \in SUBSET M!Tiles
  <2>1. painted.base \in [M!Tiles -> Tile] /\ painted.display \in [M!Tiles -> Tile]
    BY <1>2 DEF Grids
  <2>2. g.live \in SUBSET M!Tiles
    BY DEF Grids
  <2> HIDE DEF painted
  <2> QED BY <2>1, <2>2
<1>6. /\ p \in Grids /\ p.live = now /\ p.changed = painted.changed \cup gone
      /\ p.base = painted.base /\ p.display = display
  <2> HIDE DEF p, painted, display, now, gone
  <2> QED BY <1>2, <1>4, <1>5 DEF Grids
<1>7. ASSUME NEW i \in M!Tiles
      PROVE  /\ i \in now <=> M!Touches(m, i)
             /\ i \in gone <=> i \notin now /\ i \in g.live /\ g.base[i] # M!NoTile
             /\ display[i] = IF i \in gone THEN painted.base[i] ELSE painted.display[i]
  BY DEF M!Exists
<1> HIDE DEF p, painted, display, now, gone
<1>8. ASSUME NEW i \in M!Tiles
      PROVE  /\ p.base[i] = IF M!Touches(m, i) THEN M!BaseOf(g, i) ELSE g.base[i]
             /\ p.display[i] = IF M!Touches(m, i) THEN M!Paint(M!BaseOf(g, i), m, i)
                               ELSE IF i \in g.live /\ g.base[i] # M!NoTile THEN g.base[i] ELSE g.display[i]
             /\ i \notin p.changed => p.display[i] = g.display[i]
  BY <1>2, <1>6, <1>7
<1> QED BY <1>2, <1>6, <1>8 DEF p, now

LEMMA LiveChangedSettles ==
  ASSUME NEW g, NEW marks, Loose(g, marks), NEW m \in MarkSet
  PROVE  Settled(M!LiveChanged(g, m), marks, m) /\ Told(g, M!LiveChanged(g, m))
<1> DEFINE p == M!LiveChanged(g, m)
<1>1. g \in Grids /\ Fits(g, marks) /\ LiveExists(g) /\ Flat(g)
  BY DEF Loose
<1>2. /\ p \in Grids /\ p.live = {i \in M!Tiles : M!Touches(m, i)} /\ g.changed \subseteq p.changed
      /\ \A i \in M!Tiles :
           /\ p.base[i] = IF M!Touches(m, i) THEN M!BaseOf(g, i) ELSE g.base[i]
           /\ p.display[i] = IF M!Touches(m, i) THEN M!Paint(M!BaseOf(g, i), m, i)
                             ELSE IF i \in g.live /\ g.base[i] # M!NoTile THEN g.base[i] ELSE g.display[i]
           /\ i \notin p.changed => p.display[i] = g.display[i]
  BY <1>1, LiveChangedIs
<1> HIDE DEF p
<1>3. m # M!NoMark
  BY DEF MarkSet, M!NoMark, M!Kinds
<1>4. \A i \in M!Tiles : ~M!Touches(m, i) => \A b : M!Paint(b, m, i) = b
  BY DEF M!Paint
<1>5. ASSUME NEW i \in M!Tiles
      PROVE  /\ M!BaseOf(p, i) = M!BaseOf(g, i)
             /\ p.base[i] = M!NoTile => p.display[i] = M!NoTile
             /\ p.base[i] # M!NoTile => p.display[i] = M!Paint(p.base[i], m, i)
  <2>1. M!BaseOf(g, i) # M!NoTile /\ (g.base[i] = M!NoTile => g.display[i] = M!NoTile)
    BY <1>1, BaseOfType DEF Fits
  <2>2. CASE M!Touches(m, i)
    <3>1. p.base[i] = M!BaseOf(g, i) /\ p.display[i] = M!Paint(M!BaseOf(g, i), m, i)
      BY <1>2, <2>2
    <3> QED BY <2>1, <3>1 DEF M!BaseOf, M!Exists
  <2>3. CASE ~M!Touches(m, i)
    <3>1. /\ p.base[i] = g.base[i]
          /\ p.display[i] = IF i \in g.live /\ g.base[i] # M!NoTile THEN g.base[i] ELSE g.display[i]
      BY <1>2, <2>3
    <3>2. i \notin g.live /\ g.base[i] # M!NoTile => g.display[i] = g.base[i]
      BY <1>1 DEF Flat
    <3> QED BY <1>4, <2>1, <2>3, <3>1, <3>2 DEF M!BaseOf, M!Exists
  <2> QED BY <2>2, <2>3
<1>6. Fits(p, marks)
  BY <1>1, <1>5 DEF Fits
<1>7. LiveExists(p)
  <2>1. ASSUME NEW i \in p.live PROVE p.base[i] # M!NoTile
    BY <1>1, <1>2, BaseOfType
  <2> QED BY <2>1 DEF LiveExists
<1>8. Touched(p, m) /\ Shown(p, m)
  BY <1>2, <1>3, <1>5 DEF Touched, Shown
<1>9. Told(g, p)
  BY <1>2 DEF Told
<1> QED BY <1>2, <1>6, <1>7, <1>8, <1>9 DEF Settled, p

LEMMA SettledIsLoose ==
  ASSUME NEW g, NEW marks, NEW m, Settled(g, marks, m)
  PROVE  Loose(g, marks)
<1>1. ASSUME NEW i \in M!Tiles \ g.live, g.base[i] # M!NoTile PROVE g.display[i] = g.base[i]
  <2>1. ~M!Touches(m, i) /\ g.display[i] = M!Paint(g.base[i], m, i)
    BY <1>1 DEF Settled, Touched, Shown
  <2> QED BY <2>1 DEF M!Paint
<1> QED BY <1>1 DEF Settled, Loose, Flat

LEMMA UnderLiveSettles ==
  ASSUME NEW g, NEW marks, Loose(g, marks), NEW m \in MarkSet \cup {M!NoMark}, m = M!NoMark => g.live = {}
  PROVE  Settled(M!UnderLive(g, m), marks, m) /\ Told(g, M!UnderLive(g, m))
<1>1. CASE m = M!NoMark
  <2>1. \A i \in M!Tiles : ~M!Touches(m, i) /\ \A b : M!Paint(b, m, i) = b
    BY <1>1, NoMarkPaintsNothing
  <2>2. M!UnderLive(g, m) = g
    BY <1>1 DEF M!UnderLive
  <2>3. Touched(g, m) /\ Shown(g, m)
    BY <1>1, <2>1 DEF Touched, Shown, Loose, Flat
  <2> QED BY <2>2, <2>3 DEF Loose, Settled, Told
<1>2. CASE m # M!NoMark
  <2>1. m \in MarkSet /\ M!UnderLive(g, m) = M!LiveChanged(g, m)
    BY <1>2 DEF M!UnderLive
  <2> QED BY <2>1, LiveChangedSettles
<1> QED BY <1>1, <1>2

LEMMA AddedIsLoose ==
  ASSUME NEW g, NEW marks \in Seq(MarkSet), Loose(g, marks), NEW m \in MarkSet
  PROVE  LET p == M!Added(g, m)
         IN  Loose(p, Append(marks, m)) /\ Told(g, p) /\ p.live = g.live
<1> DEFINE p == M!Added(g, m)
           area == {i \in M!Tiles : M!Touches(m, i)}
           base == [i \in M!Tiles |-> IF i \in area THEN M!Paint(M!BaseOf(g, i), m, i) ELSE g.base[i]]
           display == [i \in M!Tiles |-> IF i \in area THEN base[i] ELSE g.display[i]]
<1>1. g \in Grids /\ Fits(g, marks) /\ LiveExists(g) /\ Flat(g)
  BY DEF Loose
<1>2. area = {i \in M!Reach(m.at) : M!Touches(m, i)}
  BY TouchInReach, ReachIsTiles
<1>3. /\ base = M!Over(area, [i \in M!Tiles |-> M!Paint(M!BaseOf(g, i), m, i)], g.base)
      /\ display = M!Over(area, base, g.display)
  BY DEF M!Over
<1>4. p = [g EXCEPT !.base = base, !.display = display, !.changed = g.changed \cup area]
  BY <1>2, <1>3, Zenon DEF M!Added
<1>5. \A i \in M!Tiles : M!Paint(M!BaseOf(g, i), m, i) \in Pictures
  BY <1>1, BaseOfType, PaintType
<1>6. base \in [M!Tiles -> Tile] /\ display \in [M!Tiles -> Tile]
  <2>1. \A i \in M!Tiles : g.base[i] \in Tile /\ g.display[i] \in Tile
    BY <1>1 DEF Grids
  <2>2. \A i \in M!Tiles : base[i] \in Tile
    BY <1>5, <2>1 DEF Tile
  <2> QED BY <2>1, <2>2
<1>7. /\ p \in Grids /\ p.live = g.live /\ p.changed = g.changed \cup area /\ p.base = base /\ p.display = display
  <2> HIDE DEF p, base, display
  <2> QED BY <1>1, <1>4, <1>6 DEF Grids
<1>8. ASSUME NEW i \in M!Tiles
      PROVE  /\ p.base[i] = IF M!Touches(m, i) THEN M!Paint(M!BaseOf(g, i), m, i) ELSE g.base[i]
             /\ p.display[i] = IF M!Touches(m, i) THEN p.base[i] ELSE g.display[i]
             /\ i \in p.changed <=> i \in g.changed \/ M!Touches(m, i)
  <2> HIDE DEF p
  <2> QED BY <1>7
<1> HIDE DEF p, base, display, area
<1>9. ASSUME NEW i \in M!Tiles
      PROVE  /\ M!BaseOf(p, i) = M!Burn(Append(marks, m), i)
             /\ p.base[i] = M!NoTile => p.display[i] = M!NoTile
             /\ g.base[i] # M!NoTile => p.base[i] # M!NoTile
             /\ i \notin g.live /\ p.base[i] # M!NoTile => p.display[i] = p.base[i]
  <2>1. M!BaseOf(g, i) = M!Burn(marks, i) /\ (g.base[i] = M!NoTile => g.display[i] = M!NoTile)
    BY <1>1 DEF Fits
  <2>2. M!Burn(Append(marks, m), i) = M!Paint(M!BaseOf(g, i), m, i)
    BY <2>1, BurnNext
  <2>3. M!Paint(M!BaseOf(g, i), m, i) # M!NoTile
    BY <1>5, NoTileIsNoPicture
  <2>4. CASE M!Touches(m, i)
    BY <1>8, <2>2, <2>3, <2>4 DEF M!BaseOf, M!Exists
  <2>5. CASE ~M!Touches(m, i)
    <3>1. M!Paint(M!BaseOf(g, i), m, i) = M!BaseOf(g, i)
      BY <2>5 DEF M!Paint
    <3>2. p.base[i] = g.base[i] /\ p.display[i] = g.display[i]
      BY <1>8, <2>5
    <3>3. i \notin g.live /\ g.base[i] # M!NoTile => g.display[i] = g.base[i]
      BY <1>1 DEF Flat
    <3> QED BY <2>1, <2>2, <3>1, <3>2, <3>3 DEF M!BaseOf, M!Exists
  <2> QED BY <2>4, <2>5
<1>10. Fits(p, Append(marks, m))
  BY <1>9 DEF Fits
<1>11. LiveExists(p)
  <2>1. \A i \in g.live : i \in M!Tiles
    BY <1>1 DEF Grids
  <2> QED BY <1>1, <1>7, <1>9, <2>1 DEF LiveExists
<1>12. Flat(p)
  BY <1>7, <1>9 DEF Flat
<1>13. Told(g, p)
  <2>1. g.changed \subseteq p.changed
    BY <1>7
  <2>2. ASSUME NEW i \in M!Tiles \ p.changed PROVE p.display[i] = g.display[i]
    BY <1>8
  <2> QED BY <2>1, <2>2 DEF Told
<1> QED BY <1>7, <1>10, <1>11, <1>12, <1>13 DEF Loose, p

(* Undoing repaints no more than where the mark reached.                     *)
LEMMA RebuildIsLoose ==
  ASSUME NEW g, NEW marks \in Seq(MarkSet), NEW m \in MarkSet, Loose(g, Append(marks, m))
  PROVE  LET p == M!Rebuild(g, M!Reach(m.at), marks)
         IN  Loose(p, marks) /\ Told(g, p) /\ p.live = g.live
<1> DEFINE p == M!Rebuild(g, M!Reach(m.at), marks)
           old == {i \in M!Reach(m.at) : M!Exists(g, i)}
           base == [i \in M!Tiles |-> IF i \in old THEN M!Burn(marks, i) ELSE g.base[i]]
           display == [i \in M!Tiles |-> IF i \in old THEN base[i] ELSE g.display[i]]
<1>1. g \in Grids /\ Fits(g, Append(marks, m)) /\ LiveExists(g) /\ Flat(g)
  BY DEF Loose
<1>2. base = M!Over(old, [i \in M!Tiles |-> M!Burn(marks, i)], g.base) /\ display = M!Over(old, base, g.display)
  BY DEF M!Over
<1>3. p = [g EXCEPT !.base = base, !.display = display, !.changed = g.changed \cup old]
  BY <1>2, Zenon DEF M!Rebuild
<1>4. \A i \in M!Tiles : M!Burn(marks, i) \in Pictures
  BY BurnNext
<1>5. base \in [M!Tiles -> Tile] /\ display \in [M!Tiles -> Tile] /\ old \in SUBSET M!Tiles
  <2>1. \A i \in M!Tiles : g.base[i] \in Tile /\ g.display[i] \in Tile
    BY <1>1 DEF Grids
  <2>2. \A i \in M!Tiles : base[i] \in Tile
    BY <1>4, <2>1 DEF Tile
  <2> QED BY <2>1, <2>2, ReachIsTiles
<1>6. p \in Grids /\ p.live = g.live /\ p.changed = g.changed \cup old /\ p.base = base /\ p.display = display
  <2> HIDE DEF p, base, display, old
  <2> QED BY <1>1, <1>3, <1>5 DEF Grids
<1>7. ASSUME NEW i \in M!Tiles
      PROVE  /\ p.base[i] = IF i \in old THEN M!Burn(marks, i) ELSE g.base[i]
             /\ p.display[i] = IF i \in old THEN p.base[i] ELSE g.display[i]
             /\ i \in old <=> i \in M!Reach(m.at) /\ g.base[i] # M!NoTile
  <2> HIDE DEF p
  <2> QED BY <1>6 DEF M!Exists
<1> HIDE DEF p, base, display, old
<1>8. ASSUME NEW i \in M!Tiles
      PROVE  /\ M!BaseOf(p, i) = M!Burn(marks, i)
             /\ p.base[i] = M!NoTile => p.display[i] = M!NoTile
             /\ g.base[i] # M!NoTile => p.base[i] # M!NoTile
             /\ i \notin g.live /\ p.base[i] # M!NoTile => p.display[i] = p.base[i]
  <2> DEFINE b == M!Burn(marks, i)
  <2>1. M!BaseOf(g, i) = M!Paint(b, m, i) /\ (g.base[i] = M!NoTile => g.display[i] = M!NoTile)
    BY <1>1, BurnNext DEF Fits
  <2>2. b \in Pictures /\ b # M!NoTile
    BY <1>4, NoTileIsNoPicture
  <2>3. CASE i \in old
    <3>1. p.base[i] = b /\ p.display[i] = b
      BY <1>7, <2>3
    <3> HIDE DEF b
    <3> QED BY <2>2, <3>1 DEF M!BaseOf, M!Exists, b
  <2>4. CASE i \notin old
    <3>1. p.base[i] = g.base[i] /\ p.display[i] = g.display[i]
      BY <1>7, <2>4
    <3>2. M!BaseOf(g, i) = b
      <4>1. CASE g.base[i] # M!NoTile
        <5>1. ~M!Touches(m, i)
          BY <1>7, <2>4, <4>1, TouchInReach
        <5> QED BY <2>1, <5>1 DEF M!Paint
      <4>2. CASE g.base[i] = M!NoTile
        <5>1. M!Paint(b, m, i) = <<>>
          BY <1>1, <2>1, <4>2, BaseOfType
        <5>2. M!Paint(b, m, i) = b \/ M!Paint(b, m, i) # <<>>
          <6> HIDE DEF b
          <6> QED BY <2>2, PaintType
        <5> QED BY <2>1, <5>1, <5>2
      <4> QED BY <4>1, <4>2
    <3>3. i \notin g.live /\ g.base[i] # M!NoTile => g.display[i] = g.base[i]
      BY <1>1 DEF Flat
    <3>4. M!BaseOf(p, i) = M!BaseOf(g, i)
      BY <3>1 DEF M!BaseOf, M!Exists
    <3> QED BY <2>1, <3>1, <3>2, <3>3, <3>4
  <2> QED BY <2>3, <2>4
<1>9. Fits(p, marks)
  BY <1>8 DEF Fits
<1>10. LiveExists(p)
  <2>1. \A i \in g.live : i \in M!Tiles
    BY <1>1 DEF Grids
  <2> QED BY <1>1, <1>6, <1>8, <2>1 DEF LiveExists
<1>11. Flat(p)
  BY <1>6, <1>8 DEF Flat
<1>12. Told(g, p)
  <2>1. g.changed \subseteq p.changed
    BY <1>6
  <2>2. ASSUME NEW i \in M!Tiles \ p.changed PROVE p.display[i] = g.display[i]
    BY <1>6, <1>7
  <2> QED BY <2>1, <2>2 DEF Told
<1> QED BY <1>6, <1>9, <1>10, <1>11, <1>12 DEF Loose, p

(* A stroke gets a point: what moved of its curve is painted, no more.       *)
LEMMA LiveExtendedSettles ==
  ASSUME NEW g, NEW marks, NEW m \in MarkSet, m.kind = "stroke", Len(m.at) >= 1, Settled(g, marks, m),
         NEW x \in M!Tiles
  PROVE  LET new == [m EXCEPT !.at = Append(@, x)]
             p == M!LiveExtended(g, new, Len(m.at))
         IN  Settled(p, marks, new) /\ Told(g, p)
<1> DEFINE new == [m EXCEPT !.at = Append(@, x)]
           p == M!LiveExtended(g, new, Len(m.at))
           area == M!Reach(SubSeq(Append(m.at, x), M!Max({1, Len(m.at) - 1}), Len(m.at) + 1))
           painted == M!PaintLive(g, new, area)
<1>1. g \in Grids /\ Fits(g, marks) /\ LiveExists(g) /\ Touched(g, m) /\ Shown(g, m)
  BY DEF Settled
<1>2. new \in MarkSet /\ new.kind = "stroke" /\ new.at = Append(m.at, x) /\ Len(new.at) = Len(m.at) + 1
  <2>1. Append(m.at, x) \in Seq(M!Tiles) /\ Len(Append(m.at, x)) = Len(m.at) + 1
    BY AppendProperties, LenProperties DEF MarkSet
  <2> QED BY <2>1 DEF MarkSet
<1>3. area \in SUBSET M!Tiles
  BY ReachIsTiles
<1>4. p = [painted EXCEPT !.live = g.live \cup area]
  <2>1. M!Reach(SubSeq(new.at, M!Max({1, Len(m.at) - 1}), Len(new.at))) = area
    BY <1>2
  <2> HIDE DEF new, area
  <2> QED BY <2>1 DEF M!LiveExtended
<1> HIDE DEF area
<1>5. /\ painted \in Grids /\ painted.live = g.live /\ painted.changed = g.changed \cup area
      /\ \A i \in M!Tiles :
           /\ painted.base[i] = IF i \in area THEN M!BaseOf(g, i) ELSE g.base[i]
           /\ painted.display[i] = IF i \in area THEN M!Paint(M!BaseOf(g, i), new, i) ELSE g.display[i]
  <2> HIDE DEF new
  <2> QED BY <1>1, <1>2, <1>3, PaintLiveIs
<1>6. /\ p \in Grids /\ p.live = g.live \cup area /\ p.changed = g.changed \cup area
      /\ \A i \in M!Tiles :
           /\ p.base[i] = IF i \in area THEN M!BaseOf(g, i) ELSE g.base[i]
           /\ p.display[i] = IF i \in area THEN M!Paint(M!BaseOf(g, i), new, i) ELSE g.display[i]
  <2>1. g.live \cup area \in SUBSET M!Tiles
    BY <1>1, <1>3 DEF Grids
  <2> HIDE DEF p, painted, new
  <2> QED BY <1>4, <1>5, <2>1 DEF Grids
<1>7. ASSUME NEW i \in M!Tiles, i \notin area
      PROVE  /\ M!Touches(new, i) <=> M!Touches(m, i)
             /\ \A b : M!Paint(b, new, i) = M!Paint(b, m, i)
  <2>1. M!Pieces(new, i) = M!Pieces(m, i)
    BY <1>7, StrokeGrows DEF area
  <2> HIDE DEF new
  <2> QED BY <1>2, <2>1 DEF M!Touches, M!Paint
<1>8. new # M!NoMark /\ m # M!NoMark
  <2> HIDE DEF new
  <2> QED BY <1>2 DEF M!NoMark
<1> HIDE DEF p, new, painted
<1>9. ASSUME NEW i \in M!Tiles
      PROVE  /\ M!BaseOf(p, i) = M!BaseOf(g, i)
             /\ p.base[i] = M!NoTile => p.display[i] = M!NoTile
             /\ p.base[i] # M!NoTile => p.display[i] = M!Paint(p.base[i], new, i)
             /\ i \in p.live => p.base[i] # M!NoTile
             /\ M!Touches(new, i) => i \in p.live
  <2>1. M!BaseOf(g, i) # M!NoTile /\ (g.base[i] = M!NoTile => g.display[i] = M!NoTile)
    BY <1>1, BaseOfType DEF Fits
  <2>2. CASE i \in area
    <3>1. p.base[i] = M!BaseOf(g, i) /\ p.display[i] = M!Paint(M!BaseOf(g, i), new, i) /\ i \in p.live
      BY <1>6, <2>2
    <3> QED BY <2>1, <3>1 DEF M!BaseOf, M!Exists
  <2>3. CASE i \notin area
    <3>1. p.base[i] = g.base[i] /\ p.display[i] = g.display[i] /\ (i \in p.live <=> i \in g.live)
      BY <1>6, <2>3
    <3>2. /\ g.base[i] # M!NoTile => g.display[i] = M!Paint(g.base[i], m, i)
          /\ i \in g.live => g.base[i] # M!NoTile
          /\ M!Touches(m, i) => i \in g.live
      BY <1>1 DEF Shown, LiveExists, Touched
    <3>3. (M!Touches(new, i) <=> M!Touches(m, i)) /\ M!Paint(g.base[i], new, i) = M!Paint(g.base[i], m, i)
      BY <1>7, <2>3
    <3> QED BY <2>1, <3>1, <3>2, <3>3 DEF M!BaseOf, M!Exists
  <2> QED BY <2>2, <2>3
<1>10. Fits(p, marks)
  BY <1>1, <1>9 DEF Fits
<1>11. LiveExists(p)
  <2>1. \A i \in p.live : i \in M!Tiles
    BY <1>6 DEF Grids
  <2> QED BY <1>9, <2>1 DEF LiveExists
<1>12. Touched(p, new) /\ Shown(p, new)
  BY <1>8, <1>9 DEF Touched, Shown
<1>13. Told(g, p)
  BY <1>6 DEF Told
<1> QED BY <1>6, <1>10, <1>11, <1>12, <1>13 DEF Settled, p, new

LEMMA LiveCommittedSettles ==
  ASSUME NEW g, NEW marks \in Seq(MarkSet), NEW m \in MarkSet, Settled(g, marks, m)
  PROVE  LET p == M!LiveCommitted(g)
         IN  Settled(p, Append(marks, m), M!NoMark) /\ Told(g, p)
<1> DEFINE p == M!LiveCommitted(g)
           base == [i \in M!Tiles |-> IF i \in g.live THEN g.display[i] ELSE g.base[i]]
<1>1. g \in Grids /\ Fits(g, marks) /\ LiveExists(g) /\ Touched(g, m) /\ Shown(g, m)
  BY DEF Settled
<1>2. p = [g EXCEPT !.base = base, !.live = {}]
  <2>1. base = M!Over(g.live, g.display, g.base)
    BY DEF M!Over
  <2> QED BY <2>1, Zenon DEF M!LiveCommitted
<1>3. base \in [M!Tiles -> Tile]
  BY <1>1 DEF Grids
<1>4. p \in Grids /\ p.live = {} /\ p.changed = g.changed /\ p.base = base /\ p.display = g.display
  <2> HIDE DEF p, base
  <2> QED BY <1>1, <1>2, <1>3 DEF Grids
<1>5. ASSUME NEW i \in M!Tiles PROVE p.base[i] = IF i \in g.live THEN g.display[i] ELSE g.base[i]
  <2> HIDE DEF p
  <2> QED BY <1>4
<1> HIDE DEF p, base
<1>6. ASSUME NEW i \in M!Tiles
      PROVE  /\ M!BaseOf(p, i) = M!Burn(Append(marks, m), i)
             /\ p.base[i] = M!NoTile => p.display[i] = M!NoTile
             /\ p.base[i] # M!NoTile => p.display[i] = p.base[i]
  <2>1. M!BaseOf(g, i) = M!Burn(marks, i) /\ (g.base[i] = M!NoTile => g.display[i] = M!NoTile)
    BY <1>1 DEF Fits
  <2>2. M!Burn(Append(marks, m), i) = M!Paint(M!BaseOf(g, i), m, i)
    BY <2>1, BurnNext
  <2>3. M!BaseOf(g, i) \in Pictures /\ M!Paint(M!BaseOf(g, i), m, i) # M!NoTile
    BY <1>1, BaseOfType, PaintType, NoTileIsNoPicture
  <2>4. g.base[i] # M!NoTile => g.display[i] = M!Paint(g.base[i], m, i)
    BY <1>1 DEF Shown
  <2>5. CASE i \in g.live
    <3>1. g.base[i] # M!NoTile /\ M!BaseOf(g, i) = g.base[i]
      BY <1>1, <2>5 DEF LiveExists, M!BaseOf, M!Exists
    <3> QED BY <1>4, <1>5, <2>2, <2>3, <2>4, <2>5, <3>1 DEF M!BaseOf, M!Exists
  <2>6. CASE i \notin g.live
    <3>1. ~M!Touches(m, i)
      BY <1>1, <2>6 DEF Touched
    <3>2. \A b : M!Paint(b, m, i) = b
      BY <3>1 DEF M!Paint
    <3> QED BY <1>4, <1>5, <2>1, <2>2, <2>4, <2>6, <3>2 DEF M!BaseOf, M!Exists
  <2> QED BY <2>5, <2>6
<1>7. Fits(p, Append(marks, m)) /\ LiveExists(p) /\ Told(g, p)
  BY <1>4, <1>6 DEF Fits, LiveExists, Told
<1>8. Touched(p, M!NoMark) /\ Shown(p, M!NoMark)
  BY <1>4, <1>6, NoMarkPaintsNothing DEF Touched, Shown
<1> QED BY <1>4, <1>7, <1>8 DEF Settled, p

LEMMA LiveDroppedSettles ==
  ASSUME NEW g, NEW marks, NEW m, Settled(g, marks, m)
  PROVE  LET p == M!LiveDropped(g)
         IN  Settled(p, marks, M!NoMark) /\ Told(g, p)
<1> DEFINE p == M!LiveDropped(g)
           display == [i \in M!Tiles |-> IF i \in g.live THEN g.base[i] ELSE g.display[i]]
<1>1. g \in Grids /\ Fits(g, marks) /\ LiveExists(g) /\ Flat(g)
  BY SettledIsLoose DEF Loose
<1>2. p = [g EXCEPT !.display = display, !.changed = g.changed \cup g.live, !.live = {}]
  <2>1. display = M!Over(g.live, g.base, g.display)
    BY DEF M!Over
  <2> QED BY <2>1, Zenon DEF M!LiveDropped
<1>3. display \in [M!Tiles -> Tile]
  BY <1>1 DEF Grids
<1>4. p \in Grids /\ p.live = {} /\ p.changed = g.changed \cup g.live /\ p.base = g.base /\ p.display = display
  <2> HIDE DEF p, display
  <2> QED BY <1>1, <1>2, <1>3 DEF Grids
<1>5. ASSUME NEW i \in M!Tiles PROVE p.display[i] = IF i \in g.live THEN g.base[i] ELSE g.display[i]
  <2> HIDE DEF p
  <2> QED BY <1>4
<1> HIDE DEF p, display
<1>6. ASSUME NEW i \in M!Tiles
      PROVE  /\ M!BaseOf(p, i) = M!BaseOf(g, i)
             /\ p.base[i] = M!NoTile => p.display[i] = M!NoTile
             /\ p.base[i] # M!NoTile => p.display[i] = p.base[i]
  <2>1. /\ g.base[i] = M!NoTile => g.display[i] = M!NoTile
        /\ i \notin g.live /\ g.base[i] # M!NoTile => g.display[i] = g.base[i]
    BY <1>1 DEF Fits, Flat
  <2> QED BY <1>4, <1>5, <2>1 DEF M!BaseOf, M!Exists
<1>7. Fits(p, marks) /\ LiveExists(p)
  BY <1>1, <1>4, <1>6 DEF Fits, LiveExists
<1>8. Touched(p, M!NoMark) /\ Shown(p, M!NoMark)
  BY <1>4, <1>6, NoMarkPaintsNothing DEF Touched, Shown
<1>9. Told(g, p)
  BY <1>4, <1>5 DEF Told
<1> QED BY <1>4, <1>7, <1>8, <1>9 DEF Settled, p

-----------------------------------------------------------------------------
(* The window (Marks)                                                        *)

(* Slint holds what the tiles show; a copy under the veil may only be old    *)
(* where the hole covers it.                                                 *)
ScreenInv ==
  /\ grid.changed = {} /\ stale_dims \subseteq hole
  /\ \A i \in M!Tiles : bright[i] = grid.display[i]
  /\ \A i \in M!Tiles \ stale_dims : dim[i] = bright[i]

WindowInv == Settled(grid, annotations, temp) /\ ScreenInv

LEMMA WindowShows == ASSUME WindowInv PROVE M!WindowShowsTheList
<1> SUFFICES ASSUME NEW i \in M!Tiles
             PROVE  LET whole == M!Paint(M!Burn(annotations, i), temp, i)
                    IN  /\ IF M!Exists(grid, i) THEN bright[i] = whole ELSE whole = <<>> /\ bright[i] = M!NoTile
                        /\ i \notin hole => dim[i] = bright[i]
  BY Zenon DEF M!WindowShowsTheList
<1>1. /\ grid \in Grids /\ M!BaseOf(grid, i) = M!Burn(annotations, i)
      /\ grid.base[i] = M!NoTile => grid.display[i] = M!NoTile
      /\ grid.base[i] # M!NoTile => grid.display[i] = M!Paint(grid.base[i], temp, i)
      /\ M!Touches(temp, i) => i \in grid.live
      /\ i \in grid.live => grid.base[i] # M!NoTile
  BY DEF WindowInv, Settled, Fits, Shown, Touched, LiveExists
<1>2. bright[i] = grid.display[i] /\ (i \notin hole => dim[i] = bright[i])
  BY DEF WindowInv, ScreenInv
<1>3. CASE grid.base[i] # M!NoTile
  BY <1>1, <1>2, <1>3 DEF M!Exists, M!BaseOf
<1>4. CASE grid.base[i] = M!NoTile
  <2>1. M!Burn(annotations, i) = <<>> /\ ~M!Touches(temp, i)
    BY <1>1, <1>4, BaseOfType
  <2>2. M!Paint(M!Burn(annotations, i), temp, i) = <<>>
    BY <2>1 DEF M!Paint
  <2> QED BY <1>1, <1>2, <1>4, <2>2 DEF M!Exists
<1> QED BY <1>3, <1>4

LEMMA WindowInit == ASSUME M!Init PROVE WindowInv
<1> DEFINE g == M!EmptyGrid
<1>1. grid = g /\ annotations = <<>> /\ temp = M!NoMark
  BY DEF M!Init
<1>2. g \in Grids /\ g.live = {} /\ g.changed = {} /\ \A i \in M!Tiles : g.base[i] = M!NoTile /\ g.display[i] = M!NoTile
  BY DEF M!EmptyGrid, Grids, Tile
<1>3. \A i \in M!Tiles : M!Burn(<<>>, i) = <<>>
  <2>1. <<>> \in Seq(MarkSet) /\ \E m : m \in MarkSet
    <3>1. [kind |-> "text", at |-> <<>>, n |-> 0] \in MarkSet
      BY DEF MarkSet, M!Kinds
    <3> QED BY <3>1
  <2> QED BY <2>1, BurnNext
<1> HIDE DEF g
<1>4. Fits(g, <<>>) /\ LiveExists(g)
  BY <1>2, <1>3 DEF Fits, LiveExists, M!BaseOf, M!Exists
<1>5. Touched(g, M!NoMark) /\ Shown(g, M!NoMark)
  BY <1>2, NoMarkPaintsNothing DEF Touched, Shown
<1>6. Settled(g, <<>>, M!NoMark)
  BY <1>2, <1>4, <1>5 DEF Settled
<1>7. ScreenInv
  BY <1>1, <1>2 DEF ScreenInv, M!Init
<1> QED BY <1>1, <1>6, <1>7 DEF WindowInv

(* publish_tiles and refresh_dim_tiles hand over what changed, and no less.  *)
LEMMA ShowKeeps ==
  ASSUME WindowInv, NEW g, NEW h, M!Show(g, h), hole' = h, Told(grid, g), Settled(g, annotations', temp')
  PROVE  WindowInv'
<1> DEFINE r == [g EXCEPT !.changed = {}]
           stale == stale_dims \cup g.changed
<1>1. g \in Grids
  BY DEF Settled
<1>2. r \in Grids /\ r.base = g.base /\ r.display = g.display /\ r.live = g.live /\ r.changed = {}
  BY <1>1 DEF Grids
<1>3. grid' = r
  BY DEF M!Show
<1> HIDE DEF r
<1>4. Settled(r, annotations', temp')
  <2>1. \A i \in M!Tiles : M!BaseOf(r, i) = M!BaseOf(g, i)
    BY <1>2 DEF M!BaseOf, M!Exists
  <2> QED BY <1>2, <2>1 DEF Settled, Fits, LiveExists, Touched, Shown
<1>5. Settled(grid', annotations', temp')
  BY <1>3, <1>4
<1>6. ASSUME NEW i \in M!Tiles
      PROVE  bright'[i] = g.display[i] /\ (i \notin stale \cap h => dim'[i] = g.display[i])
  <2>1. bright'[i] = IF i \in g.changed THEN g.display[i] ELSE bright[i]
    BY DEF M!Show, M!Over
  <2>2. dim'[i] = IF i \notin stale THEN dim[i] ELSE IF i \in h THEN M!Old ELSE g.display[i]
    BY DEF M!Show
  <2>3. bright[i] = grid.display[i] /\ (i \notin stale_dims => dim[i] = bright[i])
    BY DEF WindowInv, ScreenInv
  <2>4. i \notin g.changed => g.display[i] = grid.display[i]
    BY DEF Told
  <2> QED BY <2>1, <2>2, <2>3, <2>4
<1>7. stale_dims' = stale \cap h
  BY DEF M!Show
<1>8. ScreenInv'
  BY <1>2, <1>3, <1>6, <1>7 DEF ScreenInv
<1> QED BY <1>5, <1>8, Zenon DEF WindowInv, Settled, Fits, LiveExists, Touched, Shown

LEMMA ToldOn == ASSUME NEW f, NEW g, NEW h, Told(f, g), Told(g, h) PROVE Told(f, h)
<1>1. f.changed \subseteq h.changed
  BY DEF Told
<1>2. ASSUME NEW i \in M!Tiles \ h.changed PROVE h.display[i] = f.display[i]
  <2>1. i \in M!Tiles \ g.changed
    BY DEF Told
  <2> QED BY <2>1 DEF Told
<1> QED BY <1>1, <1>2 DEF Told

LEMMA WindowStays ==
  ASSUME WindowInv, annotations' = annotations, temp' = temp, hole' = hole, UNCHANGED M!screenVars
  PROVE  WindowInv'
<1>1. grid' = grid /\ bright' = bright /\ dim' = dim /\ stale_dims' = stale_dims
  BY DEF M!screenVars
<1> QED BY <1>1 DEF WindowInv, ScreenInv, Settled, Fits, LiveExists, Touched, Shown

(* A mark that joins the list in the middle of a stroke.                     *)
LEMMA MarkIsShown ==
  ASSUME WindowInv, PointerInv, annotations \in Seq(MarkSet), NEW m \in MarkSet, annotations' = Append(annotations, m),
         M!Show(M!UnderLive(M!Added(grid, m), temp), hole), temp' = temp, hole' = hole
  PROVE  WindowInv'
<1> DEFINE g == M!Added(grid, m)
           h == M!UnderLive(g, temp)
<1>1. Loose(grid, annotations) /\ (temp = M!NoMark => grid.live = {})
  BY SettledIsLoose DEF WindowInv, Settled, Touched
<1>2. Loose(g, Append(annotations, m)) /\ Told(grid, g) /\ g.live = grid.live
  BY <1>1, AddedIsLoose
<1>3. temp \in MarkSet \cup {M!NoMark}
  BY DEF PointerInv
<1> HIDE DEF g
<1>4. Settled(h, Append(annotations, m), temp) /\ Told(g, h)
  BY <1>1, <1>2, <1>3, UnderLiveSettles
<1>5. Told(grid, h) /\ M!Show(h, hole)
  BY <1>2, <1>4, ToldOn DEF g
<1>6. Settled(h, annotations', temp')
  BY <1>4
<1> HIDE DEF h
<1> QED BY <1>5, <1>6, ShowKeeps

LEMMA UndoIsShown ==
  ASSUME WindowInv, PointerInv, annotations \in Seq(MarkSet), M!Undo
  PROVE  WindowInv'
<1> DEFINE m == M!Last(annotations)
           marks == M!Front(annotations)
           g == M!Rebuild(grid, M!Reach(m.at), marks)
           h == M!UnderLive(g, temp)
<1>1. annotations # <<>> /\ annotations' = marks /\ temp' = temp /\ hole' = hole /\ M!Show(h, hole)
  BY DEF M!Undo
<1>2. m \in MarkSet /\ marks \in Seq(MarkSet) /\ annotations = Append(marks, m)
  BY <1>1, Shortened
<1>3. Loose(grid, annotations) /\ (temp = M!NoMark => grid.live = {})
  BY SettledIsLoose DEF WindowInv, Settled, Touched
<1> HIDE DEF m, marks
<1>4. Loose(g, marks) /\ Told(grid, g) /\ g.live = grid.live
  <2>1. Loose(grid, Append(marks, m))
    BY <1>2, <1>3
  <2> QED BY <1>2, <2>1, RebuildIsLoose
<1>5. temp \in MarkSet \cup {M!NoMark}
  BY DEF PointerInv
<1> HIDE DEF g
<1>6. Settled(h, marks, temp) /\ Told(g, h)
  BY <1>3, <1>4, <1>5, UnderLiveSettles
<1>7. Told(grid, h)
  BY <1>4, <1>6, ToldOn
<1>8. Settled(h, annotations', temp')
  BY <1>1, <1>6
<1> HIDE DEF h
<1> QED BY <1>1, <1>7, <1>8, ShowKeeps

LEMMA WindowNext ==
  ASSUME M!MarksAssumption, WindowInv, PointerInv, annotations \in Seq(MarkSet), redo_stack \in Seq(MarkSet),
         counter_n \in Nat, M!Next
  PROVE  WindowInv'
<1>1. Settled(grid, annotations, temp) /\ Loose(grid, annotations)
  BY SettledIsLoose DEF WindowInv
<1>2. CASE M!PressCommits
  <2>1. CASE typing.typed /\ typing # M!NoEditor
    <3> DEFINE m == [kind |-> "text", at |-> <<typing.at>>, n |-> 0]
    <3>1. typing.at \in M!Tiles /\ "text" \in M!Kinds /\ "text" # "counter"
      BY <2>1 DEF PointerInv, M!Kinds
    <3>2. m \in MarkSet
      BY <3>1, OnePoint
    <3>3. M!PushAnno(m, M!UnderLive(M!Added(grid, m), temp)) /\ temp' = temp /\ hole' = hole
      BY <1>2, <2>1 DEF M!PressCommits, M!CommitText
    <3> HIDE DEF m
    <3> QED BY <3>2, <3>3, MarkIsShown DEF M!PushAnno
  <2>2. CASE ~typing.typed
    BY <1>2, <2>2, WindowStays DEF M!PressCommits, M!CommitText
  <2> QED BY <1>2, <2>1, <2>2 DEF M!PressCommits
<1>3. CASE M!Release
  <2>1. temp # M!NoMark /\ temp \in MarkSet /\ temp' = M!NoMark /\ hole' = hole
    BY <1>3 DEF M!Release, PointerInv
  <2>2. CASE Len(temp.at) > 1
    <3>1. annotations' = Append(annotations, temp) /\ M!Show(M!LiveCommitted(grid), hole)
      BY <1>3, <2>1, <2>2 DEF M!Release, M!PushAnno
    <3>2. Settled(M!LiveCommitted(grid), Append(annotations, temp), M!NoMark) /\ Told(grid, M!LiveCommitted(grid))
      BY <1>1, <2>1, LiveCommittedSettles
    <3>3. Settled(M!LiveCommitted(grid), annotations', temp')
      BY <2>1, <3>1, <3>2
    <3> QED BY <2>1, <3>1, <3>2, <3>3, ShowKeeps
  <2>3. CASE ~(Len(temp.at) > 1)
    <3>1. annotations' = annotations /\ M!Show(M!LiveDropped(grid), hole)
      BY <1>3, <2>1, <2>3 DEF M!Release
    <3>2. Settled(M!LiveDropped(grid), annotations, M!NoMark) /\ Told(grid, M!LiveDropped(grid))
      BY <1>1, LiveDroppedSettles
    <3>3. Settled(M!LiveDropped(grid), annotations', temp')
      BY <2>1, <3>1, <3>2
    <3> QED BY <2>1, <3>1, <3>2, <3>3, ShowKeeps
  <2> QED BY <2>2, <2>3
<1>4. CASE M!Escape
  <2>1. /\ temp # M!NoMark /\ temp' = M!NoMark /\ hole' = hole
        /\ annotations' = annotations /\ M!Show(M!LiveDropped(grid), hole)
    BY <1>4 DEF M!Escape, PointerInv, M!listVars
  <2>2. Settled(M!LiveDropped(grid), annotations, M!NoMark) /\ Told(grid, M!LiveDropped(grid))
    BY <1>1, LiveDroppedSettles
  <2>3. Settled(M!LiveDropped(grid), annotations', temp')
    BY <2>1, <2>2
  <2> QED BY <2>1, <2>2, <2>3, ShowKeeps
<1>5. CASE M!Undo
  BY <1>5, UndoIsShown
<1>6. CASE M!Redo
  <2> DEFINE m == M!Last(redo_stack)
  <2>1. redo_stack # <<>> /\ annotations' = Append(annotations, m) /\ temp' = temp /\ hole' = hole
        /\ M!Show(M!UnderLive(M!Added(grid, m), temp), hole)
    BY <1>6 DEF M!Redo
  <2>2. m \in MarkSet
    BY <2>1, Shortened
  <2> HIDE DEF m
  <2> QED BY <2>1, <2>2, MarkIsShown
<1>7. CASE M!EditorCancel
  BY <1>7, WindowStays DEF M!EditorCancel, M!listVars
<1>8. ASSUME NEW i \in Presses, M!PressText(i) PROVE WindowInv'
  BY <1>8, WindowStays DEF M!PressText, M!listVars
<1>9. ASSUME NEW i \in Presses, M!PressCounter(i) PROVE WindowInv'
  <2> DEFINE m == [kind |-> "counter", at |-> <<i>>, n |-> counter_n]
  <2>1. i \in M!Tiles /\ "counter" \in M!Kinds
    BY DEF M!MarksAssumption, M!Tiles, M!Kinds
  <2>2. m \in MarkSet
    BY <1>9, <2>1, OnePoint
  <2>3. M!PushAnno(m, M!UnderLive(M!Added(grid, m), temp)) /\ temp' = temp /\ hole' = hole
    BY <1>9 DEF M!PressCounter
  <2> HIDE DEF m
  <2> QED BY <2>2, <2>3, MarkIsShown DEF M!PushAnno
<1>10. ASSUME NEW t \in {"stroke", "shape"}, NEW i \in Presses, M!PressDraws(t, i) PROVE WindowInv'
  <2>1. /\ M!Show(M!LiveChanged(grid, temp'), hole) /\ hole' = hole /\ annotations' = annotations
        /\ temp' = [kind |-> t, at |-> <<i>>, n |-> 0]
    BY <1>10 DEF M!PressDraws, M!listVars
  <2>2. temp' \in MarkSet
    <3>1. i \in M!Tiles /\ t \in M!Kinds /\ t # "counter"
      BY DEF M!MarksAssumption, M!Tiles, M!Kinds
    <3> QED BY <2>1, <3>1, OnePoint
  <2>3. Settled(M!LiveChanged(grid, temp'), annotations, temp') /\ Told(grid, M!LiveChanged(grid, temp'))
    BY <1>1, <2>2, LiveChangedSettles
  <2>4. Settled(M!LiveChanged(grid, temp'), annotations', temp')
    BY <2>1, <2>3
  <2> QED BY <2>1, <2>3, <2>4, ShowKeeps
<1>11. ASSUME NEW i \in M!Tiles, M!DrawMove(i) PROVE WindowInv'
  <2>1. temp \in MarkSet /\ Len(temp.at) >= 1 /\ hole' = hole /\ annotations' = annotations
    BY <1>11 DEF M!DrawMove, M!listVars, PointerInv
  <2>2. CASE temp.kind = "stroke"
    <3> DEFINE g == M!LiveExtended(grid, temp', Len(temp.at))
    <3>1. temp' = [temp EXCEPT !.at = Append(@, i)] /\ M!Show(g, hole)
      BY <1>11, <2>2 DEF M!DrawMove
    <3>2. Settled(g, annotations, temp') /\ Told(grid, g)
      BY <1>1, <2>1, <2>2, <3>1, LiveExtendedSettles
    <3>3. Settled(g, annotations', temp')
      BY <2>1, <3>2
    <3> HIDE DEF g
    <3> QED BY <2>1, <3>1, <3>2, <3>3, ShowKeeps
  <2>3. CASE temp.kind # "stroke"
    <3>1. M!Show(M!LiveChanged(grid, temp'), hole)
      BY <1>11, <2>3 DEF M!DrawMove
    <3>2. temp' \in MarkSet
      BY <1>11, <2>1, PointerNext DEF PointerInv, M!DrawMove
    <3>3. Settled(M!LiveChanged(grid, temp'), annotations, temp') /\ Told(grid, M!LiveChanged(grid, temp'))
      BY <1>1, <3>2, LiveChangedSettles
    <3>4. Settled(M!LiveChanged(grid, temp'), annotations', temp')
      BY <2>1, <3>3
    <3> QED BY <2>1, <3>1, <3>3, <3>4, ShowKeeps
  <2> QED BY <2>2, <2>3
<1>12. ASSUME NEW typed \in BOOLEAN, M!EditorInput(typed) PROVE WindowInv'
  BY <1>12, WindowStays DEF M!EditorInput, M!listVars
<1>13. ASSUME NEW h \in Holes, M!MoveSelection(h) PROVE WindowInv'
  <2>1. M!Show(grid, h) /\ hole' = h /\ annotations' = annotations /\ temp' = temp
    BY <1>13 DEF M!MoveSelection, M!listVars
  <2>2. Settled(grid, annotations', temp') /\ Told(grid, grid)
    BY <1>1, <2>1 DEF Told
  <2> QED BY <2>1, <2>2, ShowKeeps
<1> QED BY <1>2, <1>3, <1>4, <1>5, <1>6, <1>7, <1>8, <1>9, <1>10, <1>11, <1>12, <1>13 DEF M!Next

LEMMA CountGrows ==
  ASSUME NEW s, NEW j \in Nat, NEW k \in Nat, j <= k
  PROVE  Count(s, j) <= Count(s, k)
<1>1. Badges(s, j) \subseteq Badges(s, k)
  BY DEF Badges
<1> QED BY <1>1, CountType, FS_Subset DEF Count

LEMMA MarksAreTyped ==
  ASSUME M!MarksAssumption, BadgesInv, PointerInv, WindowInv
  PROVE  M!TypeOK
<1> DEFINE s == annotations
           t == redo_stack
           u == s \o t
<1>1. s \in Seq(MarkSet) /\ t \in Seq(MarkSet) /\ Len(s) + Len(t) <= MaxMarks /\ MaxMarks \in Nat /\ Len(s) \in Nat /\ Len(t) \in Nat
  BY LenProperties DEF BadgesInv, Lists, M!MarksAssumption
<1>2. Count(s, Len(s)) \in 0 .. Len(s) /\ Count(t, Len(t)) \in 0 .. Len(t)
  BY <1>1, CountType
<1>3. ASSUME NEW k \in 1 .. Len(s) PROVE s[k] \in MarkSet /\ s[k].n \in 0 .. MaxMarks
  <2>1. s[k] \in MarkSet
    BY <1>1, <1>3, ElementOfSeq
  <2>2. CASE s[k].kind = "counter"
    <3>1. s[k].n = Count(s, k)
      BY <2>2 DEF BadgesInv
    <3>2. Count(s, k) \in 0 .. k
      BY <1>1, CountType
    <3> QED BY <1>1, <2>1, <3>1, <3>2
  <2>3. CASE s[k].kind # "counter"
    BY <1>1, <2>1, <2>3 DEF MarkSet
  <2> QED BY <2>1, <2>2, <2>3
<1>4. ASSUME NEW k \in 1 .. Len(t) PROVE t[k] \in MarkSet /\ t[k].n \in 0 .. MaxMarks
  <2>1. t[k] \in MarkSet
    BY <1>1, <1>4, ElementOfSeq
  <2>2. CASE t[k].kind = "counter"
    <3>1. t[k].n = Count(s, Len(s)) + Count(t, Len(t)) - Count(t, k) + 1
      BY <2>2 DEF BadgesInv
    <3>2. Count(t, k) >= 1
      <4>1. k - 1 \in Nat /\ k - 1 + 1 = k
        BY <1>1
      <4>2. Count(t, k - 1 + 1) = IF t[k - 1 + 1].kind = "counter" THEN Count(t, k - 1) + 1 ELSE Count(t, k - 1)
        BY <4>1, CountNext
      <4>3. Count(t, k - 1) \in 0 .. k - 1
        BY <4>1, CountType
      <4> QED BY <2>2, <4>1, <4>2, <4>3
    <3>3. Count(t, k) \in 0 .. k /\ Count(t, k) <= Count(t, Len(t))
      BY <1>1, CountType, CountGrows
    <3> HIDE DEF s, t
    <3> QED BY <1>1, <1>2, <2>1, <3>1, <3>2, <3>3
  <2>3. CASE t[k].kind # "counter"
    BY <1>1, <2>1, <2>3 DEF MarkSet
  <2> QED BY <2>1, <2>2, <2>3
<1>5. /\ u \in Seq(MarkSet) /\ Len(u) = Len(s) + Len(t)
      /\ \A k \in 1 .. Len(s) + Len(t) : u[k] = IF k <= Len(s) THEN s[k] ELSE t[k - Len(s)]
  BY <1>1, ConcatProperties
<1>6. \A m \in M!Range(u) : m.kind \in M!Kinds /\ m.at \in Seq(M!Tiles) /\ m.n \in 0 .. MaxMarks
  <2> HIDE DEF u, s, t
  <2>1. DOMAIN u = 1 .. Len(s) + Len(t)
    BY <1>1, <1>5, LenProperties
  <2>2. ASSUME NEW k \in 1 .. Len(s) + Len(t) PROVE u[k] \in MarkSet /\ u[k].n \in 0 .. MaxMarks
    <3>1. CASE k <= Len(s)
      BY <1>1, <1>3, <1>5, <2>2, <3>1
    <3>2. CASE ~(k <= Len(s))
      <4>1. k - Len(s) \in 1 .. Len(t)
        BY <1>1, <2>2, <3>2
      <4> QED BY <1>4, <1>5, <2>2, <3>2, <4>1
    <3> QED BY <3>1, <3>2
  <2> QED BY <2>1, <2>2 DEF M!Range, MarkSet
<1>7. counter_n \in 1 .. MaxMarks + 1
  BY <1>1, <1>2 DEF BadgesInv
<1>8. (temp = M!NoMark \/ temp.at \in Seq(M!Tiles)) /\ drawing = (temp # M!NoMark) /\ hole \subseteq M!Tiles
  BY DEF PointerInv, MarkSet
<1>9. typing.at \in 0 .. Columns
  BY DEF PointerInv, M!NoEditor, M!Tiles, M!MarksAssumption
<1>10. grid.live \subseteq M!Tiles /\ grid.changed = {}
  BY DEF WindowInv, ScreenInv, Settled, Grids
<1> QED BY <1>6, <1>7, <1>8, <1>9, <1>10, Zenon DEF M!TypeOK

-----------------------------------------------------------------------------
(* Monitors (Displays)                                                       *)

Rects == [x : Int, y : Int, w : Int, h : Int]
MonitorSet == [physical : Rects, work : Rects, scale : Scales]

DisplaysInv == attempts \in 0 .. 2 /\ changes \in 0 .. MaxChanges /\ monitors \in Seq(MonitorSet)

LEMMA DisplaysInit == ASSUME D!DisplaysAssumption, D!Init PROVE DisplaysInv
<1>1. ASSUME NEW c \in Int \X Int, NEW z \in Sizes, NEW s \in Scales PROVE D!Monitor(c, z, s) \in MonitorSet
  <2>1. c[1] \in Int /\ c[2] \in Int /\ z[1] \in Int /\ z[2] \in Int /\ Taskbar \in Int
    BY DEF D!DisplaysAssumption
  <2> QED BY <2>1 DEF D!Monitor, D!Rect, MonitorSet, Rects
<1> DEFINE Others == {D!Monitor(c, z, s) : c \in Corners, z \in Sizes, s \in Scales}
           Primaries == {D!Monitor(<<0, 0>>, z, s) : z \in Sizes, s \in Scales}
<1>2. Others \subseteq MonitorSet /\ Primaries \subseteq MonitorSet
  <2>1. <<0, 0>> \in Int \X Int /\ Corners \subseteq Int \X Int
    BY DEF D!DisplaysAssumption
  <2> QED BY <1>1, <2>1
<1>3. \/ monitors \in {<<p>> : p \in Primaries}
      \/ monitors \in {<<p, m>> : p \in Primaries, m \in Others}
      \/ monitors \in {<<p, m, n>> : p \in Primaries, m \in Others, n \in Others}
  BY DEF D!Init, D!Arrangements
<1> HIDE DEF Others, Primaries
<1>4. \A p, m, n \in MonitorSet :
        <<p>> \in Seq(MonitorSet) /\ <<p, m>> \in Seq(MonitorSet) /\ <<p, m, n>> \in Seq(MonitorSet)
  <2> DEFINE S == MonitorSet
  <2> HIDE DEF S
  <2>1. \A p, m, n \in S : <<p>> \in Seq(S) /\ <<p, m>> \in Seq(S) /\ <<p, m, n>> \in Seq(S)
    OBVIOUS
  <2> QED BY <2>1 DEF S
<1>5. monitors \in Seq(MonitorSet)
  <2>1. CASE monitors \in {<<p>> : p \in Primaries}
    BY <1>2, <1>4, <2>1
  <2>2. CASE monitors \in {<<p, m>> : p \in Primaries, m \in Others}
    <3>1. PICK p \in Primaries, m \in Others : monitors = <<p, m>>
      BY <2>2
    <3> QED BY <1>2, <1>4, <3>1
  <2>3. CASE monitors \in {<<p, m, n>> : p \in Primaries, m \in Others, n \in Others}
    <3>1. PICK p \in Primaries, m \in Others, n \in Others : monitors = <<p, m, n>>
      BY <2>3
    <3> QED BY <1>2, <1>4, <3>1
  <2> QED BY <1>3, <2>1, <2>2, <2>3
<1> QED BY <1>5 DEF D!Init, DisplaysInv, D!DisplaysAssumption

LEMMA MovedMonitors == ASSUME DisplaysInv, NEW x \in Int, NEW y \in Int PROVE D!MoveBy(x, y) \in Seq(MonitorSet)
<1>1. monitors \in Seq(MonitorSet) /\ DOMAIN monitors = 1 .. Len(monitors) /\ Len(monitors) \in Nat
  BY LenProperties DEF DisplaysInv
<1>2. ASSUME NEW m \in MonitorSet
      PROVE  [m EXCEPT !.physical = D!Moved(@, @.x - x, @.y - y), !.work = D!Moved(@, @.x - x, @.y - y)] \in MonitorSet
  <2>1. ASSUME NEW r \in Rects PROVE D!Moved(r, r.x - x, r.y - y) \in Rects
    <3> DEFINE a == r.x - x
               b == r.y - y
    <3>1. a \in Int /\ b \in Int /\ r.w \in Int /\ r.h \in Int
      BY DEF Rects
    <3> HIDE DEF a, b
    <3>2. D!Moved(r, a, b) \in Rects
      BY <3>1 DEF D!Moved, Rects
    <3> QED BY <3>2 DEF a, b
  <2> QED BY <2>1 DEF MonitorSet
<1>3. \A i \in 1 .. Len(monitors) : monitors[i] \in MonitorSet
  BY <1>1, ElementOfSeq
<1> DEFINE moved == [i \in 1 .. Len(monitors) |->
                      [monitors[i] EXCEPT !.physical = D!Moved(@, @.x - x, @.y - y), !.work = D!Moved(@, @.x - x, @.y - y)]]
<1>4. moved \in [1 .. Len(monitors) -> MonitorSet]
  <2> HIDE DEF MonitorSet
  <2> QED BY <1>2, <1>3
<1>5. D!MoveBy(x, y) = moved
  BY <1>1, Zenon DEF D!MoveBy
<1> HIDE DEF moved
<1> QED BY <1>1, <1>4, <1>5

LEMMA DisplaysNext == ASSUME D!DisplaysAssumption, DisplaysInv, D!Next PROVE DisplaysInv'
<1>1. CASE D!Look
  BY <1>1 DEF D!Look, DisplaysInv
<1>2. CASE D!Detach
  <2>1. monitors # <<>> /\ monitors' = D!Front(monitors)
    BY <1>2 DEF D!Detach, DisplaysInv
  <2>2. monitors' \in Seq(MonitorSet)
    <3> DEFINE last == Len(monitors) - 1
    <3>1. \A i \in 1 .. last : monitors[i] \in MonitorSet
      BY ElementOfSeq, LenProperties DEF DisplaysInv
    <3>2. last \in Int
      BY LenProperties DEF DisplaysInv
    <3> HIDE DEF last
    <3>3. SubSeq(monitors, 1, last) \in Seq(MonitorSet)
      BY <3>1, <3>2, SubSeqProperties
    <3> QED BY <2>1, <3>3 DEF D!Front, last
  <2> QED BY <1>2, <2>2 DEF D!Detach, D!Change, DisplaysInv, D!DisplaysAssumption
<1>3. CASE D!Rearrange
  <2>1. monitors' \in Seq(MonitorSet)
    <3>1. ASSUME NEW i \in DOMAIN monitors
          PROVE  monitors[i].physical.x \in Int /\ monitors[i].physical.y \in Int
      <4>1. monitors[i] \in MonitorSet
        BY ElementOfSeq, LenProperties DEF DisplaysInv
      <4> QED BY <4>1 DEF MonitorSet, Rects
    <3>2. D!MoveBy(1, 1) \in Seq(MonitorSet)
      BY MovedMonitors
    <3> QED BY <1>3, <3>1, <3>2, MovedMonitors DEF D!Rearrange
  <2> QED BY <1>3, <2>1 DEF D!Rearrange, D!Change, DisplaysInv, D!DisplaysAssumption
<1> QED BY <1>1, <1>2, <1>3 DEF D!Next

LEMMA DisplaysStay == ASSUME DisplaysInv, UNCHANGED displayVars PROVE DisplaysInv'
BY DEF DisplaysInv, displayVars

LEMMA DisplaysAreTyped == ASSUME DisplaysInv PROVE D!TypeOK
<1>1. \A i \in DOMAIN monitors : monitors[i] \in MonitorSet
  BY ElementOfSeq, LenProperties DEF DisplaysInv
<1> QED BY <1>1 DEF DisplaysInv, D!TypeOK, MonitorSet

-----------------------------------------------------------------------------
(* The parts together.  They share no variable, and only one of them moves.  *)

MarksInv == BadgesInv /\ PointerInv /\ WindowInv
EditorInv == AnswersInv /\ SelectionInv

LEMMA MarksStep == ASSUME M!MarksAssumption, MarksInv, M!Next PROVE MarksInv'
<1>1. annotations \in Seq(MarkSet) /\ redo_stack \in Seq(MarkSet) /\ counter_n \in Nat
  <2>1. Len(annotations) \in Nat
    BY LenProperties DEF MarksInv, BadgesInv, Lists
  <2> QED BY <2>1, CountType DEF MarksInv, BadgesInv, Lists
<1> QED BY <1>1, BadgesNext, PointerNext, WindowNext DEF MarksInv

LEMMA MarksStay == ASSUME MarksInv, UNCHANGED markVars PROVE MarksInv'
<1>1. UNCHANGED M!listVars /\ UNCHANGED M!screenVars
  BY DEF markVars, M!listVars, M!screenVars
<1>2. BadgesInv' /\ WindowInv'
  BY <1>1, ListsStay, WindowStays DEF MarksInv, markVars
<1>3. PointerInv'
  BY DEF MarksInv, PointerInv, markVars
<1> QED BY <1>2, <1>3 DEF MarksInv

LEMMA EditorStay == ASSUME EditorInv, UNCHANGED editorVars PROVE EditorInv'
<1>1. AnswersInv'
  BY SelectionKept DEF EditorInv, editorVars, E!textVars, E!ocrVars, E!cardVars
<1>2. SelectionInv'
  BY DEF EditorInv, SelectionInv, E!TypeOK, editorVars
<1> QED BY <1>1, <1>2 DEF EditorInv

(* What the lists and the tiles are, and what the session knows of its       *)
(* questions, is so in every state of an overlay window.                     *)
THEOREM PartsAreKept == Spec => [](MarksInv /\ EditorInv /\ DisplaysInv)
<1> USE EditorAssumptions DEF EditorAssumptions
<1>1. Init => MarksInv /\ EditorInv /\ DisplaysInv
  BY BadgesInit, PointerInit, WindowInit, AnswersInit, SelectionInit, DisplaysInit DEF Init, MarksInv, EditorInv
<1>2. MarksInv /\ EditorInv /\ DisplaysInv /\ [Next]_vars => (MarksInv /\ EditorInv /\ DisplaysInv)'
  <2> SUFFICES ASSUME MarksInv, EditorInv, DisplaysInv, [Next]_vars PROVE MarksInv' /\ EditorInv' /\ DisplaysInv'
    OBVIOUS
  <2>1. CASE M!Next /\ OnlyMarks
    BY <2>1, MarksStep, EditorStay, DisplaysStay DEF OnlyMarks
  <2>2. CASE E!Next /\ OnlyEditor
    <3>1. AnswersInv' /\ SelectionInv'
      BY <2>2, AnswersNext, SelectionNext DEF EditorInv, E!EditorAssumption
    <3> QED BY <2>2, <3>1, MarksStay, DisplaysStay DEF OnlyEditor, EditorInv
  <2>3. CASE D!Next /\ OnlyDisplays
    BY <2>3, DisplaysNext, MarksStay, EditorStay DEF OnlyDisplays
  <2>4. CASE OnlyRegion \/ UNCHANGED vars
    BY <2>4, MarksStay, EditorStay, DisplaysStay DEF OnlyRegion, vars
  <2> QED BY <2>1, <2>2, <2>3, <2>4 DEF Next
<1> QED BY <1>1, <1>2, PTL DEF Spec

(* Late answers of the recognizer and of the translator do not show: words   *)
(* fit what is selected and a translation the text that was asked for.       *)
THEOREM LateAnswersDoNotShow == Spec => []AnswersFit
<1>1. EditorInv => AnswersFit
  BY DEF EditorInv, AnswersInv, AnswersFit
<1> QED BY <1>1, PartsAreKept, PTL

(* Badges count from one without a hole, whatever is undone and redone.      *)
THEOREM BadgesAreCounted == Spec => []BadgesCount
<1>1. MarksInv => BadgesCount
  BY BadgesDo DEF MarksInv, BadgesCount
<1> QED BY <1>1, PartsAreKept, PTL

(* However many tiles, marks and points there are, repainting what an        *)
(* operation can have changed shows what painting everything would, in the   *)
(* bright copy and under the veil.                                           *)
THEOREM WindowIsTheList == Spec => []WindowShowsTheList
<1>1. MarksInv => WindowShowsTheList
  BY WindowShows DEF MarksInv, WindowShowsTheList
<1> QED BY <1>1, PartsAreKept, PTL

(* The lists hold marks with numbers in range, every changed tile was handed *)
(* to Slint, nothing is selected exactly while the session is idle, one      *)
(* toolbar is shown at most, and no look at the monitors goes on for ever.   *)
THEOREM EditorIsTyped == Spec => []EditorTypeOK
<1>1. MarksInv => M!TypeOK
  BY MarksAreTyped, EditorAssumptions DEF MarksInv, EditorAssumptions
<1>2. EditorInv => E!TypeOK
  BY DEF EditorInv, SelectionInv
<1>3. DisplaysInv => D!TypeOK
  BY DisplaysAreTyped
<1>4. MarksInv /\ EditorInv /\ DisplaysInv => EditorTypeOK
  BY <1>1, <1>2, <1>3 DEF EditorTypeOK
<1> QED BY <1>4, PartsAreKept, PTL

-----------------------------------------------------------------------------
(* The region along one axis (Region)                                        *)

Even(a) == 2 * (a \div 2) = a

Wide == R!Picture

(* Pixels of the overlay that are whole ones of the picture have even        *)
(* corners, and no corner is further than a pixel outside.                   *)
Bounded(r) == /\ Even(r.x) /\ Even(r.w) /\ r.x >= -2 /\ r.x + r.w <= Wide + 2 /\ r.w <= Wide + 2
              /\ r.w = 0 => r.x <= Wide

(* What a region along the axis is: an edge and a width, in half pixels.     *)
Rooms == [x : Int, w : Nat]

(* What a drag knows: the end that stays, the distance that is kept, or the  *)
(* region that was taken hold of; a new region never leaves the picture.     *)
PullInv ==
  /\ pulled = R!NotPulled \/ pulled = R!Pull(pulled.kind, pulled.from, pulled.base)
  /\ pulled.kind \in {"none", "create", "move", "resize", "keep"}
  /\ pulled.kind = "none" => pulled = R!NotPulled
  /\ pulled.kind # "none" => region \in Rooms
  /\ pulled.kind = "create" => /\ pulled.from \in 0 .. Wide
                               /\ region.x >= 0 /\ region.x + region.w <= Wide
  /\ pulled.kind = "resize" => pulled.from \in Int /\ pulled.from - pulled.base \in -2 .. 3
  /\ pulled.kind = "move" => pulled.from \in Int
  /\ pulled.kind = "keep" => pulled.from \in Rooms

(* At whole scales every number of the drag is even, and so no rounding adds *)
(* up: this is what keeps a region within a pixel of the picture.            *)
EvenInv ==
  Even(zoom) =>
    /\ region # R!NoRegion => Bounded(region)
    /\ pulled.kind = "create" => Even(pulled.from)
    /\ pulled.kind = "resize" => Even(pulled.from) /\ pulled.from >= -2 /\ pulled.from <= Wide + 2
    /\ pulled.kind = "keep" => Bounded(pulled.from)
    /\ pulled.kind = "move" => Even(pulled.from)

AxisInv ==
  /\ zoom \in Nat \ {0} /\ Wide \in Nat
  /\ region = R!NoRegion \/ region \in Rooms
  /\ PullInv /\ EvenInv

LEMMA EvenSums ==
  ASSUME NEW a \in Int, NEW b \in Int, Even(a), Even(b)
  PROVE  Even(a + b) /\ Even(a - b) /\ Even(b - a) /\ Even(0) /\ Even(2)
BY DEF Even

LEMMA EvenTimes ==
  ASSUME NEW a \in Int, NEW b \in Int, Even(b) PROVE Even(a * b)
<1> DEFINE m == b \div 2
<1>1. m \in Int /\ b = 2 * m
  BY DEF Even
<1> HIDE DEF m
<1>2. a * m \in Int /\ a * b = 2 * (a * m)
  BY <1>1
<1>3. \A n \in Int : Even(2 * n)
  BY DEF Even
<1> QED BY <1>2, <1>3

LEMMA IsEven == \A a \in Int : Even(a) <=> a % 2 = 0
BY DEF Even

(* js_round of an even number of halves is that number. *)
LEMMA RoundsEven == \A a \in Int : /\ R!JsRound(a) \in Int
                                   /\ 2 * R!JsRound(a) = a \/ 2 * R!JsRound(a) = a + 1
                                   /\ Even(a) => 2 * R!JsRound(a) = a
BY DEF R!JsRound, Even

LEMMA ToImgIs ==
  ASSUME zoom \in Nat \ {0}, Wide \in Nat, NEW c \in Int
  PROVE  R!ToImg(c) \in 0 .. Wide /\ (Even(zoom) => Even(R!ToImg(c)) /\ Even(Wide))
<1>1. c * zoom \in Int
  OBVIOUS
<1>2. R!ToImg(c) \in 0 .. Wide /\ R!ToImg(c) \in {c * zoom, 0, Wide}
  BY <1>1 DEF R!ToImg, R!Clamp, R!Lesser, R!Greater, Wide
<1>3. Even(zoom) => Even(c * zoom) /\ Even(0) /\ Even(Wide)
  <2>1. zoom \in Int /\ Across \in Int
    BY EditorAssumptions DEF EditorAssumptions, R!RegionAssumption
  <2>2. Even(zoom) => Even(c * zoom) /\ Even(Across * zoom)
    BY <2>1, EvenTimes, Zenon
  <2>3. Even(0)
    BY DEF Even
  <2> QED BY <2>2, <2>3, Zenon DEF Wide, R!Picture
<1> QED BY <1>2, <1>3

LEMMA SpanIs ==
  ASSUME NEW a \in Int, NEW b \in Int
  PROVE  /\ R!Span(a, b) \in Rooms
         /\ R!Span(a, b).x \in {a, b} /\ R!Span(a, b).x <= a /\ R!Span(a, b).x <= b
         /\ R!Span(a, b).x + R!Span(a, b).w \in {a, b}
         /\ R!Span(a, b).w \in {b - a, a - b}
BY DEF R!Span, R!Lesser, Rooms

(* round_sel, in half pixels. *)
Rounded(r) == [x |-> 2 * R!RoundSel(r).x, w |-> 2 * R!RoundSel(r).w]

LEMMA RoundedIs ==
  ASSUME NEW r \in Rooms
  PROVE  /\ Rounded(r) \in Rooms
         /\ Rounded(r).x - r.x \in 0 .. 1
         /\ (Rounded(r).x + Rounded(r).w) - (r.x + r.w) \in 0 .. 3
         /\ Wide \in Nat /\ Bounded(r) => Bounded(Rounded(r))
<1> DEFINE q == Rounded(r)
<1>1. r.x \in Int /\ r.w \in Nat
  BY DEF Rooms
<1>2. q.x = 2 * R!JsRound(r.x) /\ q.w = 2 * R!Greater(R!JsRound(r.w), 1) /\ q = [x |-> q.x, w |-> q.w]
  BY DEF Rounded, R!RoundSel
<1> HIDE DEF q
<1>3. q.x \in {r.x, r.x + 1} /\ (Even(r.x) => q.x = r.x)
  BY <1>1, <1>2, RoundsEven
<1>4. q.w \in {2, r.w, r.w + 1} /\ q.w \in Nat /\ (q.w = 2 => r.w \in 0 .. 2) /\ (Even(r.w) => q.w = r.w \/ (r.w = 0 /\ q.w = 2))
  <2>1. R!JsRound(r.w) \in Int /\ 2 * R!JsRound(r.w) \in {r.w, r.w + 1} /\ (Even(r.w) => 2 * R!JsRound(r.w) = r.w)
    BY <1>1, RoundsEven
  <2> QED BY <1>1, <1>2, <2>1 DEF R!Greater
<1>5. q \in Rooms
  <2>1. q.x \in Int /\ q.w \in Nat
    BY <1>1, <1>3, <1>4
  <2> QED BY <1>2, <2>1 DEF Rooms
<1>6. Wide \in Nat /\ Bounded(r) => Bounded(q)
  <2>1. Even(2)
    BY DEF Even
  <2> QED BY <1>1, <1>3, <1>4, <2>1 DEF Bounded
<1> QED BY <1>1, <1>3, <1>4, <1>5, <1>6 DEF q

(* Where a region is moved to. *)
LEMMA MovedIs ==
  ASSUME NEW r \in Rooms, NEW v \in Int, Wide \in Nat,
         NEW q, q = [r EXCEPT !.x = R!Clamp(v, 0, Wide - r.w)]
  PROVE  q \in Rooms /\ (Even(Wide) /\ Even(v) /\ Bounded(r) => Bounded(q))
<1> DEFINE x == R!Clamp(v, 0, Wide - r.w)
<1>1. r.x \in Int /\ r.w \in Nat
  BY DEF Rooms
<1>2. x \in {v, 0, Wide - r.w} /\ x <= Wide - r.w /\ (x >= 0 \/ x = Wide - r.w)
  BY <1>1 DEF R!Clamp, R!Lesser, R!Greater
<1>3. q.x = x /\ q.w = r.w /\ q = [x |-> x, w |-> r.w]
  BY DEF Rooms
<1> HIDE DEF x
<1>4. q \in Rooms
  BY <1>1, <1>2, <1>3 DEF Rooms
<1>5. ASSUME Even(Wide), Even(v), Bounded(r) PROVE Bounded(q)
  <2>1. Even(Wide - r.w) /\ Even(0)
    BY <1>1, <1>5, EvenSums DEF Bounded
  <2>2. Even(x)
    BY <1>2, <1>5, <2>1
  <2> QED BY <1>1, <1>2, <1>3, <1>5, <2>2 DEF Bounded
<1> QED BY <1>4, <1>5

LEMMA AxisNumbers ==
  ASSUME AxisInv PROVE zoom \in Nat \ {0} /\ Wide \in Nat /\ Across \in Nat /\ (Even(zoom) => Even(Wide))
<1>1. zoom \in Nat \ {0} /\ Wide \in Nat
  BY DEF AxisInv
<1>2. Even(zoom) => Even(Wide)
  BY <1>1, ToImgIs, 0 \in Int
<1> QED BY <1>1, <1>2, EditorAssumptions DEF EditorAssumptions, R!RegionAssumption

LEMMA NoRegionIsNone == R!NoRegion \notin Rooms
BY DEF R!NoRegion, Rooms

(* What a step leaves behind, put together. *)
LEMMA AxisGoesOn ==
  ASSUME AxisInv, zoom' = zoom, region' = R!NoRegion \/ region' \in Rooms, PullInv', EvenInv'
  PROVE  AxisInv'
BY DEF AxisInv, Wide, R!Picture

LEMMA CreateKeeps ==
  ASSUME AxisInv, NEW c \in Int, R!BeginCreate(c), zoom' = zoom PROVE AxisInv'
<1> DEFINE i == R!ToImg(c)
<1>1. i \in 0 .. Wide /\ (Even(zoom) => Even(i)) /\ Wide \in Nat
  BY AxisNumbers, ToImgIs
<1>2. region' = [x |-> i, w |-> 0] /\ pulled' = R!Pull("create", i, c)
  BY DEF R!BeginCreate
<1> HIDE DEF i
<1>3. region' \in Rooms /\ region'.x = i /\ region'.w = 0
  BY <1>1, <1>2 DEF Rooms
<1>4. Wide' = Wide
  BY DEF Wide, R!Picture
<1>5. pulled'.kind = "create" /\ pulled'.from = i /\ pulled' = R!Pull(pulled'.kind, pulled'.from, pulled'.base)
  BY <1>2 DEF R!Pull
<1>6. PullInv'
  BY <1>1, <1>3, <1>4, <1>5 DEF PullInv
<1>7. EvenInv'
  <2>1. Even(0)
    BY DEF Even
  <2> QED BY <1>1, <1>3, <1>4, <1>5, <2>1 DEF EvenInv, Bounded
<1> QED BY <1>3, <1>6, <1>7, AxisGoesOn

LEMMA GrabKeeps ==
  ASSUME AxisInv, region \in Rooms, NEW end \in R!Ends, NEW c \in Int, R!GrabHandle(end, c), zoom' = zoom
  PROVE  AxisInv'
<1>0. PICK r : r = Rounded(region)
  OBVIOUS
<1>1. /\ region' = region
      /\ pulled' = IF end = 1 THEN R!Pull("keep", r, 0) ELSE R!Pull("resize", R!Anchor(end, r), R!Anchor(end, region))
  BY <1>0 DEF R!GrabHandle, Rounded
<1>2. /\ r \in Rooms /\ r.x - region.x \in 0 .. 1 /\ (r.x + r.w) - (region.x + region.w) \in 0 .. 3
      /\ Bounded(region) => Bounded(r)
  BY <1>0, RoundedIs, AxisNumbers
<1>3. Wide' = Wide /\ Wide \in Nat
  BY AxisNumbers DEF Wide, R!Picture
<1>4. r.x \in Int /\ r.w \in Nat /\ region.x \in Int /\ region.w \in Nat
  BY <1>2 DEF Rooms
<1>5. region # R!NoRegion /\ (Even(zoom) => Bounded(region))
  BY NoRegionIsNone DEF AxisInv, EvenInv
<1>6. CASE end = 1
  <2>1. pulled'.kind = "keep" /\ pulled'.from = r /\ pulled' = R!Pull(pulled'.kind, pulled'.from, pulled'.base)
    BY <1>1, <1>6 DEF R!Pull
  <2>2. PullInv'
    BY <1>1, <1>2, <2>1 DEF PullInv
  <2>3. Even(zoom) => Bounded(pulled.from)' /\ Bounded(region)'
    BY <1>1, <1>2, <1>3, <1>5, <2>1 DEF Bounded
  <2>4. EvenInv'
    BY <2>1, <2>3, <1>1 DEF EvenInv
  <2> QED BY <1>1, <2>2, <2>4, AxisGoesOn
<1>7. CASE end # 1
  <2>0. PICK a, b : a = R!Anchor(end, r) /\ b = R!Anchor(end, region)
    OBVIOUS
  <2>1. pulled'.kind = "resize" /\ pulled'.from = a /\ pulled'.base = b /\ pulled' = R!Pull(pulled'.kind, pulled'.from, pulled'.base)
    BY <1>1, <1>7, <2>0 DEF R!Pull
  <2>2. a \in {r.x, r.x + r.w} /\ a - b \in 0 .. 3
    BY <1>2, <1>4, <2>0 DEF R!Anchor
  <2>3. PullInv'
    BY <1>1, <1>4, <2>1, <2>2 DEF PullInv
  <2>4. Even(zoom) => Bounded(region)' /\ Even(a) /\ a >= -2 /\ a <= Wide + 2
    <3> SUFFICES ASSUME Even(zoom) PROVE Bounded(region)' /\ Even(a) /\ a >= -2 /\ a <= Wide + 2
      OBVIOUS
    <3>1. Bounded(region) /\ Bounded(r)
      BY <1>2, <1>5
    <3>2. Bounded(region)'
      BY <1>1, <1>3, <3>1 DEF Bounded
    <3>3. Even(r.x) /\ Even(r.w) /\ r.x \in Int /\ r.w \in Int
      BY <1>4, <3>1 DEF Bounded
    <3>4. Even(r.x + r.w)
      BY <3>3, EvenSums
    <3> QED BY <1>3, <1>4, <2>2, <3>1, <3>2, <3>3, <3>4 DEF Bounded
  <2>5. EvenInv'
    BY <1>1, <1>3, <2>1, <2>4 DEF EvenInv
  <2> QED BY <1>1, <2>3, <2>5, AxisGoesOn
<1> QED BY <1>6, <1>7

(* What a finished pull leaves, where it leaves a region that was allowed.   *)
LEMMA ReleaseKeeps ==
  ASSUME AxisInv, zoom' = zoom, pulled' = R!NotPulled, region' = R!NoRegion \/ region' \in Rooms,
         Even(zoom) /\ region' # R!NoRegion => Bounded(region)'
  PROVE  AxisInv'
<1>1. pulled'.kind = "none"
  BY DEF R!NotPulled
<1>2. PullInv' /\ EvenInv'
  BY <1>1 DEF PullInv, EvenInv
<1> QED BY <1>2, AxisGoesOn

LEMMA DownKeeps ==
  ASSUME AxisInv, NEW c \in Int, R!PointerDown(c) PROVE AxisInv'
<1>1. zoom' = zoom
  BY DEF R!PointerDown
<1>2. CASE R!BeginCreate(c)
  BY <1>1, <1>2, CreateKeeps
<1>3. CASE region # R!NoRegion /\ \E end \in R!Ends : R!GrabHandle(end, c)
  BY <1>1, <1>3, GrabKeeps DEF AxisInv
<1>4. CASE region # R!NoRegion /\ pulled' = R!Pull("move", R!ToImg(c) - region.x, 0) /\ region' = region
  <2>1. PICK i : i = R!ToImg(c)
    OBVIOUS
  <2>2. i \in Int /\ (Even(zoom) => Even(i)) /\ region \in Rooms /\ region.x \in Int
    BY <1>4, <2>1, AxisNumbers, ToImgIs DEF AxisInv, Rooms
  <2>3. pulled'.kind = "move" /\ pulled'.from = i - region.x /\ pulled' = R!Pull(pulled'.kind, pulled'.from, pulled'.base)
    BY <1>4, <2>1 DEF R!Pull
  <2>4. PullInv'
    BY <1>4, <2>2, <2>3 DEF PullInv
  <2>5. Even(zoom) => Bounded(region) /\ Even(region.x)
    BY <1>4 DEF AxisInv, EvenInv, Bounded
  <2>6. Even(zoom) => Even(i - region.x)
    BY <2>2, <2>5, EvenSums
  <2>7. Even(zoom) => Bounded(region)'
    BY <1>1, <1>4, <2>5 DEF Bounded, Wide, R!Picture
  <2>8. EvenInv'
    BY <1>1, <2>3, <2>6, <2>7 DEF EvenInv
  <2> QED BY <1>1, <1>4, <2>2, <2>4, <2>8, AxisGoesOn
<1> QED BY <1>2, <1>3, <1>4 DEF R!PointerDown

LEMMA MoveKeeps ==
  ASSUME AxisInv, NEW c \in Int, R!PointerMove(c) PROVE AxisInv'
<1>1. zoom' = zoom /\ pulled' = pulled
  BY DEF R!PointerMove
<1>2. PICK i : i = R!ToImg(c)
  OBVIOUS
<1>3. /\ i \in 0 .. Wide /\ (Even(zoom) => Even(i) /\ Even(Wide)) /\ Wide \in Nat /\ Wide' = Wide
      /\ PullInv /\ EvenInv
  BY <1>1, <1>2, AxisNumbers, ToImgIs DEF AxisInv, Wide, R!Picture
<1> SUFFICES /\ region' = R!NoRegion \/ region' \in Rooms
             /\ PullInv' /\ EvenInv'
  BY <1>1, AxisGoesOn
<1>4. CASE pulled.kind \in {"create", "resize"}
  <2>1. region' = R!Span(pulled.from, i)
    BY <1>2, <1>4 DEF R!PointerMove
  <2>2. pulled.from \in Int /\ i \in Int
    BY <1>3, <1>4 DEF PullInv
  <2>3. PICK a : a = pulled.from
    OBVIOUS
  <2>4. /\ region' \in Rooms /\ region'.x \in {a, i} /\ region'.x <= a /\ region'.x <= i
        /\ region'.x + region'.w \in {a, i} /\ region'.w \in {i - a, a - i}
    BY <2>1, <2>2, <2>3, SpanIs
  <2>5. region'.x \in Int /\ region'.w \in Nat
    BY <2>4 DEF Rooms
  <2>6. PullInv'
    BY <1>1, <1>3, <1>4, <2>2, <2>3, <2>4, <2>5 DEF PullInv
  <2>7. ASSUME Even(zoom) PROVE Bounded(region)'
    <3>1. Even(a) /\ a >= -2 /\ a <= Wide + 2
      BY <1>3, <1>4, <2>2, <2>3, <2>7 DEF EvenInv, PullInv
    <3>2. Even(region'.x)
      BY <1>3, <2>4, <2>7, <3>1
    <3>3. Even(i - a) /\ Even(a - i)
      BY <1>3, <2>2, <2>3, <2>7, <3>1, EvenSums
    <3>4. Even(region'.w)
      BY <2>4, <3>3
    <3>5. region'.w <= Wide + 2 /\ (region'.w = 0 => region'.x <= Wide)
      BY <1>3, <2>2, <2>3, <2>4, <2>5, <3>1
    <3> QED BY <1>3, <2>2, <2>3, <2>4, <2>5, <3>1, <3>2, <3>4, <3>5 DEF Bounded
  <2>8. EvenInv'
    BY <1>1, <1>3, <1>4, <2>7 DEF EvenInv
  <2> QED BY <2>4, <2>6, <2>8
<1>5. CASE pulled.kind = "move"
  <2>1. region' = [region EXCEPT !.x = R!Clamp(i - pulled.from, 0, Wide - region.w)]
    BY <1>2, <1>5 DEF R!PointerMove, Wide
  <2>2. region \in Rooms /\ i - pulled.from \in Int /\ pulled.from \in Int /\ i \in Int
    BY <1>3, <1>5 DEF PullInv
  <2>3. PICK v : v = i - pulled.from
    OBVIOUS
  <2>4. region' \in Rooms
    BY <1>3, <2>1, <2>2, MovedIs
  <2>5. PullInv'
    BY <1>1, <1>3, <1>5, <2>4 DEF PullInv
  <2>6. ASSUME Even(zoom) PROVE Bounded(region)'
    <3>1. Even(pulled.from) /\ Bounded(region)
      BY <1>3, <1>5, <2>2, <2>6, NoRegionIsNone DEF EvenInv
    <3>2. Even(v)
      BY <1>3, <2>2, <2>3, <2>6, <3>1, EvenSums
    <3>3. PICK q : q = region'
      OBVIOUS
    <3>4. Bounded(q)
      BY <1>3, <2>1, <2>2, <2>3, <2>6, <3>1, <3>2, <3>3, MovedIs
    <3> QED BY <1>3, <3>3, <3>4 DEF Bounded
  <2>7. EvenInv'
    BY <1>1, <1>3, <1>5, <2>6 DEF EvenInv
  <2> QED BY <2>4, <2>5, <2>7
<1>6. CASE pulled.kind = "keep"
  <2>1. region' = pulled.from /\ pulled.from \in Rooms
    BY <1>3, <1>6 DEF R!PointerMove, PullInv
  <2>2. PullInv'
    BY <1>1, <1>3, <1>6, <2>1 DEF PullInv
  <2>3. EvenInv'
    BY <1>1, <1>3, <1>6, <2>1 DEF EvenInv, Bounded
  <2> QED BY <2>1, <2>2, <2>3
<1>7. CASE pulled.kind = "none"
  <2>1. region' = region
    BY <1>7 DEF R!PointerMove
  <2>2. PullInv' /\ EvenInv'
    BY <1>1, <1>3, <1>7, <2>1 DEF PullInv, EvenInv, Bounded
  <2> QED BY <2>1, <2>2 DEF AxisInv
<1> QED BY <1>3, <1>4, <1>5, <1>6, <1>7 DEF PullInv

(* Pixels of the overlay are whole halves of the picture's.                  *)
LEMMA HoveredIs ==
  ASSUME AxisInv, NEW h \in R!Hovered, NEW q, q = [x |-> h.x * zoom, w |-> h.w * zoom]
  PROVE  q \in Rooms /\ (Even(zoom) => Bounded(q))
<1>1. h.x \in Nat /\ h.w \in Nat /\ h.x + h.w <= Across /\ Across \in Nat /\ h.w >= 9 /\ zoom \in Nat \ {0}
  BY AxisNumbers DEF R!Hovered
<1>2. /\ h.x * zoom \in Nat /\ h.w * zoom \in Nat /\ h.x * zoom + h.w * zoom <= Across * zoom
  <2>1. PICK d : d = Across - h.x - h.w
    OBVIOUS
  <2>2. d \in Nat /\ Across = (h.x + h.w) + d
    BY <1>1, <2>1
  <2>3. PICK i, w, z : i = h.x /\ w = h.w /\ z = zoom
    OBVIOUS
  <2>4. i \in Nat /\ w \in Nat /\ z \in Nat /\ ((i + w) + d) * z = (i * z + w * z) + d * z
    BY <1>1, <2>2, <2>3
  <2>5. i * z \in Nat /\ w * z \in Nat /\ d * z \in Nat
    BY <2>2, <2>4
  <2> QED BY <2>2, <2>3, <2>4, <2>5
<1>3. PICK a, b : a = h.x * zoom /\ b = h.w * zoom
  OBVIOUS
<1>4. a \in Nat /\ b \in Nat /\ a + b <= Wide /\ q = [x |-> a, w |-> b]
  BY <1>2, <1>3 DEF Wide, R!Picture
<1>5. Even(zoom) => Even(a) /\ Even(b)
  BY <1>1, <1>3, EvenTimes
<1>6. Wide \in Nat
  BY AxisNumbers
<1> QED BY <1>4, <1>5, <1>6 DEF Rooms, Bounded

LEMMA WholeIs ==
  ASSUME AxisInv PROVE R!Whole \in Rooms /\ (Even(zoom) => Bounded(R!Whole))
<1>1. Wide \in Nat /\ (Even(zoom) => Even(Wide)) /\ Even(0)
  BY AxisNumbers DEF Even
<1> QED BY <1>1 DEF R!Whole, Rooms, Bounded, Wide

LEMMA UpKeeps ==
  ASSUME AxisInv, NEW c \in Int, R!PointerUp(c) PROVE AxisInv'
<1>1. zoom' = zoom /\ pulled' = R!NotPulled /\ pulled # R!NotPulled /\ Wide' = Wide
  BY DEF R!PointerUp, Wide, R!Picture
<1>2. CASE region' = region
  <2>1. region' = R!NoRegion \/ region' \in Rooms
    BY <1>2 DEF AxisInv
  <2>2. Even(zoom) /\ region' # R!NoRegion => Bounded(region)'
    BY <1>1, <1>2 DEF AxisInv, EvenInv, Bounded
  <2> QED BY <1>1, <2>1, <2>2, ReleaseKeeps
<1>3. CASE region' = R!NoRegion
  BY <1>1, <1>3, ReleaseKeeps
<1>4. CASE region' \in {R!Whole} \cup {[x |-> h.x * zoom, w |-> h.w * zoom] : h \in R!Hovered}
  <2>1. PICK q : q = region'
    OBVIOUS
  <2>2. q \in Rooms /\ (Even(zoom) => Bounded(q))
    BY <1>4, <2>1, WholeIs, HoveredIs
  <2>3. Even(zoom) => Bounded(region)'
    BY <1>1, <2>1, <2>2 DEF Bounded
  <2> QED BY <1>1, <2>1, <2>2, <2>3, ReleaseKeeps
<1> QED BY <1>2, <1>3, <1>4 DEF R!PointerUp

LEMMA NudgeKeeps ==
  ASSUME AxisInv, NEW step \in Int, R!Nudge(step) PROVE AxisInv'
<1>1. /\ zoom' = zoom /\ pulled' = pulled /\ pulled = R!NotPulled /\ region # R!NoRegion
      /\ region' = [region EXCEPT !.x = R!Clamp(region.x + step * zoom, 0, Wide - region.w)]
  BY DEF R!Nudge, Wide
<1>2. Wide' = Wide /\ Wide \in Nat /\ region \in Rooms /\ zoom \in Int /\ (Even(zoom) => Even(Wide) /\ Bounded(region))
  BY <1>1, AxisNumbers DEF AxisInv, EvenInv, Wide, R!Picture
<1>3. PICK d, v : d = step * zoom /\ v = region.x + d
  OBVIOUS
<1>4. d \in Int /\ region.x \in Int /\ v \in Int
  BY <1>2, <1>3 DEF Rooms
<1>5. Even(zoom) => Even(region.x) /\ Even(d)
  BY <1>2, <1>3, EvenTimes DEF Bounded
<1>6. Even(zoom) => Even(v)
  BY <1>3, <1>4, <1>5, EvenSums
<1>7. PICK q : q = region'
  OBVIOUS
<1>8. q \in Rooms /\ (Even(zoom) => Bounded(q))
  BY <1>1, <1>2, <1>3, <1>4, <1>6, <1>7, MovedIs
<1>9. Even(zoom) => Bounded(region)'
  BY <1>2, <1>7, <1>8 DEF Bounded
<1> QED BY <1>1, <1>7, <1>8, <1>9, ReleaseKeeps

LEMMA LetGoKeeps ==
  ASSUME AxisInv, R!LetGo PROVE AxisInv'
<1>1. zoom' = zoom /\ pulled' = R!NotPulled /\ region' \in {region, R!NoRegion} /\ Wide' = Wide
  BY DEF R!LetGo, Wide, R!Picture
<1>2. region' = R!NoRegion \/ region' \in Rooms
  BY <1>1 DEF AxisInv
<1>3. Even(zoom) /\ region' # R!NoRegion => Bounded(region)'
  BY <1>1 DEF AxisInv, EvenInv, Bounded
<1> QED BY <1>1, <1>2, <1>3, ReleaseKeeps

LEMMA TakeAllKeeps ==
  ASSUME AxisInv, R!TakeAll PROVE AxisInv'
<1>1. region' = R!Whole /\ zoom' = zoom /\ pulled' = pulled /\ Wide' = Wide /\ Wide \in Nat
  BY AxisNumbers DEF R!TakeAll, Wide, R!Picture
<1>2. region' \in Rooms /\ region'.x = 0 /\ region'.w = Wide
  BY <1>1, WholeIs DEF R!Whole, Wide
<1>3. PullInv'
  BY <1>1, <1>2 DEF AxisInv, PullInv
<1>4. PICK q : q = R!Whole
  OBVIOUS
<1>5. Even(zoom) => Bounded(region)'
  BY <1>1, <1>4, WholeIs DEF Bounded
<1>6. EvenInv'
  BY <1>1, <1>5 DEF AxisInv, EvenInv, Bounded
<1> QED BY <1>1, <1>2, <1>3, <1>6, AxisGoesOn

LEMMA AxisStep ==
  ASSUME AxisInv, R!Next PROVE AxisInv'
<1>1. ASSUME NEW c \in -1 .. Across + 1, R!PointerDown(c) \/ R!PointerMove(c) \/ R!PointerUp(c) PROVE AxisInv'
  <2>1. c \in Int
    BY AxisNumbers
  <2> QED BY <1>1, <2>1, DownKeeps, MoveKeeps, UpKeeps
<1>2. ASSUME NEW step \in {-10, -1, 1, 10}, R!Nudge(step) PROVE AxisInv'
  BY <1>2, NudgeKeeps, step \in Int
<1> QED BY <1>1, <1>2, LetGoKeeps, TakeAllKeeps DEF R!Next

LEMMA AxisBegins ==
  ASSUME NEW z \in Zooms, R!AxisInit(z) PROVE AxisInv
<1>1. zoom = z /\ zoom \in Nat \ {0} /\ Across \in Nat /\ region = R!NoRegion /\ pulled = R!NotPulled
  BY EditorAssumptions DEF R!AxisInit, EditorAssumptions, R!RegionAssumption
<1>2. Wide \in Nat
  BY <1>1 DEF Wide, R!Picture
<1>3. pulled.kind = "none"
  BY <1>1 DEF R!NotPulled
<1> QED BY <1>1, <1>2, <1>3 DEF AxisInv, PullInv, EvenInv

LEMMA RegionStays ==
  ASSUME AxisInv PROVE R!RegionIsInThePicture
<1> SUFFICES ASSUME region # R!NoRegion
             PROVE  /\ pulled.kind = "create" =>
                         /\ region.x >= 0 /\ region.x + region.w <= Wide
                         /\ region.w >= 6 => 2 * R!RoundSel(region).x < Wide
                    /\ zoom % 2 = 0 => region.w >= 0 /\ region.x >= -2 /\ region.x + region.w <= Wide + 2
                    /\ pulled.kind = "resize" => pulled.from - pulled.base \in -2 .. 3
  BY DEF R!RegionIsInThePicture, Wide
<1>1. region \in Rooms /\ region.x \in Int /\ region.w \in Nat /\ Wide \in Nat /\ zoom \in Int
  BY DEF AxisInv, Rooms
<1>2. ASSUME pulled.kind = "create"
      PROVE  region.x >= 0 /\ region.x + region.w <= Wide /\ (region.w >= 6 => 2 * R!RoundSel(region).x < Wide)
  <2>1. region.x >= 0 /\ region.x + region.w <= Wide
    BY <1>2 DEF AxisInv, PullInv
  <2>2. 2 * R!RoundSel(region).x \in {region.x, region.x + 1}
    BY <1>1, RoundsEven DEF R!RoundSel
  <2> QED BY <1>1, <2>1, <2>2
<1>3. zoom % 2 = 0 => Bounded(region)
  BY <1>1, IsEven DEF AxisInv, EvenInv
<1>4. pulled.kind = "resize" => pulled.from - pulled.base \in -2 .. 3
  BY DEF AxisInv, PullInv
<1> QED BY <1>1, <1>2, <1>3, <1>4 DEF Bounded

(* The least member of a set of indices, of which there is always one.       *)
LEMMA TheLeast ==
  ASSUME NEW S \in SUBSET Nat, S # {} PROVE R!Min(S) \in S
<1> DEFINE Less == {p \in Nat \X Nat : p[1] < p[2]}
<1>1. IsWellFoundedOn(Less, Nat)
  BY NatLessThanWellFounded DEF OpToRel
<1>2. PICK m \in S : \A k \in S : <<k, m>> \notin Less
  <2> HIDE DEF Less
  <2> QED BY <1>1, WFMin
<1>3. \A a, b \in Nat : <<a, b>> \in Less <=> a < b
  OBVIOUS
<1> HIDE DEF Less
<1>4. \A k \in S : m <= k
  <2> TAKE k \in S
  <2>1. ~ (k < m) /\ k \in Nat /\ m \in Nat
    BY <1>2, <1>3
  <2> QED BY <2>1
<1> QED BY <1>4 DEF R!Min

(* Corners that a rectangle is tried with are on the screen.                 *)
LEMMA CornersAreNear ==
  ASSUME NEW v \in Screens, NEW rc \in R!Rects(v)
  PROVE  /\ v[1] \in Nat /\ v[2] \in Nat /\ v[1] >= 736 /\ v[2] >= 448
         /\ rc.x \in Nat /\ rc.y \in Nat /\ rc.w \in Nat \ {0} /\ rc.h \in Nat \ {0}
         /\ rc.x + rc.w <= v[1] /\ rc.y + rc.h <= v[2]
<1>1. v[1] \in Nat /\ v[2] \in Nat /\ v[1] >= 736 /\ v[2] >= 448
  BY EditorAssumptions DEF EditorAssumptions, R!RegionAssumption
<1>2. ASSUME NEW n \in Nat, n >= 448, NEW s \in R!Spans(n)
      PROVE  s.x \in Nat /\ s.w \in Nat /\ s.x + s.w <= n
  <2>1. PICK a \in R!Near(n), b \in R!Near(n) : s = R!Span(a, b)
    BY <1>2 DEF R!Spans
  <2>2. a \in 0 .. n /\ b \in 0 .. n
    BY <1>2 DEF R!Near
  <2> QED BY <2>1, <2>2 DEF R!Span, R!Lesser
<1>3. PICK a \in {s \in R!Spans(v[1]) : s.w > 0}, b \in {s \in R!Spans(v[2]) : s.w > 0} : rc = R!Rect(a.x, b.x, a.w, b.w)
  BY DEF R!Rects
<1>4. rc.x = a.x /\ rc.y = b.x /\ rc.w = a.w /\ rc.h = b.w
  BY <1>3 DEF R!Rect
<1>5. a.x \in Nat /\ a.w \in Nat \ {0} /\ a.x + a.w <= v[1]
  BY <1>1, <1>2
<1>6. b.x \in Nat /\ b.w \in Nat \ {0} /\ b.x + b.w <= v[2]
  BY <1>1, <1>2
<1> QED BY <1>1, <1>4, <1>5, <1>6

LEMMA BarsReach ==
  ASSUME NEW v \in Screens, placed.rc \in R!Rects(v), placed.view = v
  PROVE  R!BarsAreInReach
<1> DEFINE rc == placed.rc
           bar == R!ToolbarAt(rc, v)
           options == R!OptionsAt(bar, v)
           text == R!TextToolbarAt(rc, v)
<1>1. PICK x, y, w, h, a, b : x = rc.x /\ y = rc.y /\ w = rc.w /\ h = rc.h /\ a = v[1] /\ b = v[2]
  OBVIOUS
<1>2. /\ a \in Nat /\ b \in Nat /\ a >= 736 /\ b >= 448
      /\ x \in Nat /\ y \in Nat /\ w \in Nat /\ h \in Nat /\ x + w <= a /\ y + h <= b
  BY <1>1, CornersAreNear
<1>3. \A width \in Nat : width + 16 <= a => R!Centred(rc, v, width) \in 8 .. a - width - 8
  BY <1>1, <1>2 DEF R!Centred, R!Clamp, R!Lesser, R!Greater
<1>4. bar.x \in 8 .. a - 728
  BY <1>2, <1>3 DEF R!ToolbarAt, R!TOOLBAR_W
<1>5. /\ bar.y \in 8 .. b - 54
      /\ y >= 64 \/ y + h + 64 <= b => bar.y >= y + h \/ bar.y + 46 <= y
  BY <1>1, <1>2 DEF R!ToolbarAt, R!TOOLBAR_H, R!Lesser, R!Greater
<1>6. text.x \in 8 .. a - 175 /\ text.y \in 8 .. b - 54
  BY <1>1, <1>2, <1>3 DEF R!TextToolbarAt, R!TEXT_TOOLBAR_W, R!TEXT_TOOLBAR_H, R!Greater
<1>7. PICK p, q : p = bar.x /\ q = bar.y
  OBVIOUS
<1>8. options.x \in 8 .. a - 380 /\ options.y \in 8 .. b - 52 /\ (q + 46 <= options.y \/ options.y + 44 <= q)
  BY <1>1, <1>2, <1>4, <1>5, <1>7
     DEF R!OptionsAt, R!TOOLBAR_H, R!OPTIONS_W, R!OPTIONS_H, R!Clamp, R!Lesser, R!Greater
<1> HIDE DEF bar, options, text
<1>9. /\ bar.x >= 8 /\ bar.x + 720 <= v[1] - 8 /\ bar.y >= 8 /\ bar.y + 46 <= v[2] - 8
      /\ options.x >= 8 /\ options.x + 372 <= v[1] - 8 /\ options.y >= 8 /\ options.y + 44 <= v[2] - 8
      /\ text.x >= 8 /\ text.x + 167 <= v[1] - 8 /\ text.y >= 8 /\ text.y + 46 <= v[2] - 8
      /\ bar.y + 46 <= options.y \/ options.y + 44 <= bar.y
      /\ rc.y >= 46 + 18 \/ rc.y + rc.h + 46 + 18 <= v[2] => bar.y >= rc.y + rc.h \/ bar.y + 46 <= rc.y
  BY <1>1, <1>2, <1>4, <1>5, <1>6, <1>7, <1>8
<1> QED BY <1>9 DEF R!BarsAreInReach, bar, options, text, R!TOOLBAR_W, R!TOOLBAR_H, R!OPTIONS_W, R!OPTIONS_H,
                    R!TEXT_TOOLBAR_W, R!TEXT_TOOLBAR_H

LEMMA LabelsReach ==
  ASSUME NEW v \in Screens, placed.rc \in R!Rects(v), placed.view = v
  PROVE  R!LabelsAreInReach
<1> DEFINE rc == placed.rc
<1>1. PICK x, y, w, h, a, b : x = rc.x /\ y = rc.y /\ w = rc.w /\ h = rc.h /\ a = v[1] /\ b = v[2]
  OBVIOUS
<1>2. /\ a \in Nat /\ b \in Nat /\ a >= 736 /\ b >= 448
      /\ x \in Nat /\ y \in Nat /\ w \in Nat /\ h \in Nat /\ x + w <= a /\ y + h <= b
  BY <1>1, CornersAreNear
<1>3. R!DimsAt(rc, v).x \in 8 .. v[1] - 90 /\ R!DimsAt(rc, v).y \in 6 .. v[2] + 8
  BY <1>1, <1>2 DEF R!DimsAt, R!Clamp, R!Lesser, R!Greater
<1>4. R!FlashAt(rc, v).x \in 80 .. v[1] - 80 /\ R!FlashAt(rc, v).y \in 20 .. v[2]
  BY <1>1, <1>2 DEF R!FlashAt, R!Clamp, R!Lesser, R!Greater
<1>5. ASSUME NEW height \in {60, v[2] - 16}
      PROVE  LET place == R!CardAt(rc, v, 340, height)
             IN  /\ place.x >= 8 /\ place.x + 340 <= v[1] - 8 /\ place.y >= 8 /\ place.y + height <= v[2] - 8
                 /\ rc.x >= 360 \/ rc.x + rc.w + 360 <= v[1] => place.x >= rc.x + rc.w \/ place.x + 340 <= rc.x
  <2>1. height \in Nat /\ height <= b - 16
    BY <1>1, <1>2
  <2> QED BY <1>1, <1>2, <2>1 DEF R!CardAt, R!Clamp, R!Lesser, R!Greater
<1> QED BY <1>3, <1>4, <1>5 DEF R!LabelsAreInReach

LEMMA LensReaches ==
  ASSUME NEW v \in Screens, NEW k \in Zooms, placed.view = v, placed.k = k,
         placed.x \in R!Near(v[1]) \cup (v[1] - 210 .. v[1] - 190), placed.y \in R!Near(v[2])
  PROVE  R!LensIsBesideThePointer
<1>1. PICK x, y, a, b : x = placed.x /\ y = placed.y /\ a = v[1] /\ b = v[2]
  OBVIOUS
<1>2. a \in Nat /\ b \in Nat /\ a >= 736 /\ b >= 448 /\ k \in Nat \ {0}
  BY <1>1, EditorAssumptions DEF EditorAssumptions, R!RegionAssumption
<1>3. x \in 0 .. a /\ y \in 0 .. b
  BY <1>1, <1>2 DEF R!Near
<1>4. ASSUME NEW n \in Nat, n >= 2, NEW c \in Int
      PROVE  R!Clamp(R!JsRound(c), 0, n \div 2 - 1) \in Nat /\ R!Clamp(R!JsRound(c), 0, n \div 2 - 1) * 2 < n
  <2>1. R!JsRound(c) \in Int
    BY RoundsEven
  <2> QED BY <1>4, <2>1 DEF R!Clamp, R!Lesser, R!Greater
<1>5. a * k \in Nat /\ a * k >= 2 /\ b * k \in Nat /\ b * k >= 2 /\ x * k \in Int /\ y * k \in Int
  <2>1. \A n \in Nat : n >= 2 => n * k \in Nat /\ n * k >= 2
    <3> TAKE n \in Nat
    <3>1. PICK d : d = k - 1
      OBVIOUS
    <3>2. d \in Nat /\ n * d \in Nat /\ n * k = n + n * d
      BY <1>2, <3>1
    <3> QED BY <3>2
  <2> QED BY <1>2, <1>3, <2>1
<1> DEFINE m == R!Magnifier(x, y, v, k)
<1>6. m.ix * 2 < a * k /\ m.iy * 2 < b * k /\ m.ix >= 0 /\ m.iy >= 0
  <2>1. PICK c, d, n, l : c = x * k /\ d = y * k /\ n = a * k /\ l = b * k
    OBVIOUS
  <2>2. c \in Int /\ d \in Int /\ n \in Nat /\ l \in Nat /\ n >= 2 /\ l >= 2
    BY <1>5, <2>1
  <2>3. m.ix = R!Clamp(R!JsRound(c), 0, n \div 2 - 1) /\ m.iy = R!Clamp(R!JsRound(d), 0, l \div 2 - 1)
    BY <1>1, <2>1 DEF R!Magnifier
  <2>4. PICK i, j : i = R!Clamp(R!JsRound(c), 0, n \div 2 - 1) /\ j = R!Clamp(R!JsRound(d), 0, l \div 2 - 1)
    OBVIOUS
  <2>5. i \in Nat /\ i * 2 < n /\ j \in Nat /\ j * 2 < l
    BY <1>4, <2>2, <2>4
  <2> HIDE DEF m
  <2> QED BY <2>1, <2>3, <2>4, <2>5
<1>7. m.x >= 0 /\ m.x + 159 <= a /\ x \notin m.x .. m.x + 159
  BY <1>1, <1>2, <1>3 DEF R!Magnifier, R!MAGNIFIER_W
<1>8. m.y >= 0 /\ m.y + 192 <= b /\ y \notin m.y .. m.y + 192
  BY <1>1, <1>2, <1>3 DEF R!Magnifier, R!MAGNIFIER_H
<1> HIDE DEF m
<1> QED BY <1>1, <1>6, <1>7, <1>8 DEF R!LensIsBesideThePointer, R!MAGNIFIER_W, R!MAGNIFIER_H, m

LEMMA HandlesReach ==
  ASSUME placed \in R!Tries PROVE R!HandlesAreFound
<1> DEFINE rc == placed.rc
           At(n) == R!AtHandle(R!HandleOrder[n], rc, placed.x, placed.y)
           I == {n \in 1 .. 8 : At(n)}
           at == R!HandleAt(rc, placed.x, placed.y)
<1>1. at = IF I # {} THEN R!Min(I) ELSE 0
  <2>1. Len(R!HandleOrder) = 8
    BY DEF R!HandleOrder
  <2> QED BY <2>1 DEF R!HandleAt, R!SelectInSeq
<1>2. I # {} => R!Min(I) \in I
  BY TheLeast, I \in SUBSET Nat
<1>3. at = 0 <=> \A n \in 1 .. 8 : ~At(n)
  <2> HIDE DEF at, At
  <2> QED BY <1>1, <1>2
<1>4. at # 0 => at \in 1 .. 8 /\ At(at)
  <2> HIDE DEF at, At
  <2> QED BY <1>1, <1>2
<1>5. ASSUME rc.w > 28, rc.h > 28, NEW m \in 1 .. 8, At(m), NEW n \in 1 .. 8, At(n) PROVE n = m
  <2>1. /\ placed.x \in Int /\ placed.y \in Int /\ rc.x \in Int /\ rc.y \in Int /\ rc.w \in Nat /\ rc.h \in Nat
    BY DEF R!Tries, R!Rect
  <2>2. PICK x, y, w, h : x = 2 * placed.x - 2 * rc.x /\ y = 2 * placed.y - 2 * rc.y /\ w = rc.w /\ h = rc.h
    OBVIOUS
  <2>3. x \in Int /\ y \in Int /\ w \in Nat /\ h \in Nat /\ w > 28 /\ h > 28
    BY <1>5, <2>1, <2>2
  <2>4. ASSUME NEW k \in 1 .. 8, At(k), NEW i \in {0, 1, 2}, NEW j \in {0, 1, 2}, R!HandleOrder[k] = <<i, j>>
        PROVE  x - w * i \in -14 .. 14 /\ y - h * j \in -14 .. 14
    <3>1. R!HandleOrder[k][1] = i /\ R!HandleOrder[k][2] = j
      BY <2>4
    <3>2. /\ 2 * placed.x - (2 * rc.x + rc.w * i) \in -14 .. 14
          /\ 2 * placed.y - (2 * rc.y + rc.h * j) \in -14 .. 14
      BY <2>4, <3>1 DEF R!AtHandle
    <3>3. PICK e, f : e = w * i /\ f = h * j
      OBVIOUS
    <3>4. e \in Int /\ f \in Int
      BY <2>3, <3>3
    <3>5. /\ 2 * placed.x - (2 * rc.x + e) \in -14 .. 14
          /\ 2 * placed.y - (2 * rc.y + f) \in -14 .. 14
      BY <2>2, <3>2, <3>3, Zenon
    <3>6. x - e \in -14 .. 14 /\ y - f \in -14 .. 14
      BY <2>1, <2>2, <3>4, <3>5
    <3> QED BY <3>3, <3>6, Zenon
  <2>5. \A k \in 1 .. 8 : R!HandleOrder[k] =
          CASE k = 1 -> <<0, 0>> [] k = 2 -> <<1, 0>> [] k = 3 -> <<2, 0>> [] k = 4 -> <<2, 1>>
            [] k = 5 -> <<2, 2>> [] k = 6 -> <<1, 2>> [] k = 7 -> <<0, 2>> [] OTHER -> <<0, 1>>
    BY DEF R!HandleOrder
  <2>6. \A k \in 1 .. 8 : \E i \in {0, 1, 2}, j \in {0, 1, 2} : R!HandleOrder[k] = <<i, j>>
    BY <2>5
  <2>7. PICK i \in {0, 1, 2}, j \in {0, 1, 2} : R!HandleOrder[m] = <<i, j>>
    BY <2>6
  <2>8. PICK p \in {0, 1, 2}, q \in {0, 1, 2} : R!HandleOrder[n] = <<p, q>>
    BY <2>6
  <2>9. x - w * i \in -14 .. 14 /\ y - h * j \in -14 .. 14 /\ x - w * p \in -14 .. 14 /\ y - h * q \in -14 .. 14
    BY <1>5, <2>4, <2>7, <2>8
  <2>10. i = p /\ j = q
    BY <2>3, <2>9
  <2>11. R!HandleOrder[m] = R!HandleOrder[n]
    BY <2>7, <2>8, <2>10
  <2> HIDE DEF At
  <2> QED BY <2>5, <2>11
<1> HIDE DEF at, At
<1>6. at # 0 /\ rc.w > 28 /\ rc.h > 28 => \A n \in 1 .. 8 : At(n) => n = at
  BY <1>4, <1>5
<1> QED BY <1>3, <1>6 DEF R!HandlesAreFound, at, At

(* The part of a window that is lit up. *)
LEMMA HoleReaches ==
  ASSUME placed \in R!Hovers PROVE R!HoleIsWhatAClickTakes
<1> DEFINE w == placed.windows
           x == placed.x
           y == placed.y
           k == placed.k
           I == {i \in 1 .. 2 : R!Within(w[i], x, y)}
           at == R!SelectInSeq(w, LAMBDA v : R!Within(v, x, y))
<1>1. /\ x \in {-100, 0, 9, 25, 39} /\ y \in {0, 5, 15, 29} /\ k \in Zooms
      /\ \E a, b \in R!Windows : w = <<a, b>>
  BY DEF R!Hovers
<1>2. Len(w) = 2 /\ \A i \in 1 .. 2 : w[i] \in R!Windows
  BY <1>1
<1>3. at = IF I # {} THEN R!Min(I) ELSE 0
  BY <1>2 DEF R!SelectInSeq
<1>4. I # {} => R!Min(I) \in I
  BY TheLeast, I \in SUBSET Nat
<1>5. at # 0 => at \in 1 .. 2 /\ R!Within(w[at], x, y)
  <2> HIDE DEF at
  <2> QED BY <1>3, <1>4
<1>6. R!HoverRect(w, R!SmallView, x, y) =
        LET hit == w[at]
            x1 == R!Greater(hit.x, 0)
            y1 == R!Greater(hit.y, 0)
            lit == R!Rect(x1, y1, R!Lesser(40, hit.x + hit.w) - x1, R!Lesser(30, hit.y + hit.h) - y1)
        IN  IF x < 0 \/ at = 0 THEN <<>> ELSE IF lit.w > 8 /\ lit.h > 8 THEN <<lit>> ELSE <<>>
  BY DEF R!HoverRect, R!SmallView
<1> HIDE DEF at, w, x, y, k
<1>7. PICK r : r = R!HoverRect(w, R!SmallView, x, y)
  OBVIOUS
<1>8. SUFFICES ASSUME r # <<>>
               PROVE  /\ R!Hole(r[1], k) = R!Rect(R!RoundSel([x |-> r[1].x * k, w |-> r[1].w * k]).x,
                                                  R!RoundSel([x |-> r[1].y * k, w |-> r[1].h * k]).x,
                                                  R!RoundSel([x |-> r[1].x * k, w |-> r[1].w * k]).w,
                                                  R!RoundSel([x |-> r[1].y * k, w |-> r[1].h * k]).w)
                      /\ R!Within(r[1], x, y)
                      /\ r[1].x >= 0 /\ r[1].y >= 0 /\ r[1].x + r[1].w <= 40 /\ r[1].y + r[1].h <= 30
  BY <1>7 DEF R!HoleIsWhatAClickTakes, w, x, y, k
<1>9. PICK hit : hit = w[at]
  OBVIOUS
<1>10. x >= 0 /\ at # 0 /\ hit \in R!Windows /\ R!Within(hit, x, y)
  BY <1>1, <1>2, <1>5, <1>6, <1>7, <1>8, <1>9
<1>11. hit.x \in Int /\ hit.y \in Int /\ hit.w \in Nat /\ hit.h \in Nat
  BY <1>10 DEF R!Windows, R!Rect
<1>12. PICK a, b, c, d : /\ a = R!Greater(hit.x, 0) /\ b = R!Greater(hit.y, 0)
                         /\ c = R!Lesser(40, hit.x + hit.w) - a /\ d = R!Lesser(30, hit.y + hit.h) - b
  OBVIOUS
<1>13. r[1] = R!Rect(a, b, c, d) /\ c > 8 /\ d > 8
  BY <1>6, <1>7, <1>8, <1>9, <1>10, <1>12 DEF R!Rect
<1>14. r[1].x = a /\ r[1].y = b /\ r[1].w = c /\ r[1].h = d
  BY <1>13 DEF R!Rect
<1>15. /\ a \in Nat /\ b \in Nat /\ c \in Nat /\ d \in Nat /\ a + c <= 40 /\ b + d <= 30
       /\ x >= a /\ x <= a + c /\ y >= b /\ y <= b + d
  BY <1>1, <1>10, <1>11, <1>12, <1>13 DEF R!Greater, R!Lesser, R!Within
<1>16. k \in Nat \ {0}
  BY <1>1, EditorAssumptions DEF EditorAssumptions, R!RegionAssumption
<1>17. \A n \in Nat : n > 8 => n * k \in Nat /\ R!Greater(R!JsRound(n * k), 1) = R!JsRound(n * k)
  <2> TAKE n \in Nat
  <2> HAVE n > 8
  <2>1. PICK m, e : m = k - 1 /\ e = n * k
    OBVIOUS
  <2>2. m \in Nat /\ n * m \in Nat /\ n * k = n + n * m
    BY <1>16, <2>1
  <2>3. e \in Nat /\ e > 8
    BY <2>1, <2>2
  <2>4. R!JsRound(e) \in Int /\ R!JsRound(e) > 1
    BY <2>3 DEF R!JsRound
  <2> QED BY <2>1, <2>3, <2>4 DEF R!Greater
<1>18. R!Within(r[1], x, y) /\ r[1].x >= 0 /\ r[1].y >= 0 /\ r[1].x + r[1].w <= 40 /\ r[1].y + r[1].h <= 30
  BY <1>14, <1>15 DEF R!Within
<1>19. R!Greater(R!JsRound(c * k), 1) = R!JsRound(c * k) /\ R!Greater(R!JsRound(d * k), 1) = R!JsRound(d * k)
  BY <1>13, <1>15, <1>17
<1>20. /\ R!RoundSel([x |-> a * k, w |-> c * k]).x = R!JsRound(a * k)
       /\ R!RoundSel([x |-> a * k, w |-> c * k]).w = R!JsRound(c * k)
       /\ R!RoundSel([x |-> b * k, w |-> d * k]).x = R!JsRound(b * k)
       /\ R!RoundSel([x |-> b * k, w |-> d * k]).w = R!JsRound(d * k)
  BY <1>19 DEF R!RoundSel
<1> QED BY <1>14, <1>18, <1>20 DEF R!Hole

(* The axis a region is dragged along, or what was chosen to be placed.      *)
RegionInv ==
  part = "region" =>
    \/ placed.kind = "none" /\ AxisInv
    \/ region = R!NoRegion /\ placed \in R!Bars \cup R!Lenses \cup R!Hovers \cup R!Bands \cup R!Tries

(* What is placed says which kind it is. *)
LEMMA KindsAre ==
  /\ \A p \in R!Bars : p.kind = "bars"
  /\ \A p \in R!Lenses : p.kind = "lens"
  /\ \A p \in R!Hovers : p.kind = "hover"
  /\ \A p \in R!Bands : p.kind = "band"
  /\ \A p \in R!Tries : p.kind = "handle"
BY DEF R!Bars, R!Lenses, R!Hovers, R!Bands, R!Tries

LEMMA RegionBegins == Init => RegionInv
<1> SUFFICES ASSUME part = "region", R!Init PROVE RegionInv
  BY DEF Init, RegionInv
<1>1. CASE \E z \in Zooms : R!AxisInit(z)
  <2>1. placed.kind = "none"
    BY <1>1 DEF R!AxisInit
  <2> QED BY <1>1, <2>1, AxisBegins DEF RegionInv
<1>2. CASE region = R!NoRegion /\ placed \in R!Bars \cup R!Lenses \cup R!Hovers \cup R!Bands \cup R!Tries
  BY <1>2 DEF RegionInv
<1> QED BY <1>1, <1>2 DEF R!Init

LEMMA RegionGoesOn == ASSUME RegionInv, [Next]_vars PROVE RegionInv'
<1> SUFFICES ASSUME part' = "region" PROVE RegionInv'
  BY DEF RegionInv
<1>1. CASE UNCHANGED <<part, regionVars>>
  BY <1>1 DEF RegionInv, AxisInv, PullInv, EvenInv, Bounded, Wide, R!Picture, regionVars
<1>2. CASE part = "region" /\ R!Next
  <2>1. placed.kind = "none" /\ placed' = placed
    BY <1>2 DEF R!Next
  <2>2. AxisInv
    BY <1>2, <2>1, KindsAre DEF RegionInv
  <2> QED BY <1>2, <2>1, <2>2, AxisStep DEF RegionInv
<1> QED BY <1>1, <1>2 DEF Next, vars, OnlyMarks, OnlyEditor, OnlyDisplays, OnlyRegion

LEMMA RegionHolds ==
  ASSUME RegionInv, part = "region", placed.kind # "band" PROVE PixelsHaveOnePlace
<1> DEFINE Placed == /\ R!RegionIsInThePicture /\ R!BarsAreInReach /\ R!LabelsAreInReach /\ R!LensIsBesideThePointer
                     /\ R!HoleIsWhatAClickTakes /\ R!BandFollowsThePointer /\ R!HandlesAreFound
<1> SUFFICES Placed
  BY DEF PixelsHaveOnePlace
<1>1. /\ placed.kind # "bars" => R!BarsAreInReach /\ R!LabelsAreInReach
      /\ placed.kind # "lens" => R!LensIsBesideThePointer
      /\ placed.kind # "hover" => R!HoleIsWhatAClickTakes
      /\ placed.kind # "handle" => R!HandlesAreFound
      /\ R!BandFollowsThePointer
      /\ region = R!NoRegion => R!RegionIsInThePicture
  BY DEF R!BarsAreInReach, R!LabelsAreInReach, R!LensIsBesideThePointer, R!HoleIsWhatAClickTakes, R!HandlesAreFound,
         R!BandFollowsThePointer, R!RegionIsInThePicture, R!Is
<1>2. CASE placed.kind = "none" /\ AxisInv
  BY <1>1, <1>2, RegionStays
<1>3. CASE region = R!NoRegion /\ placed \in R!Bars
  <2>1. PICK v \in Screens : placed.view = v /\ placed.rc \in R!Rects(v)
    BY <1>3 DEF R!Bars
  <2> QED BY <1>1, <1>3, <2>1, KindsAre, BarsReach, LabelsReach
<1>4. CASE region = R!NoRegion /\ placed \in R!Lenses
  <2>1. PICK v \in Screens : /\ placed.view = v /\ placed.k \in Zooms /\ placed.y \in R!Near(v[2])
                             /\ placed.x \in R!Near(v[1]) \cup (v[1] - 210 .. v[1] - 190)
    BY <1>4 DEF R!Lenses
  <2> QED BY <1>1, <1>4, <2>1, KindsAre, LensReaches
<1>5. CASE region = R!NoRegion /\ placed \in R!Hovers
  BY <1>1, <1>5, KindsAre, HoleReaches
<1>6. CASE region = R!NoRegion /\ placed \in R!Tries
  BY <1>1, <1>6, KindsAre, HandlesReach
<1> QED BY <1>2, <1>3, <1>4, <1>5, <1>6, KindsAre DEF RegionInv

(* A new region is in the picture wherever the pointer goes; at a whole      *)
(* scale no sequence of drags, steps and keys leads it further out than a    *)
(* pixel; at any scale a grab moves the edge it does not hold by a pixel and *)
(* a half at most, which at a fractional one can add up from grab to grab    *)
(* and is not bounded.  The bars, the labels, the magnifier, the lit window  *)
(* and the handles are where a user reaches them, for any width of the       *)
(* picture and any screens (overlay/state.rs); the order of the words of a   *)
(* band is left to the checks.                                               *)
THEOREM RegionIsPlaced ==
  Spec => [](part = "region" /\ placed.kind # "band" => PixelsHaveOnePlace)
<1>1. Spec => []RegionInv
  BY RegionBegins, RegionGoesOn, PTL DEF Spec
<1>2. RegionInv => (part = "region" /\ placed.kind # "band" => PixelsHaveOnePlace)
  BY RegionHolds, Zenon
<1> QED BY <1>1, <1>2, PTL

-----------------------------------------------------------------------------
(* What is read from the clipboard, and colours to NV12 and back (Pixels)    *)

(* What a header of an image on the clipboard can say. *)
Headers == [kind : {"dib"}, header : Nat, width : Int, height : Int, planes : Nat, bits : Nat,
            compression : {"rgb", "bitfields", "rle"}, used : Nat, len : Nat]

LEMMA DibsHaveHeaders == \A i \in P!Dibs : i \in Headers
<1> SUFFICES ASSUME NEW i \in P!Dibs PROVE i \in Headers
  OBVIOUS
<1>1. i.kind = "dib" /\ i.header \in Nat /\ i.width \in Int /\ i.height \in Int /\ i.planes \in Nat
  BY DEF P!Dibs
<1>2. i.bits \in Nat /\ i.compression \in {"rgb", "bitfields", "rle"} /\ i.used \in Nat /\ i.len \in Nat
  BY DEF P!Dibs
<1>3. i = [kind |-> i.kind, header |-> i.header, width |-> i.width, height |-> i.height, planes |-> i.planes,
           bits |-> i.bits, compression |-> i.compression, used |-> i.used, len |-> i.len]
  BY DEF P!Dibs
<1> QED BY <1>1, <1>2, <1>3 DEF Headers

(* Products of a row number and a row's length, one behind the other. *)
LEMMA RowsInARow ==
  ASSUME NEW n \in Nat, NEW y \in Nat, NEW h \in Nat, y < h
  PROVE  n * y \in Nat /\ n * y + n <= n * h
<1>1. PICK d : d = h - 1 - y
  OBVIOUS
<1>2. d \in Nat /\ h = (y + 1) + d
  BY <1>1
<1>3. n * h = (n * y + n) + n * d /\ n * d \in Nat /\ n * y \in Nat
  BY <1>2
<1> QED BY <1>3

LEMMA RowsApart ==
  ASSUME NEW n \in Nat, NEW y \in Nat, NEW z \in Nat, y < z PROVE n * z - n * y >= n
BY RowsInARow

(* A row has room for its pixels. *)
LEMMA StrideIs ==
  ASSUME NEW d \in Headers, d.width > 0 PROVE P!Stride(d) \in Nat /\ d.width * d.bits <= 8 * P!Stride(d)
<1>1. PICK n : n = d.width * d.bits
  OBVIOUS
<1>2. d.width \in Nat /\ d.bits \in Nat
  BY DEF Headers
<1>3. n \in Nat
  BY <1>1, <1>2
<1>4. P!Stride(d) = P!CeilDiv(n, 32) * 4
  BY <1>1 DEF P!Stride
<1>5. P!CeilDiv(n, 32) \in Nat /\ n <= 32 * P!CeilDiv(n, 32)
  BY <1>3 DEF P!CeilDiv
<1> QED BY <1>1, <1>4, <1>5

(* The table has the colours that are used. *)
LEMMA ColorsAre ==
  ASSUME NEW d \in Headers, P!DepthOk(d) PROVE P!Colors(d) \in Nat /\ P!Colors(d) >= d.used
<1>1. d.used \in Nat /\ d.bits \in Nat
  BY DEF Headers
<1>2. CASE d.bits <= 8 /\ d.used = 0
  <2>1. d.bits \in {1, 4, 8}
    BY <1>2 DEF P!DepthOk
  <2>2. 2^1 = 2 /\ 2^4 = 16 /\ 2^8 = 256
    OBVIOUS
  <2>3. 2^d.bits \in {2, 16, 256}
    BY <2>1, <2>2, Zenon
  <2>4. P!Colors(d) = 2^d.bits
    BY <1>2, Zenon DEF P!Colors
  <2> QED BY <1>2, <2>3, <2>4
<1>3. CASE ~(d.bits <= 8 /\ d.used = 0)
  BY <1>1, <1>3 DEF P!Colors
<1> QED BY <1>2, <1>3

(* A header that is accepted. *)
LEMMA AcceptedIs ==
  ASSUME NEW d \in Headers, NEW l, l = P!ParseDib(d), l.ok
  PROVE  /\ l.height = P!Abs(d.height) /\ l.height \in Nat /\ l.stride = P!Stride(d) /\ l.width = d.width /\ l.bits = d.bits
         /\ d.width > 0 /\ P!DepthOk(d)
         /\ l.palette[1] \in Nat /\ l.palette[1] >= d.header
         /\ l.palette[2] = l.palette[1] + P!Colors(d) * 4 /\ l.data = l.palette[2]
         /\ l.data <= d.len /\ l.data + P!Stride(d) * P!Abs(d.height) <= d.len
         /\ l.top_down \in BOOLEAN
<1> DEFINE start == d.header + P!MasksAfterHeader(d)
           data == start + P!Colors(d) * 4
<1>1. /\ l = [ok |-> TRUE, width |-> d.width, height |-> P!Abs(d.height), top_down |-> d.height < 0,
              bits |-> d.bits, stride |-> P!Stride(d), data |-> data, palette |-> <<start, data>>]
      /\ ~(d.width <= 0) /\ P!DepthOk(d) /\ ~(data > d.len) /\ ~(data + P!PixelBytes(d) > d.len)
  BY DEF P!ParseDib, P!Damaged
<1>2. P!MasksAfterHeader(d) \in Nat /\ d.header \in Nat /\ d.width \in Int /\ d.height \in Int /\ d.len \in Nat
  BY DEF P!MasksAfterHeader, Headers
<1>3. P!Abs(d.height) \in Nat
  BY <1>2 DEF P!Abs
<1>4. PICK n : n = P!Stride(d) * P!Abs(d.height)
  OBVIOUS
<1>5. P!Stride(d) \in Nat /\ P!Colors(d) \in Nat /\ n \in Nat
  <2>1. d.width > 0
    BY <1>1, <1>2
  <2> QED BY <1>1, <1>3, <1>4, <2>1, StrideIs, ColorsAre
<1>6. start \in Nat /\ start >= d.header /\ data \in Nat
  BY <1>2, <1>5
<1> HIDE DEF start
<1>7. data = start + P!Colors(d) * 4
  OBVIOUS
<1> HIDE DEF data
<1>8. data <= d.len /\ data + n <= d.len /\ d.width > 0
  BY <1>1, <1>2, <1>4, <1>5, <1>6 DEF P!PixelBytes
<1> QED BY <1>1, <1>3, <1>4, <1>6, <1>7, <1>8

(* Its rows are behind the table and before the end, and apart. *)
LEMMA DibsAreRead ==
  ASSUME input \in Headers PROVE P!DibStaysInBounds /\ P!DibRowsOnce
<1>1. PICK l : l = P!ParseDib(input)
  OBVIOUS
<1> SUFFICES ASSUME l.ok
             PROVE  /\ \A y \in 0..l.height - 1 :
                        /\ P!RowAt(l, y) >= l.palette[2] /\ P!RowAt(l, y) + l.stride <= input.len
                        /\ l.width * l.bits <= 8 * l.stride
                    /\ l.palette[1] >= input.header /\ l.palette[2] <= input.len
                    /\ (l.palette[2] - l.palette[1]) \div 4 >= input.used
                    /\ \A y, z \in 0..l.height - 1 : y # z => P!Abs(P!RowAt(l, y) - P!RowAt(l, z)) >= l.stride
  BY <1>1, Zenon DEF P!DibStaysInBounds, P!DibRowsOnce
<1>2. PICK h, s, n, p, q, c : /\ h = l.height /\ s = l.stride /\ n = s * h
                              /\ p = l.palette[1] /\ q = l.palette[2] /\ c = P!Colors(input)
  OBVIOUS
<1>3. /\ h \in Nat /\ s = P!Stride(input) /\ l.width = input.width /\ l.bits = input.bits /\ input.width > 0
      /\ P!DepthOk(input) /\ p \in Nat /\ p >= input.header /\ q = p + c * 4 /\ l.data = q
      /\ q <= input.len /\ q + n <= input.len /\ l.top_down \in BOOLEAN
  BY <1>1, <1>2, AcceptedIs
<1>4. s \in Nat /\ l.width * l.bits <= 8 * s /\ c \in Nat /\ c >= input.used /\ input.len \in Nat /\ input.used \in Nat
  BY <1>2, <1>3, StrideIs, ColorsAre DEF Headers
<1>5. (q - p) \div 4 >= input.used
  BY <1>3, <1>4
<1> DEFINE At(y) == IF l.top_down THEN y ELSE h - 1 - y
<1>6. ASSUME NEW y \in 0 .. h - 1 PROVE At(y) \in Nat /\ At(y) < h /\ P!RowAt(l, y) = q + s * At(y) /\ s * At(y) \in Nat
  <2>1. At(y) \in Nat /\ At(y) < h
    BY <1>3, <1>6
  <2>2. P!RowAt(l, y) = q + s * At(y)
    BY <1>2, <1>3 DEF P!RowAt
  <2> QED BY <1>4, <2>1, <2>2
<1>7. ASSUME NEW y \in 0 .. h - 1 PROVE P!RowAt(l, y) >= q /\ P!RowAt(l, y) + s <= input.len
  <2>1. PICK a, m : a = At(y) /\ m = s * a
    OBVIOUS
  <2>2. a \in Nat /\ a < h /\ P!RowAt(l, y) = q + m /\ m \in Nat
    BY <1>6, <1>7, <2>1
  <2>3. m + s <= n /\ n \in Nat /\ q \in Nat
    BY <1>2, <1>3, <1>4, <2>1, <2>2, RowsInARow
  <2> QED BY <1>3, <1>4, <2>2, <2>3
<1>8. ASSUME NEW y \in 0 .. h - 1, NEW z \in 0 .. h - 1, y # z PROVE P!Abs(P!RowAt(l, y) - P!RowAt(l, z)) >= s
  <2>1. PICK a, b, m, k : a = At(y) /\ b = At(z) /\ m = s * a /\ k = s * b
    OBVIOUS
  <2>2. a \in Nat /\ b \in Nat /\ m \in Nat /\ k \in Nat /\ P!RowAt(l, y) = q + m /\ P!RowAt(l, z) = q + k
    BY <1>6, <1>8, <2>1
  <2>3. a # b
    BY <1>3, <1>8, <2>1
  <2> HIDE DEF At
  <2>4. ASSUME a < b PROVE s * b - s * a >= s
    BY <1>4, <2>2, <2>4, RowsApart
  <2>5. ASSUME b < a PROVE s * a - s * b >= s
    BY <1>4, <2>2, <2>5, RowsApart
  <2>6. m - k >= s \/ k - m >= s
    BY <2>1, <2>2, <2>3, <2>4, <2>5
  <2>7. q \in Nat
    BY <1>3, <1>4
  <2> QED BY <1>4, <2>2, <2>6, <2>7 DEF P!Abs
<1> QED BY <1>2, <1>3, <1>4, <1>5, <1>7, <1>8

(* What a channel of a colour is. *)
Byte == 0 .. 255

(* A sum of products and what is left of it after 16 bits are shifted away,  *)
(* with half of one added before.                                            *)
Near(a) == a > -32768 /\ a <= 32768
IsLuma(y, r, g, b) == Near(65536 * (y - 16) - (11966 * r + 40254 * g + 4064 * b))
IsChromaU(u, r, g, b) == Near(65536 * (u - 128) - (28784 * b - 6596 * r - 22189 * g))
IsChromaV(v, r, g, b) == Near(65536 * (v - 128) - (28784 * r - 26145 * g - 2639 * b))

(* Sixteen bits are enough for a colour under the veil. *)
LEMMA Lanes ==
  ASSUME NEW c \in Byte, NEW i \in 1 .. 3 PROVE P!VeiledLane(c, i) = P!Veiled(c, i)
<1>1. 2^16 = 65536 /\ 2^8 = 256
  OBVIOUS
<1>2. P!VeilRgb[i] \in {6, 8, 13}
  BY DEF P!VeilRgb, Byte
<1>3. PICK v : v = P!VeilRgb[i]
  OBVIOUS
<1>4. c * 141 \in Nat /\ c * 141 <= 35955 /\ v * 115 \in Nat /\ v * 115 <= 1495
  BY <1>2, <1>3 DEF Byte
<1>5. (c * 141) % 65536 = c * 141
  BY <1>4 DEF Byte
<1>6. PICK n : n = c * 141 + v * 115 + 128
  OBVIOUS
<1>7. n \in Nat /\ n <= 37578
  BY <1>4, <1>6 DEF Byte
<1>8. n % 65536 = n /\ (n \div 256) % 256 = n \div 256
  BY <1>7 DEF Byte
<1> QED BY <1>1, <1>3, <1>5, <1>6, <1>8 DEF P!VeiledLane, P!Veiled, P!FrameAlpha, P!VeilAlpha, Byte

LEMMA Averages ==
  ASSUME NEW a \in Byte, NEW b \in Byte, NEW c \in Byte, NEW d \in Byte
  PROVE  P!Average(a, b, c, d) \in Byte /\ P!Average(a, a, a, a) = a
<1>1. 2^2 = 4
  OBVIOUS
<1> QED BY <1>1 DEF P!Average, P!Shifted, Byte

LEMMA LumaIs ==
  ASSUME NEW r \in Byte, NEW g \in Byte, NEW b \in Byte
  PROVE  P!Luma(r, g, b) \in 16 .. 235 /\ IsLuma(P!Luma(r, g, b), r, g, b)
<1>1. 2^16 = 65536
  OBVIOUS
<1> QED BY <1>1 DEF P!Luma, P!Shifted, Near, IsLuma, Byte

LEMMA ChromaUIs ==
  ASSUME NEW r \in Byte, NEW g \in Byte, NEW b \in Byte
  PROVE  P!ChromaU(r, g, b) \in 16 .. 240 /\ IsChromaU(P!ChromaU(r, g, b), r, g, b)
<1>1. 2^16 = 65536
  OBVIOUS
<1> QED BY <1>1 DEF P!ChromaU, P!Shifted, Near, IsChromaU, Byte

LEMMA ChromaVIs ==
  ASSUME NEW r \in Byte, NEW g \in Byte, NEW b \in Byte
  PROVE  P!ChromaV(r, g, b) \in 16 .. 240 /\ IsChromaV(P!ChromaV(r, g, b), r, g, b)
<1>1. 2^16 = 65536
  OBVIOUS
<1> QED BY <1>1 DEF P!ChromaV, P!Shifted, Near, IsChromaV, Byte

(* The three sums of nv12_to_bgrx, and how far they are from a colour. *)
Blue(y, u, v) == (y - 16) * 1192 + 512 + 2163 * (u - 128)
Green(y, u, v) == (y - 16) * 1192 + 512 - 218 * (u - 128) - 546 * (v - 128)
Red(y, u, v) == (y - 16) * 1192 + 512 + 1836 * (v - 128)
NearByte(a, c) == a - 1024 * c >= -3072 /\ a - 1024 * c <= 4095
ByteOf(a) == P!Clamped(P!Shifted(a, 10), 0, 255)

Bgrx709(y, u, v) == P!Bgrx(y, u, v, "709", FALSE)

LEMMA BgrxIs ==
  ASSUME NEW y \in Int, NEW u \in Int, NEW v \in Int, NEW p, p = Bgrx709(y, u, v)
  PROVE  p[1] = ByteOf(Blue(y, u, v)) /\ p[2] = ByteOf(Green(y, u, v)) /\ p[3] = ByteOf(Red(y, u, v))
<1> DEFINE k == P!Coefficients("709", FALSE)
           a == (y - k[6]) * k[1] + 512 + k[5] * (u - 128)
           b == ((y - k[6]) * k[1] + 512) - k[3] * (u - 128) - k[4] * (v - 128)
           c == (y - k[6]) * k[1] + 512 + k[2] * (v - 128)
<1>1. Bgrx709(y, u, v) = <<ByteOf(a), ByteOf(b), ByteOf(c), 255>>
  BY DEF Bgrx709, P!Bgrx, ByteOf
<1>2. k[1] = 1192 /\ k[2] = 1836 /\ k[3] = 218 /\ k[4] = 546 /\ k[5] = 2163 /\ k[6] = 16
  BY DEF P!Coefficients
<1> HIDE DEF k
<1>3. a = Blue(y, u, v) /\ b = Green(y, u, v) /\ c = Red(y, u, v)
  BY <1>2 DEF Blue, Green, Red
<1> HIDE DEF a, b, c
<1>4. p[1] = ByteOf(a) /\ p[2] = ByteOf(b) /\ p[3] = ByteOf(c)
  BY <1>1
<1> QED BY <1>3, <1>4

LEMMA SumsAreNear ==
  ASSUME NEW r \in Byte, NEW g \in Byte, NEW b \in Byte, NEW y \in Int, NEW u \in Int, NEW v \in Int,
         IsLuma(y, r, g, b), IsChromaU(u, r, g, b), IsChromaV(v, r, g, b)
  PROVE  /\ Blue(y, u, v) \in Int /\ NearByte(Blue(y, u, v), b)
         /\ Green(y, u, v) \in Int /\ NearByte(Green(y, u, v), g)
         /\ Red(y, u, v) \in Int /\ NearByte(Red(y, u, v), r)
<1>1. Blue(y, u, v) \in Int /\ NearByte(Blue(y, u, v), b)
  BY DEF Near, IsLuma, IsChromaU, Blue, NearByte, Byte
<1>2. Green(y, u, v) \in Int /\ NearByte(Green(y, u, v), g)
  BY DEF Near, IsLuma, IsChromaU, IsChromaV, Green, NearByte, Byte
<1>3. Red(y, u, v) \in Int /\ NearByte(Red(y, u, v), r)
  BY DEF Near, IsLuma, IsChromaV, Red, NearByte, Byte
<1> QED BY <1>1, <1>2, <1>3

LEMMA BytesAreNear == \A a \in Int, c \in Byte : NearByte(a, c) => P!Abs(ByteOf(a) - c) <= 3
<1>1. 2^10 = 1024
  OBVIOUS
<1> QED BY <1>1 DEF NearByte, ByteOf, P!Shifted, P!Clamped, P!Most, P!Least, P!Abs, Byte

(* A colour is in the limited range, and comes back but for three. *)
LEMMA ColoursComeBack ==
  ASSUME Bytes \subseteq Byte, input \in P!Colours PROVE P!ColoursFit
<1>1. PICK r, g, b : r = input.r /\ g = input.g /\ b = input.b
  OBVIOUS
<1>2. r \in Byte /\ g \in Byte /\ b \in Byte
  BY <1>1 DEF P!Colours
<1>3. PICK y, u, v : y = P!Luma(r, g, b) /\ u = P!ChromaU(r, g, b) /\ v = P!ChromaV(r, g, b)
  OBVIOUS
<1>4. y \in 16 .. 235 /\ u \in 16 .. 240 /\ v \in 16 .. 240
  <2>1. y \in 16 .. 235
    BY <1>2, <1>3, LumaIs
  <2>2. u \in 16 .. 240
    BY <1>2, <1>3, ChromaUIs
  <2>3. v \in 16 .. 240
    BY <1>2, <1>3, ChromaVIs
  <2> QED BY <2>1, <2>2, <2>3
<1>5. PICK p : p = Bgrx709(y, u, v)
  OBVIOUS
<1>6. P!Abs(p[1] - b) <= 3 /\ P!Abs(p[2] - g) <= 3 /\ P!Abs(p[3] - r) <= 3
  <2>1. y \in Int /\ u \in Int /\ v \in Int
    BY <1>4
  <2>2. IsLuma(y, r, g, b)
    BY <1>2, <1>3, LumaIs
  <2>3. IsChromaU(u, r, g, b)
    BY <1>2, <1>3, ChromaUIs
  <2>4. IsChromaV(v, r, g, b)
    BY <1>2, <1>3, ChromaVIs
  <2>6. /\ Blue(y, u, v) \in Int /\ NearByte(Blue(y, u, v), b)
        /\ Green(y, u, v) \in Int /\ NearByte(Green(y, u, v), g)
        /\ Red(y, u, v) \in Int /\ NearByte(Red(y, u, v), r)
    BY <1>2, <2>1, <2>2, <2>3, <2>4, SumsAreNear
  <2>7. p[1] = ByteOf(Blue(y, u, v)) /\ p[2] = ByteOf(Green(y, u, v)) /\ p[3] = ByteOf(Red(y, u, v))
    BY <1>5, <2>1, BgrxIs
  <2> QED BY <1>2, <2>6, <2>7, BytesAreNear
<1>7. /\ \A c \in 1 .. 3 : P!VeiledLane(r, c) = P!Veiled(r, c)
      /\ P!Average(r, r, r, r) = r /\ P!Average(r, g, b, r) \in Byte
  BY <1>2, Lanes, Averages
<1>8. Byte = 0 .. 255
  BY DEF Byte
<1> QED BY <1>1, <1>3, <1>4, <1>5, <1>6, <1>7, <1>8, Zenon DEF P!ColoursFit, Bgrx709

(* What the operators are checked on does not change. *)
PixelsInv ==
  part = "pixels" =>
    input \in P!Dibs \cup P!Pictures \cup P!IndexRows \cup P!Colours \cup P!Buffers \cup P!Lenses
                \cup P!MaskSets \cup P!Crops

LEMMA PixelsHold ==
  ASSUME PixelsInv, part = "pixels", input.kind \in {"dib", "colour"} PROVE PixelsHaveOnePlace
<1> DEFINE Right == /\ P!DibStaysInBounds /\ P!DibRowsOnce /\ P!PictureComesBack /\ P!RowIsUnpacked
                    /\ P!ColoursFit /\ P!MaskedColoursKeepTheirOrder /\ P!BuffersAreFilled
                    /\ P!LensIsCentred /\ P!CropIsTheCommonPart
<1> SUFFICES Right
  BY DEF PixelsHaveOnePlace
<1>1. /\ input.kind # "dib" => P!DibStaysInBounds /\ P!DibRowsOnce
      /\ input.kind # "colour" => P!ColoursFit
      /\ P!PictureComesBack /\ P!RowIsUnpacked /\ P!MaskedColoursKeepTheirOrder /\ P!BuffersAreFilled
      /\ P!LensIsCentred /\ P!CropIsTheCommonPart
  <2>1. input.kind # "picture" /\ input.kind # "row" /\ input.kind # "mask" /\ input.kind # "buffer"
        /\ input.kind # "lens" /\ input.kind # "crop"
    OBVIOUS
  <2>2. P!PictureComesBack /\ P!RowIsUnpacked /\ P!MaskedColoursKeepTheirOrder
    BY <2>1, Zenon DEF P!PictureComesBack, P!RowIsUnpacked, P!MaskedColoursKeepTheirOrder, P!Is
  <2>3. P!BuffersAreFilled /\ P!LensIsCentred /\ P!CropIsTheCommonPart
    BY <2>1, Zenon DEF P!BuffersAreFilled, P!LensIsCentred, P!CropIsTheCommonPart, P!Is
  <2>4. /\ input.kind # "dib" => P!DibStaysInBounds /\ P!DibRowsOnce
        /\ input.kind # "colour" => P!ColoursFit
    BY Zenon DEF P!DibStaysInBounds, P!DibRowsOnce, P!ColoursFit, P!Is
  <2> QED BY <2>2, <2>3, <2>4, Zenon
<1>2. /\ \A i \in P!Pictures : i.kind = "picture"
      /\ \A i \in P!IndexRows : i.kind = "row"
      /\ \A i \in P!Buffers : i.kind = "buffer"
      /\ \A i \in P!Lenses : i.kind = "lens"
      /\ \A i \in P!MaskSets : i.kind = "mask"
      /\ \A i \in P!Crops : i.kind = "crop"
      /\ \A i \in P!Dibs : i.kind = "dib"
      /\ \A i \in P!Colours : i.kind = "colour"
  BY DEF P!Pictures, P!IndexRows, P!Buffers, P!Lenses, P!MaskSets, P!Crops, P!Dibs, P!Colours
<1>3. input \in P!Dibs \/ input \in P!Colours
  BY <1>2, Zenon DEF PixelsInv
<1>4. CASE input \in P!Dibs
  <2>1. input \in Headers
    BY <1>4, DibsHaveHeaders
  <2> QED BY <1>1, <1>2, <1>4, <2>1, DibsAreRead, Zenon
<1>5. CASE input \in P!Colours
  <2>1. Bytes \subseteq Byte
    BY EditorAssumptions DEF EditorAssumptions, P!PixelsAssumption, Byte
  <2>2. P!ColoursFit
    BY <1>5, <2>1, ColoursComeBack
  <2> QED BY <1>1, <1>2, <1>5, <2>2, Zenon
<1> QED BY <1>3, <1>4, <1>5

(* A header on the clipboard that is accepted, whatever the largest picture  *)
(* is, leads to rows that are there, each read once; and every colour of     *)
(* eight bits a channel keeps within NV12's limited range, comes back within *)
(* three, and is veiled by the vector unit as by the scalar loop             *)
(* (clipboard.rs, convert.rs, pixels.rs).                                    *)
THEOREM PicturesAreRead ==
  Spec => [](part = "pixels" /\ input.kind \in {"dib", "colour"} => PixelsHaveOnePlace)
<1>1. Init => PixelsInv
  BY DEF Init, PixelsInv, P!Init
<1>2. PixelsInv /\ [Next]_vars => PixelsInv'
  <2> SUFFICES ASSUME PixelsInv, [Next]_vars PROVE PixelsInv'
    OBVIOUS
  <2>1. part' = part /\ (part = "pixels" => input' = input)
    BY DEF Next, vars, OnlyMarks, OnlyEditor, OnlyDisplays, OnlyRegion
  <2> QED BY <2>1 DEF PixelsInv, P!Dibs, P!Pictures, P!IndexRows, P!Colours, P!Buffers, P!Lenses, P!MaskSets, P!Crops
<1>3. PixelsInv => (part = "pixels" /\ input.kind \in {"dib", "colour"} => PixelsHaveOnePlace)
  BY PixelsHold, Zenon
<1> QED BY <1>1, <1>2, <1>3, PTL DEF Spec
=============================================================================
