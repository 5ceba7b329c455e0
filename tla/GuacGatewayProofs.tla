--------------------------- MODULE GuacGatewayProofs ---------------------------
(***************************************************************************)
(* What is proved of the gateway, for any screens, frames and bounds.  In  *)
(* this order:                                                             *)
(*   the parser: frames may be cut anywhere, serialize is read back;       *)
(*   FramesToOwnBrowser: no frame reaches another browser;                 *)
(*   ReleasedAtEnd: what a client acquired is released;                    *)
(*   ImplementsDisplayClient: every client keeps the display's contract;   *)
(*   InputInOrder: input arrives in order, once, and buttons stay paired;  *)
(*   TypeOK;                                                               *)
(*   ScreenIsCurrent: the differences sent add up to the last screenshot.  *)
(***************************************************************************)
EXTENDS GuacGateway, WellFoundedInduction, TLAPS

----------------------------------------------------------------------------
(* A non-empty set of natural numbers has a least element: induction for   *)
(* statements about the positions of a sequence and the rows of a picture. *)
LEMMA LeastNatural ==
  ASSUME NEW T, T \subseteq Nat, T # {}
  PROVE  \E x \in T : \A y \in T : x <= y
<1> DEFINE R == {p \in Nat \X Nat : p[1] < p[2]}
<1>1. IsWellFoundedOn(R, Nat)
  BY NatLessThanWellFounded DEF OpToRel
<1>2. \E x \in T : \A y \in T : <<y, x>> \notin R
  <2> HIDE DEF R
  <2> QED BY <1>1, WFMin, Zenon
<1>3. PICK x \in T : \A y \in T : <<y, x>> \notin R
  BY <1>2
<1>4. \A y \in T : ~ (y < x)
  BY <1>3
<1> QED BY <1>4

(* A run of the parser over a frame: its state after each token.           *)
IsRun(g, p, tokens) ==
  /\ g = [n \in 0 .. Len(tokens) |-> g[n]] /\ g[0] = p
  /\ \A n \in 1 .. Len(tokens) : g[n] = ProcessToken(g[n - 1], tokens[n])

(* There is one, for the first n tokens and then for all.                  *)
LEMMA RunExists ==
  ASSUME NEW p, NEW tokens, Len(tokens) \in Nat
  PROVE  \E g : IsRun(g, p, tokens)
<1> DEFINE Upto(g, m) ==
             /\ g = [n \in 0 .. m |-> g[n]] /\ g[0] = p
             /\ \A n \in 1 .. m : g[n] = ProcessToken(g[n - 1], tokens[n])
           T == {m \in Nat : ~ \E g : Upto(g, m)}
<1>1. T = {}
  <2> SUFFICES ASSUME T # {} PROVE FALSE
    OBVIOUS
  <2>1. PICK m \in T : \A k \in T : m <= k
    <3> HIDE DEF T
    <3>1. T \subseteq Nat
      BY DEF T
    <3> QED BY <3>1, LeastNatural
  <2>2. m # 0
    <3> DEFINE g == [n \in 0 .. 0 |-> p]
    <3>1. Upto(g, 0)
      OBVIOUS
    <3> QED BY <3>1, <2>1
  <2>3. m - 1 \in Nat /\ m - 1 \notin T
    BY <2>1, <2>2
  <2>4. PICK g : Upto(g, m - 1)
    BY <2>3
  <2> DEFINE h == [n \in 0 .. m |-> IF n = m THEN ProcessToken(g[m - 1], tokens[m]) ELSE g[n]]
  <2>5. Upto(h, m)
    <3>1. \A n \in 0 .. m : h[n] = IF n = m THEN ProcessToken(g[m - 1], tokens[m]) ELSE g[n]
      OBVIOUS
    <3>2. h = [n \in 0 .. m |-> h[n]] /\ h[0] = p
      BY <2>2, <2>3, <2>4
    <3> HIDE DEF h
    <3>3. ASSUME NEW n \in 1 .. m PROVE h[n] = ProcessToken(h[n - 1], tokens[n])
      <4>1. n - 1 \in 0 .. m /\ n - 1 # m /\ h[n - 1] = g[n - 1]
        BY <3>1, <2>3
      <4>2. CASE n = m
        BY <3>1, <4>1, <4>2
      <4>3. CASE n # m
        <5>1. n \in 1 .. m - 1
          BY <4>3, <2>3
        <5> QED BY <3>1, <4>1, <4>3, <5>1, <2>4
      <4> QED BY <4>2, <4>3
    <3> QED BY <3>2, <3>3
  <2> QED BY <2>1, <2>5
<1> HIDE DEF Upto
<1>2. PICK g : Upto(g, Len(tokens))
  BY <1>1
<1> QED BY <1>2 DEF Upto, IsRun

(* ... and only one: feed returns where a run ends.                        *)
LEMMA FeedIsRun ==
  ASSUME NEW p, NEW tokens, Len(tokens) \in Nat, NEW g, IsRun(g, p, tokens)
  PROVE  Feed(p, tokens) = g[Len(tokens)]
<1> DEFINE D == 0 .. Len(tokens)
           Fits(f) == f = [n \in D |-> IF n = 0 THEN p ELSE ProcessToken(f[n - 1], tokens[n])]
           after == CHOOSE f : Fits(f)
<1>1. Fits(g)
  BY DEF IsRun
<1>2. Fits(after)
  <2> HIDE DEF Fits
  <2> QED BY <1>1
<1>3. Feed(p, tokens) = after[Len(tokens)]
  BY DEF Feed
<1> DEFINE T == {n \in D : after[n] # g[n]}
<1>4. T = {}
  <2> SUFFICES ASSUME T # {} PROVE FALSE
    OBVIOUS
  <2>1. T \subseteq Nat
    OBVIOUS
  <2>2. PICK m \in T : \A k \in T : m <= k
    <3> HIDE DEF T
    <3> QED BY <2>1, LeastNatural
  <2> HIDE DEF after
  <2>3. m # 0
    BY <1>1, <1>2, <2>2
  <2>4. m - 1 \in D /\ m - 1 \notin T
    BY <2>2, <2>3
  <2>5. after[m - 1] = g[m - 1]
    BY <2>4
  <2> QED BY <1>1, <1>2, <2>2, <2>3, <2>5
<1> QED BY <1>3, <1>4

(* Every token leaves the parser in one of its states.                     *)
LEMMA TokenKeepsParserState ==
  ASSUME NEW p \in ParserState, NEW c \in Texts \cup Separators
  PROVE  ProcessToken(p, c) \in ParserState
<1> USE DEF ParserState
<1>0. Empty \in Texts /\ <<>> \in Seq(Texts) /\ <<>> \in Seq(Instructions)
  BY TextsAreNoSeparators
<1>1. ParserFresh \in ParserState
  BY <1>0 DEF ParserFresh
<1> DEFINE stored == IF p.opcode = Empty
                     THEN [p EXCEPT !.opcode = p.elem, !.elem = Empty, !.sep = FALSE]
                     ELSE [p EXCEPT !.args = Append(@, p.elem), !.elem = Empty, !.sep = FALSE]
           instr == [opcode |-> stored.opcode, args |-> stored.args]
           whole == [ParserFresh EXCEPT !.ready = Append(p.ready, instr)]
<1>2. stored \in ParserState
  <2>1. Append(p.args, p.elem) \in Seq(Texts)
    OBVIOUS
  <2>2. CASE p.opcode = Empty
    BY <1>0, <2>2
  <2>3. CASE p.opcode # Empty
    BY <1>0, <2>1, <2>3
  <2> QED BY <2>2, <2>3
<1>3. whole \in ParserState
  <2>1. instr \in Instructions
    BY <1>2 DEF Instructions
  <2>2. Append(p.ready, instr) \in Seq(Instructions)
    <3> HIDE DEF instr
    <3> QED BY <2>1
  <2> HIDE DEF instr
  <2> QED BY <1>1, <2>2
<1>4. /\ [p EXCEPT !.thrown = TRUE] \in ParserState
      /\ c \notin Separators => [p EXCEPT !.elem = c, !.sep = TRUE] \in ParserState
  OBVIOUS
<1>5. \/ ProcessToken(p, c) \in {p, [p EXCEPT !.thrown = TRUE], stored, whole}
      \/ c \notin Separators /\ ProcessToken(p, c) = [p EXCEPT !.elem = c, !.sep = TRUE]
  <2> HIDE DEF ParserState
  <2> QED BY DEF ProcessToken
<1> HIDE DEF stored, whole, ParserState
<1> QED BY <1>2, <1>3, <1>4, <1>5

(* ... and so does every frame.                                            *)
LEMMA FeedKeepsParserState ==
  ASSUME NEW p \in ParserState, NEW tokens \in Seq(Texts \cup Separators)
  PROVE  Feed(p, tokens) \in ParserState
<1>1. Len(tokens) \in Nat
  OBVIOUS
<1>2. PICK g : IsRun(g, p, tokens)
  BY <1>1, RunExists
<1> DEFINE T == {n \in 0 .. Len(tokens) : g[n] \notin ParserState}
<1>3. T = {}
  <2> SUFFICES ASSUME T # {} PROVE FALSE
    OBVIOUS
  <2>1. PICK m \in T : \A k \in T : m <= k
    <3>1. T \subseteq Nat
      OBVIOUS
    <3> HIDE DEF T
    <3> QED BY <3>1, LeastNatural
  <2>2. m # 0
    BY <1>2, <2>1 DEF IsRun
  <2>3. m - 1 \in 0 .. Len(tokens) /\ m - 1 \notin T
    BY <2>1, <2>2
  <2>4. g[m - 1] \in ParserState /\ tokens[m] \in Texts \cup Separators
    BY <2>1, <2>2, <2>3
  <2>5. g[m] = ProcessToken(g[m - 1], tokens[m])
    BY <1>2, <2>1, <2>2 DEF IsRun
  <2> QED BY <2>1, <2>4, <2>5, TokenKeepsParserState
<1>4. Feed(p, tokens) = g[Len(tokens)]
  BY <1>1, <1>2, FeedIsRun
<1> QED BY <1>1, <1>3, <1>4

(* A browser may cut its instructions into frames anywhere, in the middle  *)
(* of an element's separator or of an instruction: feed finds the same     *)
(* instructions and is left in the same state.                             *)
THEOREM FramesMayBeCut ==
  ASSUME NEW p, NEW s \in Seq(Texts \cup Separators), NEW t \in Seq(Texts \cup Separators)
  PROVE  Feed(p, s \o t) = Feed(Feed(p, s), t)
<1>1. /\ Len(s) \in Nat /\ Len(t) \in Nat /\ Len(s \o t) = Len(s) + Len(t)
      /\ \A n \in 1 .. Len(s) + Len(t) :
           (s \o t)[n] = IF n <= Len(s) THEN s[n] ELSE t[n - Len(s)]
  OBVIOUS
<1>2. PICK g : IsRun(g, p, s)
  BY <1>1, RunExists
<1>3. Feed(p, s) = g[Len(s)]
  BY <1>1, <1>2, FeedIsRun
<1>4. PICK h : IsRun(h, g[Len(s)], t)
  BY <1>1, RunExists
<1> DEFINE run == [n \in 0 .. Len(s \o t) |-> IF n <= Len(s) THEN g[n] ELSE h[n - Len(s)]]
<1>5. \A n \in 0 .. Len(s) + Len(t) : run[n] = IF n <= Len(s) THEN g[n] ELSE h[n - Len(s)]
  BY <1>1
<1> HIDE DEF run
<1>6. IsRun(run, p, s \o t)
  <2>1. run[0] = p
    BY <1>1, <1>2, <1>5 DEF IsRun
  <2>2. ASSUME NEW n \in 1 .. Len(s) + Len(t)
        PROVE  run[n] = ProcessToken(run[n - 1], (s \o t)[n])
    <3>1. CASE n <= Len(s)
      <4>1. (s \o t)[n] = s[n] /\ run[n] = g[n] /\ run[n - 1] = g[n - 1] /\ n \in 1 .. Len(s)
        BY <1>1, <1>5, <3>1
      <4> QED BY <4>1, <1>2 DEF IsRun
    <3>2. CASE n > Len(s)
      <4> DEFINE m == n - Len(s)
      <4>1. m \in 1 .. Len(t) /\ (s \o t)[n] = t[m] /\ run[n] = h[m]
        BY <1>1, <1>5, <3>2
      <4>2. run[n - 1] = h[m - 1]
        <5>1. CASE m = 1
          <6>1. n - 1 = Len(s) /\ n - 1 \in 0 .. Len(s) + Len(t) /\ m - 1 = 0
            BY <1>1, <5>1
          <6>2. run[n - 1] = g[n - 1]
            BY <1>1, <1>5, <6>1
          <6>3. h[0] = g[Len(s)]
            BY <1>4 DEF IsRun
          <6> QED BY <6>1, <6>2, <6>3
        <5>2. CASE m # 1
          <6>1. n - 1 \in 0 .. Len(s) + Len(t) /\ ~ (n - 1 <= Len(s)) /\ (n - 1) - Len(s) = m - 1
            BY <1>1, <3>2, <5>2
          <6> QED BY <1>5, <6>1
        <5> QED BY <5>1, <5>2
      <4>3. h[m] = ProcessToken(h[m - 1], t[m])
        BY <1>4, <4>1 DEF IsRun
      <4> QED BY <4>1, <4>2, <4>3
    <3> QED BY <1>1, <3>1, <3>2
  <2>3. run = [n \in 0 .. Len(s \o t) |-> run[n]]
    BY DEF run
  <2> QED BY <1>1, <2>1, <2>2, <2>3 DEF IsRun
<1>7. Feed(p, s \o t) = run[Len(s \o t)]
  <2>1. Len(s \o t) \in Nat
    BY <1>1
  <2> QED BY <2>1, <1>6, FeedIsRun
<1>8. Feed(g[Len(s)], t) = h[Len(t)]
  BY <1>1, <1>4, FeedIsRun
<1>9. run[Len(s \o t)] = h[Len(t)]
  <2>1. CASE Len(t) = 0
    <3>1. run[Len(s)] = g[Len(s)]
      BY <1>1, <1>5
    <3> QED BY <1>1, <1>4, <2>1, <3>1 DEF IsRun
  <2>2. CASE Len(t) # 0
    <3>1. /\ Len(s) + Len(t) \in 0 .. Len(s) + Len(t) /\ ~ (Len(s) + Len(t) <= Len(s))
          /\ (Len(s) + Len(t)) - Len(s) = Len(t)
      BY <1>1, <2>2
    <3> QED BY <1>1, <1>5, <3>1
  <2> QED BY <2>1, <2>2
<1> QED BY <1>3, <1>7, <1>8, <1>9

(* The parser before and after an element of an instruction; between two   *)
(* instructions current_ is empty.                                         *)
BeforeElement(opcode, args, ready) ==
  [sep |-> FALSE, elem |-> Empty, opcode |-> opcode, args |-> args, ready |-> ready,
   thrown |-> FALSE]
AfterElement(elem, opcode, args, ready) ==
  [sep |-> TRUE, elem |-> elem, opcode |-> opcode, args |-> args, ready |-> ready,
   thrown |-> FALSE]
AtRest(p) == p = BeforeElement(Empty, <<>>, p.ready)

(* What each token of an instruction does.                                 *)
LEMMA ReadsElement ==
  ASSUME NEW elem \in Texts, NEW opcode, NEW args, NEW ready
  PROVE  ProcessToken(BeforeElement(opcode, args, ready), elem)
           = AfterElement(elem, opcode, args, ready)
<1>1. elem \notin Separators
  BY TextsAreNoSeparators
<1> QED BY <1>1 DEF ProcessToken, BeforeElement, AfterElement

(* current_ with one more argument, ready_ with one more instruction.      *)
Longer(args, elem) == Append(args, elem)
Queued(ready, opcode, args) == Append(ready, [opcode |-> opcode, args |-> args])

(* ... a comma stores the opcode ...                                       *)
LEMMA ReadsCommaAfterOpcode ==
  ASSUME NEW opcode \in Texts \ {Empty}, NEW args, NEW ready
  PROVE  ProcessToken(AfterElement(opcode, Empty, args, ready), Comma)
           = BeforeElement(opcode, args, ready)
<1>1. Comma # Semi
  BY DEF Comma, Semi
<1> QED BY <1>1 DEF ProcessToken, BeforeElement, AfterElement, Longer

(* ... or an argument, empty or not ...                                    *)
LEMMA ReadsComma ==
  ASSUME NEW elem \in Texts, NEW opcode \in Texts \ {Empty}, NEW args, NEW ready
  PROVE  ProcessToken(AfterElement(elem, opcode, args, ready), Comma)
           = BeforeElement(opcode, Longer(args, elem), ready)
<1>1. Comma # Semi
  BY DEF Comma, Semi
<1> QED BY <1>1 DEF ProcessToken, BeforeElement, AfterElement, Longer

(* ... a semicolon queues the instruction, without arguments ...           *)
LEMMA ReadsSemiAfterOpcode ==
  ASSUME NEW opcode \in Texts \ {Empty}, NEW args, NEW ready
  PROVE  ProcessToken(AfterElement(opcode, Empty, args, ready), Semi)
           = BeforeElement(Empty, <<>>, Queued(ready, opcode, args))
<1>1. Comma # Semi
  BY DEF Comma, Semi
<1> QED BY <1>1 DEF ProcessToken, BeforeElement, AfterElement, ParserFresh, Queued, Longer

(* ... or with a last one.                                                 *)
LEMMA ReadsSemi ==
  ASSUME NEW elem \in Texts, NEW opcode \in Texts \ {Empty}, NEW args, NEW ready
  PROVE  ProcessToken(AfterElement(elem, opcode, args, ready), Semi)
           = BeforeElement(Empty, <<>>, Queued(ready, opcode, Longer(args, elem)))
<1>1. Comma # Semi
  BY DEF Comma, Semi
<1> QED BY <1>1 DEF ProcessToken, BeforeElement, AfterElement, ParserFresh, Queued, Longer

First(args, j) == SubSeq(args, 1, j)

(* Where the parser is after n tokens of a serialized instruction.         *)
Progress(p, opcode, args, n) ==
  IF n = 0 THEN p
  ELSE IF n = 1 THEN AfterElement(opcode, Empty, <<>>, p.ready)
  ELSE IF n = 2 * Len(args) + 2
  THEN BeforeElement(Empty, <<>>, Queued(p.ready, opcode, args))
  ELSE IF n % 2 = 0 THEN BeforeElement(opcode, First(args, n \div 2 - 1), p.ready)
  ELSE AfterElement(args[n \div 2], opcode, First(args, n \div 2 - 1), p.ready)

(* Even positions are separators, odd ones elements.                       *)
LEMMA Halves ==
  ASSUME NEW j \in Nat
  PROVE  /\ (2 * j) \div 2 = j /\ (2 * j) % 2 = 0
         /\ (2 * j + 1) \div 2 = j /\ (2 * j + 1) % 2 = 1
  OBVIOUS

(* Every token of an instruction with k arguments is the opcode, the       *)
(* semicolon, or one of the two tokens of an argument.                     *)
LEMMA Positions ==
  ASSUME NEW k \in Nat, NEW n \in 1 .. 2 * k + 2
  PROVE  \/ n = 1 \/ n = 2 * k + 2
         \/ \E j \in 1 .. k : n = 2 * j \/ n = 2 * j + 1
<1>1. n = 2 * (n \div 2) \/ n = 2 * (n \div 2) + 1
  OBVIOUS
<1>2. CASE n # 1 /\ n # 2 * k + 2
  <2>1. n \div 2 \in 1 .. k
    BY <1>2
  <2> QED BY <1>1, <2>1
<1> QED BY <1>2

(* The tokens serialize writes.                                            *)
LEMMA SerializedTokens ==
  ASSUME NEW opcode, NEW args \in Seq(Texts)
  PROVE  LET k == Len(args)
             tokens == Serialize(opcode, args)
         IN /\ k \in Nat /\ Len(tokens) = 2 * k + 2
            /\ tokens[1] = opcode /\ tokens[2 * k + 2] = Semi
            /\ \A j \in 1 .. k : tokens[2 * j] = Comma /\ tokens[2 * j + 1] = args[j]
<1> DEFINE k == Len(args)
           tokens == Serialize(opcode, args)
<1>1. k \in Nat
  OBVIOUS
<1>2. Len(tokens) = 2 * k + 2
  BY DEF Serialize
<1>3. \A n \in 1 .. 2 * k + 2 :
        tokens[n] = IF n = 1 THEN opcode
                    ELSE IF n % 2 = 1 THEN args[n \div 2]
                    ELSE IF n <= 2 * k THEN Comma ELSE Semi
  BY DEF Serialize
<1> HIDE DEF k, tokens
<1>4. tokens[1] = opcode
  BY <1>1, <1>3
<1>5. tokens[2 * k + 2] = Semi
  <2>1. 2 * k + 2 \in 1 .. 2 * k + 2 /\ 2 * k + 2 # 1 /\ ~ (2 * k + 2 <= 2 * k)
        /\ (2 * k + 2) % 2 # 1
    BY <1>1
  <2> QED BY <1>3, <2>1
<1>6. ASSUME NEW j \in 1 .. k PROVE tokens[2 * j] = Comma /\ tokens[2 * j + 1] = args[j]
  <2>1. /\ 2 * j \in 1 .. 2 * k + 2 /\ 2 * j # 1 /\ 2 * j <= 2 * k
        /\ 2 * j + 1 \in 1 .. 2 * k + 2 /\ 2 * j + 1 # 1 /\ j \in Nat
    BY <1>1
  <2>2. (2 * j) % 2 # 1 /\ (2 * j + 1) \div 2 = j /\ (2 * j + 1) % 2 = 1
    BY <2>1, Halves
  <2> QED BY <1>3, <2>1, <2>2
<1> QED BY <1>1, <1>2, <1>4, <1>5, <1>6 DEF k, tokens

(* Progress at each of these positions.                                    *)
LEMMA ProgressAtEnds ==
  ASSUME NEW p, NEW opcode, NEW args \in Seq(Texts)
  PROVE  /\ Progress(p, opcode, args, 0) = p
         /\ Progress(p, opcode, args, 1) = AfterElement(opcode, Empty, <<>>, p.ready)
         /\ Progress(p, opcode, args, 2 * Len(args) + 2)
              = BeforeElement(Empty, <<>>, Queued(p.ready, opcode, args))
<1>1. 2 * Len(args) + 2 # 0 /\ 2 * Len(args) + 2 # 1
  OBVIOUS
<1> QED BY <1>1 DEF Progress

(* ... and before and after each argument.                                 *)
LEMMA ProgressAtElement ==
  ASSUME NEW p, NEW opcode, NEW args \in Seq(Texts), NEW j \in 1 .. Len(args)
  PROVE  /\ Progress(p, opcode, args, 2 * j) = BeforeElement(opcode, First(args, j - 1), p.ready)
         /\ Progress(p, opcode, args, 2 * j + 1)
              = AfterElement(args[j], opcode, First(args, j - 1), p.ready)
<1>1. /\ 2 * j # 0 /\ 2 * j # 1 /\ 2 * j # 2 * Len(args) + 2 /\ j \in Nat
      /\ 2 * j + 1 # 0 /\ 2 * j + 1 # 1 /\ 2 * j + 1 # 2 * Len(args) + 2
  OBVIOUS
<1>2. /\ (2 * j) \div 2 = j /\ (2 * j) % 2 = 0
      /\ (2 * j + 1) \div 2 = j /\ (2 * j + 1) % 2 # 0
  BY <1>1, Halves
<1>3. Progress(p, opcode, args, 2 * j) = BeforeElement(opcode, First(args, j - 1), p.ready)
  BY <1>1, <1>2, Zenon DEF Progress
<1>4. Progress(p, opcode, args, 2 * j + 1)
        = AfterElement(args[j], opcode, First(args, j - 1), p.ready)
  BY <1>1, <1>2, Zenon DEF Progress
<1> QED BY <1>3, <1>4

(* What serialize writes, process_byte reads back: one instruction more in *)
(* the queue, with its opcode and its arguments, empty ones included.      *)
THEOREM ParserReadsSerialized ==
  ASSUME NEW p, AtRest(p), NEW opcode \in Texts \ {Empty}, NEW args \in Seq(Texts)
  PROVE  Feed(p, Serialize(opcode, args)) =
           BeforeElement(Empty, <<>>, Queued(p.ready, opcode, args))
<1> DEFINE k == Len(args)
           tokens == Serialize(opcode, args)
           first(j) == First(args, j)
           at(n) == Progress(p, opcode, args, n)
           done == BeforeElement(Empty, <<>>, Queued(p.ready, opcode, args))
           run == [n \in 0 .. 2 * k + 2 |-> at(n)]
<1>0. k \in Nat
  OBVIOUS
<1>1. /\ Len(tokens) = 2 * k + 2
      /\ tokens[1] = opcode /\ tokens[2 * k + 2] = Semi
      /\ \A j \in 1 .. k : tokens[2 * j] = Comma /\ tokens[2 * j + 1] = args[j]
  BY SerializedTokens
<1>2. /\ first(0) = <<>> /\ first(k) = args
      /\ \A j \in 1 .. k : args[j] \in Texts /\ first(j) = Longer(first(j - 1), args[j])
  BY DEF First, Longer
<1>3. /\ at(0) = p /\ at(1) = AfterElement(opcode, Empty, <<>>, p.ready) /\ at(2 * k + 2) = done
      /\ \A j \in 1 .. k : /\ at(2 * j) = BeforeElement(opcode, first(j - 1), p.ready)
                           /\ at(2 * j + 1) = AfterElement(args[j], opcode, first(j - 1), p.ready)
  <2>1. at(0) = p /\ at(1) = AfterElement(opcode, Empty, <<>>, p.ready)
    BY ProgressAtEnds
  <2>2. at(2 * k + 2) = done
    BY ProgressAtEnds
  <2>3. ASSUME NEW j \in 1 .. k
        PROVE  /\ at(2 * j) = BeforeElement(opcode, first(j - 1), p.ready)
               /\ at(2 * j + 1) = AfterElement(args[j], opcode, first(j - 1), p.ready)
    BY ProgressAtElement
  <2> HIDE DEF k, first, at, done
  <2> QED BY <2>1, <2>2, <2>3
<1>4. p = BeforeElement(Empty, <<>>, p.ready)
  BY DEF AtRest
<1>5. run = [n \in 0 .. 2 * k + 2 |-> run[n]] /\ \A n \in 0 .. 2 * k + 2 : run[n] = at(n)
  OBVIOUS
<1> HIDE DEF k, tokens, first, at, done, run
<1>6. ASSUME NEW n \in 1 .. 2 * k + 2 PROVE at(n) = ProcessToken(at(n - 1), tokens[n])
  <2>1. CASE n = 1
    <3>1. ProcessToken(BeforeElement(Empty, <<>>, p.ready), opcode)
            = AfterElement(opcode, Empty, <<>>, p.ready)
      BY ReadsElement
    <3>2. n - 1 = 0
      BY <2>1
    <3>3. at(n - 1) = p /\ at(n) = AfterElement(opcode, Empty, <<>>, p.ready)
          /\ tokens[n] = opcode
      BY <1>1, <1>3, <2>1, <3>2
    <3> QED BY <1>4, <3>1, <3>3
  <2>2. ASSUME NEW j \in 1 .. k, n = 2 * j PROVE at(n) = ProcessToken(at(n - 1), tokens[n])
    <3>1. tokens[n] = Comma /\ at(n) = BeforeElement(opcode, first(j - 1), p.ready)
      BY <1>0, <1>1, <1>3, <2>2
    <3>2. CASE j = 1
      <4>1. n - 1 = 1 /\ j - 1 = 0
        BY <2>2, <3>2
      <4>3. at(n - 1) = AfterElement(opcode, Empty, <<>>, p.ready) /\ first(j - 1) = <<>>
        BY <1>2, <1>3, <4>1
      <4>2. ProcessToken(AfterElement(opcode, Empty, <<>>, p.ready), Comma)
              = BeforeElement(opcode, <<>>, p.ready)
        BY ReadsCommaAfterOpcode
      <4> QED BY <3>1, <4>2, <4>3
    <3>3. CASE j # 1
      <4>1. PICK i \in 1 .. k : n - 1 = 2 * i + 1 /\ i = j - 1
        BY <1>0, <2>2, <3>3
      <4>2. at(n - 1) = AfterElement(args[i], opcode, first(i - 1), p.ready)
        BY <1>3, <4>1
      <4>3. args[i] \in Texts /\ first(j - 1) = Longer(first(i - 1), args[i])
        BY <1>0, <1>2, <4>1
      <4>4. ProcessToken(AfterElement(args[i], opcode, first(i - 1), p.ready), Comma)
              = BeforeElement(opcode, Longer(first(i - 1), args[i]), p.ready)
        BY <4>3, ReadsComma
      <4> QED BY <3>1, <4>2, <4>3, <4>4
    <3> QED BY <3>2, <3>3
  <2>3. ASSUME NEW j \in 1 .. k, n = 2 * j + 1 PROVE at(n) = ProcessToken(at(n - 1), tokens[n])
    <3>1. n - 1 = 2 * j
      BY <1>0, <1>1, <2>3
    <3>2. /\ tokens[n] = args[j] /\ args[j] \in Texts
          /\ at(n - 1) = BeforeElement(opcode, first(j - 1), p.ready)
          /\ at(n) = AfterElement(args[j], opcode, first(j - 1), p.ready)
      BY <1>0, <1>1, <1>2, <1>3, <2>3, <3>1
    <3>3. ProcessToken(BeforeElement(opcode, first(j - 1), p.ready), args[j])
            = AfterElement(args[j], opcode, first(j - 1), p.ready)
      BY <3>2, ReadsElement
    <3> QED BY <3>2, <3>3
  <2>4. CASE n = 2 * k + 2
    <3>1. tokens[n] = Semi /\ at(n) = done
      BY <1>0, <1>1, <1>3, <2>4
    <3>2. CASE k = 0
      <4>1. n - 1 = 1
        BY <2>4, <3>2
      <4>3. at(n - 1) = AfterElement(opcode, Empty, <<>>, p.ready) /\ args = <<>>
        BY <1>2, <1>3, <3>2, <4>1
      <4>2. ProcessToken(AfterElement(opcode, Empty, <<>>, p.ready), Semi)
              = BeforeElement(Empty, <<>>,
                        Queued(p.ready, opcode, <<>>))
        BY ReadsSemiAfterOpcode
      <4> QED BY <3>1, <4>2, <4>3 DEF done
    <3>3. CASE k # 0
      <4>1. k \in 1 .. k /\ n - 1 = 2 * k + 1
        BY <1>0, <1>1, <2>4, <3>3
      <4>2. at(n - 1) = AfterElement(args[k], opcode, first(k - 1), p.ready)
        BY <1>3, <4>1
      <4>3. args[k] \in Texts /\ args = Longer(first(k - 1), args[k])
        BY <1>0, <1>2, <4>1
      <4>4. ProcessToken(AfterElement(args[k], opcode, first(k - 1), p.ready), Semi)
              = BeforeElement(Empty, <<>>,
                  Queued(p.ready, opcode, Longer(first(k - 1), args[k])))
        BY <4>3, ReadsSemi
      <4> QED BY <3>1, <4>2, <4>3, <4>4 DEF done
    <3> QED BY <3>2, <3>3
  <2> QED BY <1>0, <1>1, <2>1, <2>2, <2>3, <2>4, Positions
<1>7. IsRun(run, p, tokens)
  <2>1. ASSUME NEW n \in 1 .. 2 * k + 2 PROVE run[n] = ProcessToken(run[n - 1], tokens[n])
    <3>1. n \in 0 .. 2 * k + 2 /\ n - 1 \in 0 .. 2 * k + 2
      BY <1>0, <1>1
    <3> QED BY <3>1, <1>5, <1>6
  <2>2. run[0] = p
    BY <1>0, <1>1, <1>3, <1>5
  <2> QED BY <1>0, <1>1, <1>5, <2>1, <2>2 DEF IsRun
<1>8. Feed(p, tokens) = run[2 * k + 2]
  <2>1. Len(tokens) = 2 * k + 2 /\ Len(tokens) \in Nat
    BY <1>0, <1>1
  <2>2. Feed(p, tokens) = run[Len(tokens)]
    BY <2>1, <1>7, FeedIsRun, Zenon
  <2> QED BY <2>1, <2>2
<1>9. run[2 * k + 2] = done
  BY <1>0, <1>1, <1>3, <1>5
<1> QED BY <1>8, <1>9 DEF done, tokens

----------------------------------------------------------------------------
(***************************************************************************)
(* Frames to their own browser.  A frame is written in three places: by    *)
(* the connection's own thread, by the worker's callback, and by the       *)
(* thread that opens a tunnel.  Their descriptor number can be somebody    *)
(* else's only after close(fd), which the connection's thread reaches      *)
(* after disconnect() joined the worker: then no callback is left that     *)
(* could write (JoinedBeforeClose).                                        *)
(***************************************************************************)

(* close(fd) is the last but one thing handle_connection does.             *)
ClosedAtEnd == fdOwner \in {"free", "other"} => cpc \in {"release", "destroy", "done"}

(* Before its first frame a connection has no client and no worker.        *)
NoClientYet ==
  cpc \in {None, "handshake", "first"} => kind = None /\ wpc = None /\ WorkerIdle

(* Only form B of the web client has a thread that opens a tunnel.         *)
TunnelThread == kind # "tunnel" => tpc = None

(* After the join the worker has returned, callbacks included.             *)
JoinedBeforeClose ==
  kind # "tunnel" /\ cpc \in {"reap", "close", "release", "destroy", "done"} => WorkerDone

(* The inductive invariant.                                                *)
FramesInv ==
  ClosedAtEnd /\ NoClientYet /\ TunnelThread /\ JoinedBeforeClose /\ FramesToOwnBrowser

(* Whatever the worker does, it has not returned before.                   *)
LEMMA WorkerStepIsTheWorkers ==
  ASSUME WorkerStep
  PROVE  wpc # None /\ wpc # "exited" /\ UNCHANGED kind
<1> USE DEF Goto, None
<1>1. CASE SshStep
  BY <1>1 DEF SshStep, SshSetUp, SshSetUpFails, SshNext, SshLoop, SshRead, SshWriteDone, SshWrite,
     SshWriteAgain, SshWriteFails, SshEnd, SshTeardown
<1>2. CASE VncStep
  BY <1>2 DEF VncStep, VncNew, VncConnect, VncConnectFails, VncMessage, VncEnd, VncCleanUp
<1>3. CASE RdpStep
  BY <1>3 DEF RdpStep, RdpNew, RdpContext, RdpConnect, RdpPaint, RdpLoopEnds, RdpEnd, RdpFree,
     RdpNull
<1>4. CASE WebStep
  BY <1>4 DEF WebStep, WebFork, WebUrl, WebGivesUp, WebConnect, WebEnable, WebEnableStopped,
     WebLoaded, WebNotLoaded, WebStream, WebSend, WebAck, WebCapture, WebNoShot, WebShot, WebClose
<1>5. CASE HttpStep
  BY <1>5 DEF HttpStep, HttpInit, HttpInitFails, HttpGivesUp, HttpPerform, HttpCleanUp
<1> QED BY <1>1, <1>2, <1>3, <1>4, <1>5 DEF WorkerStep

(* The worker and its callback, and the sockets given a closed number.     *)
LEMMA WorkerKeepsFramesInv ==
  ASSUME FramesInv, Worker \/ Callback \/ Environment
  PROVE  FramesInv'
<1> USE DEF FramesInv, ClosedAtEnd, NoClientYet, TunnelThread, JoinedBeforeClose,
            FramesToOwnBrowser, WorkerDone, WorkerIdle, connVars, gatewayVars
<1>1. CASE Worker
  BY <1>1, WorkerStepIsTheWorkers DEF Worker
<1>2. CASE CallbackEnter
  BY <1>2 DEF CallbackEnter
<1>3. CASE CallbackReturn
  <2>1. cb # "no" /\ cb' = "no" /\ UNCHANGED <<kind, wpc, cpc, fdOwner, tpc>>
    BY <1>3 DEF CallbackReturn
  <2>2. kind # "tunnel" =>
           cpc \notin {None, "handshake", "first", "reap", "close", "release", "destroy", "done"}
    BY <2>1
  <2>3. kind # "tunnel" => ~foreign'
    BY <1>3, <2>2 DEF CallbackReturn, SendWsFrame
  <2>4. kind = "tunnel" => cpc \notin {None, "handshake", "first"}
    BY <2>1
  <2> QED BY <2>1, <2>2, <2>3, <2>4
<1>4. CASE BrowserLeaves \/ ReuseFd
  BY <1>4 DEF BrowserLeaves, ReuseFd, clientVars
<1>5. CASE ReuseWs /\ UNCHANGED <<connVars, gatewayVars>>
  BY <1>5 DEF ReuseWs
<1> QED BY <1>1, <1>2, <1>3, <1>4, <1>5 DEF Callback, Environment

(* handle_connection up to the input loop.                                 *)
LEMMA ConnectingKeepsFramesInv ==
  ASSUME FramesInv, Start \/ Stop \/ Accept \/ Connecting
  PROVE  FramesInv'
<1> USE DEF FramesInv, ClosedAtEnd, NoClientYet, TunnelThread, JoinedBeforeClose,
            FramesToOwnBrowser, WorkerDone, WorkerIdle, connVars, gatewayVars, clientVars, None
<1>1. CASE Start \/ Stop
  BY <1>1 DEF Start, Stop
<1>2. CASE Accept \/ Handshake
  <2>1. /\ cpc \in {None, "handshake"} /\ cpc' \in {"handshake", "first", "close"}
        /\ UNCHANGED <<kind, wpc, todo, cb, tpc, foreign>> /\ fdOwner' \in {"self", fdOwner}
    BY <1>2 DEF Accept, Handshake
  <2> QED BY <2>1
<1>3. ASSUME NEW f \in FirstFrames, ReadFirst(f) PROVE FramesInv'
  <2> DEFINE k == ClientFor(Head(Feed(ParserFresh, f).ready).args)
  <2>1. /\ cpc = "first"
        /\ \/ /\ cpc' \in {"first", "close"} /\ UNCHANGED <<kind, wpc, todo, cb, tpc, fdOwner>>
              /\ UNCHANGED foreign \/ SendWsFrame(ErrorInstr)
           \/ Dispatch(k)
    <3> HIDE DEF FramesInv
    <3> QED BY <1>3 DEF ReadFirst
  <2> HIDE DEF k
  <2>2. CASE Dispatch(k)
    BY <2>1, <2>2 DEF Dispatch
  <2>3. CASE cpc' \in {"first", "close"} /\ UNCHANGED <<kind, wpc, todo, cb, tpc, fdOwner>>
    <3>1. /\ kind' = None /\ wpc' = None /\ todo' = <<>> /\ cb' = "no" /\ tpc' = None /\ ~foreign
          /\ fdOwner' \notin {"free", "other"}
      BY <2>1, <2>3
    <3>2. ~foreign'
      BY <2>1, <2>3, <3>1 DEF SendWsFrame, Dispatch
    <3> QED BY <2>3, <3>1, <3>2
  <2> QED BY <2>1, <2>2, <2>3
<1>4. CASE ReadFirstFails
  BY <1>4 DEF ReadFirstFails
<1>5. CASE HandleInstruction \/ \E f \in Frames : ReadFrame(f)
  <2>1. UNCHANGED <<kind, wpc, todo, cb, tpc, cpc, fdOwner, foreign>>
    BY <1>5 DEF ReadFrame, HandleInstruction
  <2> QED BY <2>1
<1>6. CASE Leave
  BY <1>6 DEF Leave
<1> QED BY <1>1, <1>2, <1>3, <1>4, <1>5, <1>6 DEF Connecting

(* disconnect(), close(fd) and the return of the connection's thread.      *)
LEMMA LeavingKeepsFramesInv ==
  ASSUME FramesInv, Leaving
  PROVE  FramesInv'
<1> USE DEF FramesInv, ClosedAtEnd, NoClientYet, TunnelThread, JoinedBeforeClose,
            FramesToOwnBrowser, WorkerDone, WorkerIdle, connVars, gatewayVars, clientVars, None
<1>1. CASE SignalStop \/ SignalWs
  BY <1>1 DEF SignalStop, SignalWs
<1>2. CASE SignalRdp
  BY <1>2 DEF SignalRdp
<1>3. CASE Join
  <2>1. /\ cpc = "join" /\ cpc' \in {"reap", "close"} /\ WorkerDone
        /\ UNCHANGED <<kind, wpc, todo, cb, tpc, foreign, fdOwner>>
    BY <1>3 DEF Join
  <2> QED BY <2>1
<1>4. CASE ReapChrome
  <2>1. /\ cpc = "reap" /\ cpc' = "close"
        /\ UNCHANGED <<kind, wpc, todo, cb, tpc, foreign, fdOwner>>
    BY <1>4 DEF ReapChrome
  <2> QED BY <2>1
<1>5. CASE CloseFd
  BY <1>5 DEF CloseFd
<1>6. CASE ReleaseConn \/ DestroyConn
  BY <1>6 DEF ReleaseConn, DestroyConn
<1> QED BY <1>1, <1>2, <1>3, <1>4, <1>5, <1>6 DEF Leaving

(* The tunnel thread, which exists for form B only.                        *)
LEMMA TunnelKeepsFramesInv ==
  ASSUME FramesInv, Tunnel
  PROVE  FramesInv'
<1> USE DEF FramesInv, ClosedAtEnd, NoClientYet, TunnelThread, JoinedBeforeClose,
            FramesToOwnBrowser, connVars, clientVars, None
<1>1. tpc # None /\ kind' = kind /\ UNCHANGED <<cpc, fdOwner>>
  BY DEF Tunnel, TunnelMoves, TunnelRoute, TunnelOpen, TunnelFails, TunnelCheck, TunnelStart,
     TunnelRelease, TunnelDestroy
<1>2. kind = "tunnel" /\ cpc \notin {None, "handshake", "first"}
  BY <1>1
<1> QED BY <1>1, <1>2

----------------------------------------------------------------------------
(* FramesInv holds throughout: the threads of a connection end before the  *)
(* number of its socket can denote another one, except for a tunnel's.     *)
THEOREM GatewayInvariant == Spec => []FramesInv
<1>1. Init => FramesInv
  BY DEF Init, ClientInit, FramesInv, ClosedAtEnd, NoClientYet, TunnelThread, JoinedBeforeClose,
     FramesToOwnBrowser, WorkerIdle, None
<1>2. FramesInv /\ [Next]_vars => FramesInv'
  <2> SUFFICES ASSUME FramesInv, [Next]_vars PROVE FramesInv'
    OBVIOUS
  <2>1. CASE Start \/ Stop \/ Accept \/ Connecting
    BY <2>1, ConnectingKeepsFramesInv
  <2>2. CASE Worker \/ Callback \/ Environment
    BY <2>2, WorkerKeepsFramesInv
  <2>3. CASE Leaving
    BY <2>3, LeavingKeepsFramesInv
  <2>4. CASE Tunnel
    BY <2>4, TunnelKeepsFramesInv
  <2>5. CASE UNCHANGED vars
    BY <2>5 DEF vars, clientVars, connVars, gatewayVars, FramesInv, ClosedAtEnd, NoClientYet,
       TunnelThread, JoinedBeforeClose, FramesToOwnBrowser, WorkerDone, WorkerIdle
  <2> QED BY <2>1, <2>2, <2>3, <2>4, <2>5 DEF Next
<1> QED BY <1>1, <1>2, PTL DEF Spec

(* A frame for this browser is never written to a number that close(fd)    *)
(* freed and another connection was given, tunnels excepted.               *)
THEOREM GatewayFramesToOwnBrowser == Spec => []FramesToOwnBrowser
<1>1. FramesInv => FramesToOwnBrowser
  BY DEF FramesInv
<1> QED BY GatewayInvariant, <1>1, PTL
----------------------------------------------------------------------------
(***************************************************************************)
(* What the client holds.  The worker releases what it acquired on every   *)
(* path to its end; Chrome is reaped by the connection's thread after the  *)
(* join; the descriptor of a tunnel is in the hands of the tunnel thread   *)
(* until the worker takes it.                                              *)
(***************************************************************************)

(* The stages of each client's worker_ before it returns.                  *)
SshStages == DOMAIN SshNext \cup {"io", "read", "write", "io_end", "teardown"}
VncStages == {"rfb_new", "rfb_init", "rfb_loop", "rfb_failed", "rfb_end"}
RdpStages ==
  {"rdp_new", "rdp_context", "rdp_connect", "rdp_loop", "rdp_end", "rdp_free", "rdp_null"}
WebStages ==
  {"fork", "url", "ws_connect", "enable", "load", "stream", "drain", "ack", "shot", "ws_close"}
HttpStages == {"curl", "perform", "cleanup", "curl_fail"}

OwnStages ==
  /\ kind \in DOMAIN FirstStage \cup {None}
  /\ kind = "ssh" => wpc \in SshStages \cup {"exited"}
  /\ kind = "vnc" => wpc \in VncStages \cup {"exited"}
  /\ kind = "rdp" => wpc \in RdpStages \cup {"exited"}
  /\ kind = "web" => wpc \in WebStages \cup {"exited"}
  /\ kind = "http" => wpc \in HttpStages \cup {"exited"}
  /\ kind = "tunnel" => wpc \in HttpStages \cup {None, "exited"}
  /\ kind = None => wpc = None
  /\ tpc \in {"route", "open", "fail", "check", "start"} => wpc = None

(* The sockets of the connection: before accept, and after close(fd).      *)
SocketClosed == cpc \in {"release", "destroy", "done"} => fdOwner \in {"free", "other"}

HeldBySession ==
  /\ kind = None => held = {}
  /\ kind = "ssh" => held \subseteq {"sock", "session", "channel"}
  /\ kind = "vnc" => held \subseteq {"rfb", "framebuffer"}
  /\ kind = "rdp" => held \subseteq {"instance", "context", "gdi"}
  /\ wpc \in {"rfb_new", "rdp_new", "rdp_null"} => held = {}
  /\ kind = "http" => held \subseteq {"curl", "curl_fd"}
  /\ kind \in {"ssh", "vnc", "rdp", "http"} /\ wpc = "exited" => held = {}

HeldByWeb ==
  kind = "web" =>
    /\ held \subseteq {"chrome", "ws"}
    /\ wpc = "fork" => held = {}
    /\ "ws" \in held => ws \in {"self", "eof"} /\ wpc \notin {"url", "ws_connect", "exited"}
    /\ "chrome" \in held => cpc \notin {"close", "release", "destroy", "done"}

HeldByTunnel ==
  kind = "tunnel" =>
    /\ held \subseteq {"curl", "curl_fd", "pre_fd"}
    /\ wpc \in {None, "exited"} => held \subseteq {"pre_fd"}
    /\ wpc = None /\ "pre_fd" \in held => tpc \in {"check", "start"}

HeldInv == OwnStages /\ SocketClosed /\ HeldBySession /\ HeldByWeb /\ HeldByTunnel
----------------------------------------------------------------------------
(* A stage belongs to one client.                                          *)
LEMMA StageTellsKind ==
  ASSUME OwnStages
  PROVE  /\ wpc \in SshStages => kind = "ssh"
         /\ wpc \in VncStages => kind = "vnc"
         /\ wpc \in RdpStages => kind = "rdp"
         /\ wpc \in WebStages => kind = "web"
         /\ wpc \in HttpStages => kind \in {"http", "tunnel"}
BY DEF OwnStages, SshStages, VncStages, RdpStages, WebStages, HttpStages, SshNext, FirstStage, None

(* The SSH client: set-up stages acquire, every path to the end releases.  *)
LEMMA SshKeepsHeld ==
  ASSUME HeldInv, SshStep, UNCHANGED <<cpc, tpc, fdOwner>>
  PROVE  HeldInv'
<1> DEFINE Moves ==
      /\ wpc \in SshStages /\ wpc' \in SshStages \cup {"exited"} /\ kind' = kind
      /\ \/ held' = {}
         \/ wpc' # "exited" /\ held' \subseteq held \cup {"sock", "session", "channel"}
<1>1. Moves
  <2>1. ASSUME NEW stage \in DOMAIN SshNext, SshSetUp(stage) \/ SshSetUpFails(stage)
        PROVE  Moves
    BY <2>1 DEF SshSetUp, SshSetUpFails, SshGains, SshNext, Goto, SshStages
  <2>2. CASE \/ SshLoop \/ SshRead \/ SshWriteDone \/ SshWrite \/ SshWriteAgain \/ SshWriteFails
             \/ SshEnd \/ SshTeardown
    BY <2>2 DEF SshLoop, SshRead, SshWriteDone, SshWrite, SshWriteAgain, SshWriteFails, SshEnd,
       SshTeardown, Goto, SshStages
  <2> QED BY <2>1, <2>2 DEF SshStep
<1>2. kind = "ssh"
  BY <1>1, StageTellsKind DEF HeldInv
<1>3. /\ wpc \notin {None, "rfb_new", "rdp_new"}
      /\ wpc' \notin {None, "rfb_new", "rdp_new", "rdp_null"}
  BY <1>1 DEF SshStages, SshNext, None
<1> HIDE DEF Moves
<1>4. OwnStages'
  BY <1>1, <1>2, <1>3 DEF Moves, HeldInv, OwnStages
<1> QED
  BY <1>1, <1>2, <1>3, <1>4 DEF Moves, HeldInv, SocketClosed, HeldBySession, HeldByWeb,
     HeldByTunnel, None

(* The VNC client; rfbInitClient frees it when it fails.                   *)
LEMMA VncKeepsHeld ==
  ASSUME HeldInv, VncStep, UNCHANGED <<cpc, tpc, fdOwner>>
  PROVE  HeldInv'
<1>1. /\ wpc \in VncStages /\ wpc' \in (VncStages \ {"rfb_new"}) \cup {"exited"} /\ kind' = kind
      /\ \/ held' = {}
         \/ wpc' # "exited" /\ held' \subseteq held \cup {"rfb", "framebuffer"}
  BY DEF HeldInv, HeldBySession, VncStep, VncNew, VncConnect, VncConnectFails, VncMessage, VncEnd,
     VncCleanUp, Goto, VncStages
<1>2. kind = "vnc"
  BY <1>1, StageTellsKind DEF HeldInv
<1>3. wpc # None /\ wpc' \notin {None, "rfb_new", "rdp_new", "rdp_null"}
  BY <1>1 DEF VncStages, None
<1>4. OwnStages'
  BY <1>1, <1>2, <1>3 DEF HeldInv, OwnStages
<1> QED
  BY <1>1, <1>2, <1>3, <1>4 DEF HeldInv, SocketClosed, HeldBySession, HeldByWeb, HeldByTunnel, None

(* The RDP client.                                                         *)
LEMMA RdpKeepsHeld ==
  ASSUME HeldInv, RdpStep, UNCHANGED <<cpc, tpc, fdOwner>>
  PROVE  HeldInv'
<1>1. /\ wpc \in RdpStages /\ wpc' \in (RdpStages \ {"rdp_new"}) \cup {"exited"} /\ kind' = kind
      /\ \/ held' = {}
         \/ /\ wpc' \notin {"rdp_null", "exited"}
            /\ held' \subseteq held \cup {"instance", "context", "gdi"}
  BY DEF HeldInv, HeldBySession, RdpStep, RdpNew, RdpContext, RdpConnect, RdpPaint, RdpLoopEnds,
     RdpEnd, RdpFree, RdpNull, Goto, RdpStages
<1>2. kind = "rdp"
  BY <1>1, StageTellsKind DEF HeldInv
<1>3. wpc # None /\ wpc' \notin {None, "rfb_new"}
  BY <1>1 DEF RdpStages, None
<1>4. OwnStages'
  BY <1>1, <1>2, <1>3 DEF HeldInv, OwnStages
<1> QED
  BY <1>1, <1>2, <1>3, <1>4 DEF HeldInv, SocketClosed, HeldBySession, HeldByWeb, HeldByTunnel, None

(* The HTTP client, with a socket of its own or the tunnel's.              *)
LEMMA HttpKeepsHeld ==
  ASSUME HeldInv, HttpStep, UNCHANGED <<cpc, tpc, fdOwner>>
  PROVE  HeldInv'
<1> DEFINE Moves ==
      /\ wpc \in HttpStages /\ wpc' \in HttpStages \cup {"exited"} /\ kind' = kind
      /\ \/ held' = {}
         \/ held' = held \ {"curl", "curl_fd"}
         \/ /\ wpc' # "exited" /\ held' \subseteq held \cup {"curl", "curl_fd"}
            /\ "curl_fd" \in held' => "curl_fd" \in held \/ "pre_fd" \in held
<1>1. Moves
  <2>1. ASSUME NEW ok \in BOOLEAN, NEW taken \in BOOLEAN, HttpPerform(ok, taken) PROVE Moves
    BY <2>1 DEF HttpPerform, Goto, HttpStages
  <2>2. CASE HttpInit \/ HttpInitFails \/ HttpGivesUp \/ HttpCleanUp
    BY <2>2 DEF HttpInit, HttpInitFails, HttpGivesUp, HttpCleanUp, Goto, HttpStages
  <2> QED BY <2>1, <2>2 DEF HttpStep
<1>2. kind \in {"http", "tunnel"}
  BY <1>1, StageTellsKind DEF HeldInv
<1>3. wpc # None /\ wpc' \notin {None, "rfb_new", "rdp_new", "rdp_null"}
  BY <1>1 DEF HttpStages, None
<1> HIDE DEF Moves
<1>4. OwnStages'
  BY <1>1, <1>2, <1>3 DEF Moves, HeldInv, OwnStages
<1> QED
  BY <1>1, <1>2, <1>3, <1>4 DEF Moves, HeldInv, SocketClosed, HeldBySession, HeldByWeb,
     HeldByTunnel, None

(* The web client: its CDP socket is closed by whoever comes first.        *)
LEMMA WebKeepsHeld ==
  ASSUME FramesInv, HeldInv, WebStep, UNCHANGED <<cpc, tpc, fdOwner>>
  PROVE  HeldInv'
<1> DEFINE Moves ==
      /\ wpc \in WebStages /\ wpc' \in (WebStages \ {"fork"}) \cup {"exited"} /\ kind' = kind
      /\ held' \subseteq held \cup {"chrome", "ws"}
      /\ "chrome" \in held' => "chrome" \in held \/ wpc = "fork"
      /\ "ws" \in held' => ws' \in {"self", "eof"} /\ wpc' \notin {"url", "ws_connect", "exited"}
<1>1. kind = "web" /\ wpc \in WebStages
  <2>1. wpc \in WebStages
    BY DEF WebStep, WebFork, WebUrl, WebGivesUp, WebConnect, WebEnable, WebEnableStopped, WebLoaded,
       WebNotLoaded, WebStream, WebSend, WebAck, WebCapture, WebNoShot, WebShot, WebClose, Goto,
       WebStages
  <2> QED BY <2>1, StageTellsKind DEF HeldInv
<1>2. "ws" \in held => ws \in {"self", "eof"} /\ wpc \notin {"url", "ws_connect"}
  BY <1>1 DEF HeldInv, HeldByWeb
<1>3. wpc = "fork" => held = {}
  BY <1>1 DEF HeldInv, HeldByWeb
<1>4. Moves
  <2> USE <1>1, <1>2, <1>3 DEF Goto, WebStages
  <2>1. CASE WebFork \/ WebUrl \/ WebGivesUp \/ WebConnect
    BY <2>1 DEF WebFork, WebUrl, WebGivesUp, WebConnect
  <2>2. CASE WebEnable \/ WebEnableStopped \/ WebLoaded \/ WebNotLoaded \/ WebClose
    BY <2>2 DEF WebEnable, WebEnableStopped, WebLoaded, WebNotLoaded, WebClose, Answered, RecvFails,
       CloseWs, AfterCloseWs
  <2>3. CASE WebStream \/ WebSend \/ WebAck \/ WebCapture \/ WebNoShot
    BY <2>3 DEF WebStream, WebSend, WebAck, WebCapture, WebNoShot, Answered, RecvFails,
       webVars
  <2>4. ASSUME NEW new \in Screens, NEW codec \in Codecs, WebShot(new, codec) PROVE Moves
    BY <2>4 DEF WebShot, Answered
  <2> QED BY <2>1, <2>2, <2>3, <2>4 DEF WebStep
<1>5. wpc # None /\ wpc' \notin {None, "rfb_new", "rdp_new", "rdp_null"}
  BY <1>1, <1>4 DEF WebStages, None
<1>6. cpc \notin {"close", "release", "destroy", "done"}
  BY <1>1 DEF FramesInv, JoinedBeforeClose, WorkerDone, WebStages, None
<1> HIDE DEF Moves
<1>7. OwnStages'
  BY <1>1, <1>4, <1>5 DEF Moves, HeldInv, OwnStages
<1> QED
  BY <1>1, <1>3, <1>4, <1>5, <1>6, <1>7 DEF Moves, HeldInv, SocketClosed, HeldBySession, HeldByWeb,
     HeldByTunnel, None

(* The callbacks, the browser, and the sockets given a closed number.      *)
LEMMA WorldKeepsHeld ==
  ASSUME HeldInv, Callback \/ Environment
  PROVE  HeldInv'
<1>1. CASE Callback \/ BrowserLeaves \/ ReuseFd
  <2>1. /\ UNCHANGED <<kind, wpc, tpc, cpc, held, ws>>
        /\ fdOwner' = fdOwner \/ (fdOwner = "free" /\ fdOwner' = "other")
    BY <1>1 DEF Callback, CallbackEnter, CallbackReturn, BrowserLeaves, ReuseFd, connVars,
       clientVars, webVars
  <2> QED BY <2>1 DEF HeldInv, OwnStages, SocketClosed, HeldBySession, HeldByWeb, HeldByTunnel
<1>2. CASE ReuseWs /\ UNCHANGED <<connVars, gatewayVars>>
  <2>1. UNCHANGED <<kind, wpc, tpc, cpc, held, fdOwner>> /\ ws = "free"
    BY <1>2 DEF ReuseWs, connVars, gatewayVars
  <2> QED BY <2>1 DEF HeldInv, OwnStages, SocketClosed, HeldBySession, HeldByWeb, HeldByTunnel
<1> QED BY <1>1, <1>2 DEF Environment

(* The clients a connect instruction may ask for.                          *)
LEMMA ClientsAreKnown ==
  ASSUME NEW args
  PROVE  ClientFor(args) \in DOMAIN FirstStage \cup {None}
BY DEF ClientFor, FirstStage

(* handle_connection up to the input loop.                                 *)
LEMMA ConnectingKeepsHeld ==
  ASSUME FramesInv, HeldInv, Start \/ Stop \/ Accept \/ Connecting
  PROVE  HeldInv'
<1> DEFINE Same == UNCHANGED <<kind, wpc, tpc, held, ws>>
<1>1. ASSUME Same, cpc' \notin {"release", "destroy", "done"} \/ UNCHANGED <<cpc, fdOwner>>,
             kind = None \/ cpc' # "close"
      PROVE  HeldInv'
  BY <1>1 DEF HeldInv, OwnStages, SocketClosed, HeldBySession, HeldByWeb, HeldByTunnel, None
<1>2. CASE Start \/ Stop
  <2>1. Same /\ UNCHANGED <<cpc, fdOwner>> /\ cpc = None
    BY <1>2 DEF Start, Stop, clientVars, connVars, webVars
  <2> QED BY <2>1, <1>1 DEF None
<1>3. CASE Accept \/ Handshake \/ ReadFirstFails
  <2>1. Same /\ cpc' \in {"handshake", "first", "close"} /\ cpc \in {None, "handshake", "first"}
    BY <1>3 DEF Accept, Handshake, ReadFirstFails, clientVars, connVars, gatewayVars, webVars
  <2> QED BY <2>1, <1>1 DEF FramesInv, NoClientYet
<1>4. ASSUME NEW f \in FirstFrames, ReadFirst(f) PROVE HeldInv'
  <2> DEFINE k == ClientFor(Head(Feed(ParserFresh, f).ready).args)
  <2>1. /\ cpc = "first"
        /\ \/ cpc' \in {"first", "close"} /\ Same
           \/ Dispatch(k) /\ k # None
    BY <1>4 DEF ReadFirst, clientVars, connVars, gatewayVars, webVars
  <2>2. k \in DOMAIN FirstStage \cup {None}
    BY ClientsAreKnown
  <2> HIDE DEF k
  <2>3. kind = None /\ wpc = None /\ tpc = None /\ held = {}
    BY <2>1 DEF FramesInv, NoClientYet, TunnelThread, HeldInv, HeldBySession, None
  <2>4. CASE cpc' \in {"first", "close"} /\ Same
    BY <2>3, <2>4, <1>1
  <2>5. CASE Dispatch(k) /\ k # None
    <3>1. /\ kind' = k /\ held' = {} /\ cpc' = "loop"
          /\ IF k = "tunnel" THEN tpc' = "route" /\ wpc' = None
             ELSE tpc' = None /\ wpc' = FirstStage[k]
      BY <2>3, <2>5 DEF Dispatch, StartWorker
    <3>2. OwnStages'
      BY <2>2, <2>5, <3>1 DEF OwnStages, FirstStage, SshStages, SshNext, VncStages, RdpStages,
         WebStages, HttpStages, None
    <3> QED BY <3>1, <3>2 DEF HeldInv, SocketClosed, HeldBySession, HeldByWeb, HeldByTunnel
  <2> QED BY <2>1, <2>4, <2>5
<1>5. CASE HandleInstruction \/ \E f \in Frames : ReadFrame(f)
  <2>1. Same /\ UNCHANGED <<cpc, fdOwner>> /\ cpc = "loop"
    BY <1>5 DEF ReadFrame, HandleInstruction, webVars, gatewayVars
  <2> QED BY <2>1, <1>1
<1>6. CASE Leave
  <2>1. Same /\ cpc' = "d_signal"
    BY <1>6 DEF Leave, clientVars, gatewayVars, webVars
  <2> QED BY <2>1, <1>1
<1> QED BY <1>2, <1>3, <1>4, <1>5, <1>6 DEF Connecting

(* disconnect(), close(fd) and the return of the connection's thread.      *)
LEMMA LeavingKeepsHeld ==
  ASSUME HeldInv, Leaving
  PROVE  HeldInv'
<1> USE DEF HeldInv, OwnStages, SocketClosed, HeldBySession, HeldByWeb, HeldByTunnel
<1>1. CASE SignalStop \/ SignalWs \/ SignalRdp
  <2>1. UNCHANGED <<kind, wpc, tpc, fdOwner>> /\ cpc' \in {"d_ws", "join"} /\ held' \subseteq held
    BY <1>1 DEF SignalStop, SignalWs, SignalRdp, AfterCloseWs, gatewayVars
  <2>2. kind = "web" /\ "ws" \in held' => ws' = ws
    BY <1>1 DEF SignalStop, SignalWs, SignalRdp, AfterCloseWs, CloseWs, webVars
  <2> HIDE DEF OwnStages
  <2>3. OwnStages'
    BY <2>1 DEF OwnStages
  <2> QED BY <2>1, <2>2, <2>3
<1>2. CASE Join
  <2>1. /\ UNCHANGED <<kind, wpc, tpc, fdOwner, held, ws>>
        /\ cpc' = IF kind = "web" THEN "reap" ELSE "close"
    BY <1>2 DEF Join, gatewayVars, webVars
  <2> QED BY <2>1
<1>3. CASE ReapChrome
  <2>1. UNCHANGED <<kind, wpc, tpc, fdOwner, ws>> /\ cpc' = "close" /\ held' = held \ {"chrome"}
    BY <1>3 DEF ReapChrome, gatewayVars, webVars
  <2> HIDE DEF OwnStages
  <2>2. OwnStages'
    BY <2>1 DEF OwnStages
  <2> QED BY <2>1, <2>2
<1>4. CASE CloseFd \/ ReleaseConn \/ DestroyConn
  <2>1. /\ UNCHANGED <<kind, wpc, tpc, held, ws>>
        /\ \/ cpc = "close" /\ cpc' = "release" /\ fdOwner' = "free"
           \/ /\ cpc \in {"release", "destroy"} /\ cpc' \in {"destroy", "done"}
              /\ fdOwner' = fdOwner
    BY <1>4 DEF CloseFd, ReleaseConn, DestroyConn, gatewayVars, clientVars, webVars
  <2> QED BY <2>1
<1> QED BY <1>1, <1>2, <1>3, <1>4 DEF Leaving

(* The tunnel thread: the descriptor it opened is passed on or closed.     *)
LEMMA TunnelKeepsHeld ==
  ASSUME FramesInv, HeldInv, Tunnel
  PROVE  HeldInv'
<1>1. kind = "tunnel" /\ UNCHANGED <<kind, cpc, fdOwner>>
  <2>1. tpc # None /\ UNCHANGED <<kind, cpc, fdOwner>>
    BY DEF Tunnel, TunnelMoves, TunnelRoute, TunnelOpen, TunnelFails, TunnelCheck, TunnelStart,
       TunnelRelease, TunnelDestroy, clientVars, connVars, None
  <2> QED BY <2>1 DEF FramesInv, TunnelThread
<1>2. \/ /\ UNCHANGED <<wpc, held>>
         /\ \/ tpc = "route" /\ tpc' \in {"open", "fail"}
            \/ tpc = "open" /\ tpc' = "fail"
            \/ tpc = "check" /\ tpc' = "start"
            \/ tpc \in {"fail", "release", "destroy"} /\ tpc' \in {"release", "destroy", "gone"}
      \/ tpc = "open" /\ tpc' = "check" /\ held' = held \cup {"pre_fd"} /\ wpc' = wpc
      \/ tpc = "check" /\ tpc' = "release" /\ held' = held \ {"pre_fd"} /\ wpc' = wpc
      \/ tpc = "start" /\ tpc' = "release" /\ held' = held /\ wpc' = "curl"
  BY DEF Tunnel, TunnelMoves, TunnelRoute, TunnelOpen, TunnelFails, TunnelCheck, TunnelStart,
     TunnelRelease, TunnelDestroy, clientVars, StartWorker, FirstStage
<1>3. OwnStages'
  BY <1>1, <1>2 DEF HeldInv, OwnStages, HttpStages, FirstStage, None
<1>4. HeldByTunnel'
  <2>1. tpc \in {"open", "check", "start"} => wpc = None
    BY DEF HeldInv, OwnStages
  <2> QED BY <1>1, <1>2, <2>1 DEF HeldInv, HeldByTunnel, None
<1>5. HeldBySession'
  <2>1. wpc' \notin {"rfb_new", "rdp_new", "rdp_null"}
    BY <1>1, <1>3 DEF OwnStages, HttpStages, None
  <2> QED BY <1>1, <2>1 DEF HeldBySession, None
<1> QED BY <1>1, <1>3, <1>4, <1>5 DEF HeldInv, SocketClosed, HeldByWeb

(* HeldInv holds throughout, whichever thread ends first.                  *)
THEOREM HeldInvariant == Spec => [](FramesInv /\ HeldInv)
<1>1. Init => HeldInv
  BY DEF Init, ClientInit, HeldInv, OwnStages, SocketClosed, HeldBySession, HeldByWeb,
     HeldByTunnel, None
<1>2. FramesInv /\ HeldInv /\ [Next]_vars => HeldInv'
  <2> SUFFICES ASSUME FramesInv, HeldInv, [Next]_vars PROVE HeldInv'
    OBVIOUS
  <2>1. CASE Start \/ Stop \/ Accept \/ Connecting
    BY <2>1, ConnectingKeepsHeld
  <2>2. CASE Worker
    BY <2>2, SshKeepsHeld, VncKeepsHeld, RdpKeepsHeld, WebKeepsHeld, HttpKeepsHeld
       DEF Worker, WorkerStep, connVars, gatewayVars
  <2>3. CASE Callback \/ Environment
    BY <2>3, WorldKeepsHeld
  <2>4. CASE Leaving
    BY <2>4, LeavingKeepsHeld
  <2>5. CASE Tunnel
    BY <2>5, TunnelKeepsHeld
  <2>6. CASE UNCHANGED vars
    BY <2>6 DEF vars, clientVars, connVars, gatewayVars, webVars, HeldInv, OwnStages, SocketClosed,
       HeldBySession, HeldByWeb, HeldByTunnel
  <2> QED BY <2>1, <2>2, <2>3, <2>4, <2>5, <2>6 DEF Next
<1> QED BY <1>1, <1>2, GatewayInvariant, PTL DEF Spec

(* When the threads of a connection have returned, all its client acquired *)
(* is released, whichever client it was and wherever it was stopped, but   *)
(* for a tunnel descriptor that libcurl never asked for.                   *)
THEOREM GatewayReleasesAll == Spec => []ReleasedAtEnd
<1>1. FramesInv /\ HeldInv => ReleasedAtEnd
  <2> SUFFICES ASSUME FramesInv, HeldInv, OthersReleased, WorkerDone
               PROVE  /\ held \subseteq {"pre_fd"} /\ fdOwner # "self"
                      /\ "pre_fd" \in held => kind = "tunnel" /\ wpc = "exited"
    BY DEF ReleasedAtEnd
  <2>1. wpc \in {None, "exited"} /\ cpc \in {"destroy", "done"} /\ tpc \in {None, "destroy", "gone"}
    BY DEF WorkerDone, OthersReleased
  <2>2. fdOwner # "self"
    BY <2>1 DEF HeldInv, SocketClosed
  <2>3. CASE kind \in {None, "ssh", "vnc", "rdp", "http"}
    <3>1. kind = None \/ wpc = "exited"
      BY <2>1, <2>3 DEF HeldInv, OwnStages, SshStages, SshNext, VncStages, RdpStages,
         HttpStages, None
    <3> QED BY <2>2, <2>3, <3>1 DEF HeldInv, HeldBySession
  <2>4. CASE kind = "web"
    <3>1. wpc = "exited"
      BY <2>1, <2>4 DEF HeldInv, OwnStages, WebStages, None
    <3> QED BY <2>1, <2>2, <2>4, <3>1 DEF HeldInv, HeldByWeb
  <2>5. CASE kind = "tunnel"
    BY <2>1, <2>2, <2>5 DEF HeldInv, HeldByTunnel, None
  <2> QED BY <2>3, <2>4, <2>5 DEF HeldInv, OwnStages, FirstStage
<1> QED BY HeldInvariant, <1>1, PTL
(***************************************************************************)
(* What the browser sees.  While it is there and the session active, what  *)
(* it shows is the worker's stream up to the callbacks still to be made.   *)
(***************************************************************************)

(* A worker that has returned has made its callbacks; a callback in        *)
(* progress has its instruction still in todo.                             *)
CallbacksFirst ==
  /\ wpc \in {None, "exited"} => todo = <<>>
  /\ cb # "no" => todo # <<>>
  /\ cb \in {"no", "send", "skip"} /\ (cb = "skip" => ~active)

ViewIsRecord == DOMAIN view = {"sized", "open", "last", "canvas"}

(* What the callback that runs now, or the next one, sends is seen.        *)
Watching == (active \/ cb = "send") /\ here /\ fdOwner = "self"

NothingShown == view.sized = FALSE /\ view.open = 0 /\ view.last = 0

(* The terminal: one size, one stream, its blobs, its end.                 *)
SshShows ==
  \/ todo = <<>> /\ wpc \in DOMAIN SshNext /\ view.open = 0 /\ view.last = 0
  \/ todo = <<SizeInstr, Instr("pipe", 1, <<>>)>> /\ wpc = "io" /\ view.open = 0 /\ view.last = 0
  \/ /\ todo = <<Instr("pipe", 1, <<>>)>> /\ wpc = "io"
     /\ view.sized = TRUE /\ view.open = 0 /\ view.last = 0
  \/ todo = <<>> /\ wpc \in {"io", "read", "write", "io_end"} /\ view.open = 1
  \/ todo = <<Instr("blob", 1, <<>>)>> /\ wpc = "write" /\ view.open = 1
  \/ todo = <<Instr("end", 1, <<>>)>> /\ wpc = "teardown" /\ view.open = 1
  \/ todo = <<>> /\ wpc \in {"teardown", "exited"}

(* Pictures: each is the latest stream, and the browser has a canvas where *)
(* the worker may send one.  A web client that could not load the page has *)
(* announced no size, but it will not get a screenshot either.             *)
MaySendPicture ==
  \/ wpc \in {"rfb_loop", "rdp_loop"}
  \/ wpc \in {"stream", "drain", "ack", "shot"} /\ ~stop /\ ws = "self"
Latest == Picture(nextId - 1, Head(todo).pic)
PictureShows ==
  \/ todo = <<>> /\ view.open = 0 /\ view.last < nextId /\ (MaySendPicture => view.sized = TRUE)
  \/ todo = <<SizeInstr>> /\ view.open = 0 /\ view.last < nextId
  \/ /\ todo # <<>> /\ todo = Latest
     /\ view.sized = TRUE /\ view.open = 0 /\ view.last < nextId - 1
  \/ /\ todo # <<>> /\ todo \in {Tail(Latest), Tail(Tail(Latest))}
     /\ view.sized = TRUE /\ view.open = nextId - 1 /\ view.last = nextId - 1 /\ nextId > 1

(* One response or error, which is no picture.                             *)
ResponseShows ==
  \/ todo = <<>>
  \/ \E op \in {"error", "response"} : todo = <<Instr(op, 0, <<>>)>>

ShowsInv ==
  /\ CallbacksFirst /\ ViewIsRecord /\ nextId \in Nat \ {0} /\ view.last \in Nat
  /\ kind = None => NothingShown /\ nextId = 1
  /\ kind \in {"http", "tunnel"} => ResponseShows
  /\ kind = "ssh" /\ Watching => SshShows
  /\ kind \in {"vnc", "rdp", "web"} /\ Watching => PictureShows
----------------------------------------------------------------------------
(* What each instruction changes of the view.                              *)
LEMMA ApplyShows ==
  ASSUME NEW i, ViewIsRecord, view' = Apply(view, i)
  PROVE  /\ ViewIsRecord'
         /\ i.op = "size" => view'.sized = TRUE /\ view'.open = view.open /\ view'.last = view.last
         /\ i.op \in {"img", "pipe"} =>
              view'.sized = view.sized /\ view'.open = i.id /\ view'.last = i.id
         /\ i.op = "blob" /\ i.id = view.open => view' = view
         /\ i.op = "end" /\ i.id = view.open =>
              view'.sized = view.sized /\ view'.open = 0 /\ view'.last = view.last
         /\ i.op \in {"error", "response"} => view' = view
<1> USE DEF ViewIsRecord
<1>1. CASE i.op \in {"size", "img", "pipe"}
  BY <1>1 DEF Apply
<1>2. CASE i.op = "blob"
  BY <1>2 DEF Apply
<1>3. CASE i.op = "end"
  BY <1>3 DEF Apply
<1>4. CASE i.op \notin {"size", "img", "pipe", "blob", "end"}
  BY <1>4 DEF Apply
<1> QED BY <1>1, <1>2, <1>3, <1>4

(* An error frame shows nothing.                                           *)
LEMMA ErrorsAreInvisible ==
  ASSUME ViewIsRecord, SendWsFrame(ErrorInstr)
  PROVE  view' = view
<1>1. ErrorInstr.op = "error"
  BY DEF ErrorInstr, Instr
<1>2. CASE view' = Apply(view, ErrorInstr)
  BY <1>1, <1>2, ApplyShows
<1> QED BY <1>2 DEF SendWsFrame

(* A frame makes one step of the display stream.                           *)
Displays ==
  \/ view' = view
  \/ /\ view.open = 0 /\ view'.sized = TRUE
     /\ view'.open = view.open /\ view'.last = view.last
  \/ /\ view.sized = TRUE /\ view'.sized = TRUE /\ view.open = 0
     /\ view'.open > view.last /\ view'.last = view'.open
  \/ /\ view.open # 0 /\ view'.open = 0
     /\ view'.sized = view.sized /\ view'.last = view.last

(* What is left of a stream of instructions.                               *)
LEMMA PictureTails ==
  ASSUME NEW id, NEW pic, NEW p, p = Picture(id, pic)
  PROVE  /\ p # <<>> /\ Head(p) = Instr("img", id, pic)
         /\ Tail(p) # <<>> /\ Head(Tail(p)) = Instr("blob", id, pic)
         /\ Tail(Tail(p)) # <<>> /\ Head(Tail(Tail(p))) = Instr("end", id, pic)
         /\ Tail(Tail(Tail(p))) = <<>>
<1> DEFINE q == <<Instr("blob", id, pic), Instr("end", id, pic)>>
           r == <<Instr("end", id, pic)>>
<1>1. p # <<>> /\ Head(p) = Instr("img", id, pic) /\ Tail(p) = q
  BY DEF Picture
<1>2. q # <<>> /\ Head(q) = Instr("blob", id, pic) /\ Tail(q) = r
  OBVIOUS
<1>3. r # <<>> /\ Head(r) = Instr("end", id, pic) /\ Tail(r) = <<>>
  OBVIOUS
<1> HIDE DEF q, r
<1> QED BY <1>1, <1>2, <1>3

(* A frame the browser sees, of a terminal.                                *)
LEMMA TerminalIsSeen ==
  ASSUME ViewIsRecord, SshShows, todo # <<>>, view' = Apply(view, Head(todo)),
         todo' = Tail(todo), wpc' = wpc
  PROVE  ViewIsRecord' /\ view'.last \in {view.last, 1} /\ SshShows' /\ Displays
<1> DEFINE i == Head(todo)
<1>0. view' = Apply(view, i)
  OBVIOUS
<1>1. CASE /\ todo = <<SizeInstr, Instr("pipe", 1, <<>>)>> /\ wpc = "io"
           /\ view.open = 0 /\ view.last = 0
  <2>1. i.op = "size" /\ todo' = <<Instr("pipe", 1, <<>>)>>
    BY <1>1 DEF SizeInstr, Instr
  <2>2. /\ ViewIsRecord' /\ view'.sized = TRUE
        /\ view'.open = view.open /\ view'.last = view.last
    <3> HIDE DEF i
    <3> QED BY <2>1, <1>0, ApplyShows
  <2> QED BY <1>1, <2>1, <2>2 DEF SshShows, Displays
<1>2. CASE /\ todo = <<Instr("pipe", 1, <<>>)>> /\ wpc = "io" /\ view.sized = TRUE
           /\ view.open = 0 /\ view.last = 0
  <2>1. i.op = "pipe" /\ i.id = 1 /\ todo' = <<>>
    BY <1>2 DEF Instr
  <2>2. /\ ViewIsRecord' /\ view'.sized = view.sized
        /\ view'.open = 1 /\ view'.last = 1
    <3> HIDE DEF i
    <3> QED BY <2>1, <1>0, ApplyShows
  <2> QED BY <1>2, <2>1, <2>2 DEF SshShows, Displays
<1>3. CASE todo = <<Instr("blob", 1, <<>>)>> /\ wpc = "write" /\ view.open = 1
  <2>1. i.op = "blob" /\ i.id = 1 /\ todo' = <<>>
    BY <1>3 DEF Instr
  <2>2. view' = view
    <3> HIDE DEF i
    <3> QED BY <1>3, <2>1, <1>0, ApplyShows
  <2> QED BY <1>3, <2>1, <2>2 DEF ViewIsRecord, SshShows, Displays
<1>4. CASE todo = <<Instr("end", 1, <<>>)>> /\ wpc = "teardown" /\ view.open = 1
  <2>1. i.op = "end" /\ i.id = 1 /\ todo' = <<>>
    BY <1>4 DEF Instr
  <2>2. /\ ViewIsRecord' /\ view'.sized = view.sized
        /\ view'.open = 0 /\ view'.last = view.last
    <3> HIDE DEF i
    <3> QED BY <1>4, <2>1, <1>0, ApplyShows
  <2> QED BY <1>4, <2>1, <2>2 DEF SshShows, Displays
<1> QED BY <1>1, <1>2, <1>3, <1>4 DEF SshShows

(* ... and of a picture.                                                   *)
LEMMA PictureIsSeen ==
  ASSUME ViewIsRecord, PictureShows, nextId \in Nat \ {0}, view.last \in Nat, todo # <<>>,
         view' = Apply(view, Head(todo)), todo' = Tail(todo), UNCHANGED <<wpc, nextId, stop, ws>>
  PROVE  ViewIsRecord' /\ view'.last \in Nat /\ PictureShows' /\ Displays
<1> DEFINE i == Head(todo)
           n == nextId - 1
           pic == Head(todo).pic
<1>0. n \in Nat /\ n < nextId /\ view' = Apply(view, i)
  OBVIOUS
<1>1. CASE todo = <<SizeInstr>> /\ view.open = 0 /\ view.last < nextId
  <2>1. i.op = "size" /\ todo' = <<>>
    BY <1>1 DEF SizeInstr, Instr
  <2>2. /\ ViewIsRecord' /\ view'.sized = TRUE
        /\ view'.open = view.open /\ view'.last = view.last
    <3> HIDE DEF i
    <3> QED BY <2>1, <1>0, ApplyShows
  <2> QED BY <1>1, <2>1, <2>2 DEF PictureShows, Displays
<1> DEFINE p == Picture(n, pic)
<1>2. /\ p # <<>> /\ Head(p) = Instr("img", n, pic)
      /\ Tail(p) # <<>> /\ Head(Tail(p)) = Instr("blob", n, pic)
      /\ Tail(Tail(p)) # <<>> /\ Head(Tail(Tail(p))) = Instr("end", n, pic)
      /\ Tail(Tail(Tail(p))) = <<>>
  <2> HIDE DEF pic, n, p
  <2>1. p = Picture(n, pic)
    BY DEF p
  <2> QED BY <2>1, PictureTails
<1>3. Latest = p /\ (todo' # <<>> /\ Head(todo').pic = pic => Latest' = p)
  BY DEF Latest
<1>4. CASE todo = p /\ view.sized = TRUE /\ view.open = 0 /\ view.last < n
  <2> HIDE DEF pic, n, p
  <2>1. i.op = "img" /\ i.id = n /\ todo' = Tail(p) /\ todo' # <<>> /\ Head(todo').pic = pic
    BY <1>2, <1>4 DEF Instr
  <2>2. /\ ViewIsRecord' /\ view'.sized = view.sized /\ view'.open = n /\ view'.last = n
    <3> HIDE DEF i
    <3> QED BY <1>0, <2>1, ApplyShows
  <2>3. PictureShows'
    <3>1. todo' = Tail(Latest)' /\ nextId' - 1 = n
      BY <1>3, <2>1 DEF n
    <3>2. view'.open = nextId' - 1 /\ view'.last = nextId' - 1 /\ nextId' > 1 /\ view'.sized = TRUE
      BY <1>0, <1>4, <2>2, <3>1
    <3> QED BY <2>1, <3>1, <3>2 DEF PictureShows
  <2> QED BY <1>0, <1>4, <2>2, <2>3 DEF Displays
<1>5. CASE todo = Tail(p) /\ view.sized = TRUE /\ view.open = n /\ view.last = n /\ nextId > 1
  <2> HIDE DEF pic, n, p
  <2>1. /\ i.op = "blob" /\ i.id = n
        /\ todo' = Tail(Tail(p)) /\ todo' # <<>> /\ Head(todo').pic = pic
    <3>1. i = Instr("blob", n, pic) /\ todo' = Tail(Tail(p))
      BY <1>2, <1>5
    <3>2. Head(todo') = Instr("end", n, pic) /\ todo' # <<>>
      BY <1>2, <3>1
    <3> HIDE DEF i
    <3> QED BY <3>1, <3>2 DEF Instr
  <2>2. view' = view
    <3> HIDE DEF i
    <3> QED BY <1>0, <1>5, <2>1, ApplyShows
  <2>3. PictureShows'
    <3>1. todo' = Tail(Tail(Latest))' /\ nextId' - 1 = n
      BY <1>3, <2>1 DEF n
    <3> QED BY <1>5, <2>1, <2>2, <3>1 DEF PictureShows
  <2> QED BY <2>2, <2>3 DEF ViewIsRecord, Displays
<1>6. CASE todo = Tail(Tail(p)) /\ view.sized = TRUE /\ view.open = n /\ view.last = n /\ nextId > 1
  <2> HIDE DEF pic, p
  <2>1. i.op = "end" /\ i.id = n /\ todo' = <<>>
    <3> HIDE DEF n
    <3>1. i = Instr("end", n, pic) /\ todo' = <<>>
      BY <1>2, <1>6
    <3> HIDE DEF i
    <3> QED BY <3>1 DEF Instr
  <2>2. ViewIsRecord' /\ view'.sized = view.sized /\ view'.open = 0 /\ view'.last = view.last
    <3> HIDE DEF i, n
    <3> QED BY <1>0, <1>6, <2>1, ApplyShows
  <2>3. PictureShows'
    BY <1>0, <1>6, <2>1, <2>2 DEF PictureShows
  <2> QED BY <1>6, <2>2, <2>3 DEF Displays
<1> QED
  <2> HIDE DEF p
  <2> QED BY <1>1, <1>3, <1>4, <1>5, <1>6 DEF PictureShows

(* A worker step, with no callback pending: only todo changes what is due. *)
LEMMA QuietWorker ==
  ASSUME ShowsInv, todo = <<>>, UNCHANGED <<connVars, gatewayVars>>,
         wpc' # None, wpc' = "exited" => todo' = <<>>
  PROVE  /\ CallbacksFirst' /\ ViewIsRecord' /\ view'.last \in Nat /\ Watching' = Watching
         /\ UNCHANGED view
BY DEF ShowsInv, CallbacksFirst, ViewIsRecord, Watching, connVars, gatewayVars

(* The SSH client.                                                         *)
LEMMA SshKeepsShows ==
  ASSUME HeldInv, ShowsInv, SshStep, UNCHANGED <<connVars, gatewayVars>>
  PROVE  ShowsInv'
<1> DEFINE Quiet ==
      /\ todo = <<>> /\ wpc \in SshStages /\ wpc' # None /\ UNCHANGED <<kind, nextId>>
      /\ wpc' = "exited" => todo' = <<>>
    Due ==
      \/ todo' = <<>> /\ wpc \in DOMAIN SshNext /\ wpc' \in DOMAIN SshNext
      \/ /\ todo' = <<SizeInstr, Instr("pipe", 1, <<>>)>>
         /\ wpc \in DOMAIN SshNext /\ wpc' = "io"
      \/ /\ wpc \in {"io", "read", "write"} /\ wpc' \in {"io", "read", "write", "io_end"}
         /\ todo' = <<>>
      \/ wpc = "read" /\ wpc' = "write" /\ todo' = <<Instr("blob", 1, <<>>)>>
      \/ wpc = "io_end" /\ todo' = <<Instr("end", 1, <<>>)>> /\ wpc' = "teardown"
      \/ wpc' = "exited" /\ todo' = <<>>
<1>1. Quiet /\ Due
  <2> USE DEF Goto, SshStages, SshNext, pictureVars, None, Calls, NoCalls
  <2>1. ASSUME NEW stage \in DOMAIN SshNext, SshSetUp(stage) PROVE Quiet /\ Due
    BY <2>1 DEF SshSetUp
  <2>2. ASSUME NEW stage \in DOMAIN SshNext, SshSetUpFails(stage) PROVE Quiet /\ Due
    BY <2>2 DEF SshSetUpFails
  <2>3. CASE SshLoop \/ SshWriteDone \/ SshWrite \/ SshWriteAgain \/ SshWriteFails
    BY <2>3 DEF SshLoop, SshWriteDone, SshWrite, SshWriteAgain, SshWriteFails
  <2>4. CASE SshRead \/ SshEnd \/ SshTeardown
    BY <2>4 DEF SshRead, SshEnd, SshTeardown
  <2> QED BY <2>1, <2>2, <2>3, <2>4 DEF SshStep
<1>2. kind = "ssh"
  BY <1>1, StageTellsKind DEF HeldInv
<1>3. /\ CallbacksFirst' /\ ViewIsRecord' /\ view'.last \in Nat /\ Watching' = Watching
      /\ UNCHANGED view
  BY <1>1, QuietWorker
<1>4. SshShows /\ UNCHANGED view => SshShows'
  <2>1. todo = <<>>
    BY <1>1
  <2> HIDE DEF Quiet
  <2> QED BY <1>1, <2>1 DEF SshShows, SshNext
<1> HIDE DEF Quiet, Due
<1>5. nextId' = nextId /\ kind' = kind
  BY <1>1 DEF Quiet
<1> QED BY <1>2, <1>3, <1>4, <1>5 DEF ShowsInv, None

(* What a client that sends pictures leaves to its callbacks.              *)
PictureDue ==
  \/ todo' = <<>> /\ nextId' \in {nextId, nextId + 1} /\ (MaySendPicture' => MaySendPicture)
  \/ todo' = <<SizeInstr>> /\ nextId' = nextId
  \/ MaySendPicture /\ nextId' = nextId + 1 /\ \E pic : todo' = Picture(nextId, pic)

(* ... agrees with what the browser shows.                                 *)
LEMMA PictureIsDue ==
  ASSUME ShowsInv, PictureShows, PictureDue, todo = <<>>, view' = view
  PROVE  PictureShows' /\ nextId' \in Nat \ {0}
<1>1. nextId \in Nat \ {0} /\ view.open = 0 /\ view.last < nextId /\ view.last \in Nat
      /\ (MaySendPicture => view.sized = TRUE)
  BY DEF ShowsInv, PictureShows
<1>2. CASE todo' = <<>> /\ nextId' \in {nextId, nextId + 1} /\ (MaySendPicture' => MaySendPicture)
  BY <1>1, <1>2 DEF PictureShows
<1>3. CASE todo' = <<SizeInstr>> /\ nextId' = nextId
  BY <1>1, <1>3 DEF PictureShows
<1>4. CASE MaySendPicture /\ nextId' = nextId + 1 /\ \E pic : todo' = Picture(nextId, pic)
  <2>1. PICK pic : todo' = Picture(nextId, pic)
    BY <1>4
  <2>2. todo' # <<>> /\ Head(todo').pic = pic
    BY <2>1, PictureTails DEF Instr
  <2>3. todo' = Latest'
    <3>1. nextId' - 1 = nextId
      BY <1>1, <1>4
    <3> QED BY <2>1, <2>2, <3>1 DEF Latest
  <2>4. view'.sized = TRUE /\ view'.open = 0 /\ view'.last < nextId' - 1
    BY <1>1, <1>4
  <2> QED BY <1>1, <1>4, <2>2, <2>3, <2>4 DEF PictureShows
<1> QED BY <1>2, <1>3, <1>4 DEF PictureDue

(* The VNC client.                                                         *)
LEMMA VncKeepsShows ==
  ASSUME HeldInv, ShowsInv, VncStep, UNCHANGED <<connVars, gatewayVars>>
  PROVE  ShowsInv'
<1> DEFINE Quiet ==
      /\ todo = <<>> /\ wpc \in VncStages /\ wpc' # None /\ kind' = kind
      /\ wpc' = "exited" => todo' = <<>>
<1>1. Quiet /\ PictureDue
  <2> USE DEF Goto, VncStages, pictureVars, webVars, None, Calls, NoCalls, PictureDue,
              MaySendPicture
  <2>1. CASE VncNew \/ VncConnect \/ VncConnectFails \/ VncEnd \/ VncCleanUp
    BY <2>1 DEF VncNew, VncConnect, VncConnectFails, VncEnd, VncCleanUp
  <2>2. CASE VncMessage
    BY <2>2 DEF VncMessage
  <2> QED BY <2>1, <2>2 DEF VncStep
<1>2. kind = "vnc"
  BY <1>1, StageTellsKind DEF HeldInv
<1>3. /\ CallbacksFirst' /\ ViewIsRecord' /\ view'.last \in Nat /\ Watching' = Watching
      /\ UNCHANGED view
  BY <1>1, QuietWorker
<1>4. PictureDue /\ nextId \in Nat \ {0} => nextId' \in Nat \ {0}
  BY DEF PictureDue
<1> QED BY <1>1, <1>2, <1>3, <1>4, PictureIsDue DEF ShowsInv, None

(* The RDP client.                                                         *)
LEMMA RdpKeepsShows ==
  ASSUME HeldInv, ShowsInv, RdpStep, UNCHANGED <<connVars, gatewayVars>>
  PROVE  ShowsInv'
<1> DEFINE Quiet ==
      /\ todo = <<>> /\ wpc \in RdpStages /\ wpc' # None /\ kind' = kind
      /\ wpc' = "exited" => todo' = <<>>
<1>1. Quiet /\ PictureDue
  <2> USE DEF Goto, RdpStages, pictureVars, webVars, None, Calls, PictureDue, MaySendPicture
  <2>1. CASE RdpNew \/ RdpContext \/ RdpConnect \/ RdpLoopEnds
    BY <2>1 DEF RdpNew, RdpContext, RdpConnect, RdpLoopEnds, rdpVars
  <2>2. CASE RdpEnd \/ RdpFree \/ RdpNull
    BY <2>2 DEF RdpEnd, RdpFree, RdpNull
  <2>3. CASE RdpPaint
    BY <2>3 DEF RdpPaint
  <2> QED BY <2>1, <2>2, <2>3 DEF RdpStep
<1>2. kind = "rdp"
  BY <1>1, StageTellsKind DEF HeldInv
<1>3. /\ CallbacksFirst' /\ ViewIsRecord' /\ view'.last \in Nat /\ Watching' = Watching
      /\ UNCHANGED view
  BY <1>1, QuietWorker
<1>4. PictureDue /\ nextId \in Nat \ {0} => nextId' \in Nat \ {0}
  BY DEF PictureDue
<1> QED BY <1>1, <1>2, <1>3, <1>4, PictureIsDue DEF ShowsInv, None

(* The web client: no screenshot without an answer, and none is answered   *)
(* after a page that did not load.                                         *)
LEMMA WebKeepsShows ==
  ASSUME HeldInv, ShowsInv, WebStep, UNCHANGED <<connVars, gatewayVars>>
  PROVE  ShowsInv'
<1> DEFINE Quiet ==
      /\ todo = <<>> /\ wpc \in WebStages /\ wpc' # None /\ kind' = kind
      /\ wpc' = "exited" => todo' = <<>>
<1>1. Quiet /\ PictureDue
  <2> USE DEF Goto, WebStages, pictureVars, webVars, None, Calls, PictureDue, MaySendPicture
  <2>1. CASE WebFork \/ WebUrl \/ WebGivesUp \/ WebConnect
    BY <2>1 DEF WebFork, WebUrl, WebGivesUp, WebConnect
  <2>2. CASE WebEnable \/ WebEnableStopped \/ WebLoaded \/ WebNotLoaded \/ WebClose
    BY <2>2 DEF WebEnable, WebEnableStopped, WebLoaded, WebNotLoaded, WebClose, Answered, RecvFails,
       CloseWs
  <2>3. CASE WebStream \/ WebSend \/ WebAck \/ WebCapture \/ WebNoShot
    BY <2>3 DEF WebStream, WebSend, WebAck, WebCapture, WebNoShot, Answered, RecvFails
  <2>4. ASSUME NEW new \in Screens, NEW codec \in Codecs, WebShot(new, codec)
        PROVE  Quiet /\ PictureDue
    <3>1. /\ Quiet /\ MaySendPicture /\ nextId' = nextId + 1
          /\ UNCHANGED <<stop, ws>>
      BY <2>4 DEF WebShot, Answered
    <3>2. todo' = <<>> \/ \E pic : todo' = Picture(nextId, pic)
      BY <2>4 DEF WebShot, FlushDelta, NoCalls, Codecs
    <3> QED BY <3>1, <3>2
  <2> QED BY <2>1, <2>2, <2>3, <2>4 DEF WebStep
<1>2. kind = "web"
  BY <1>1, StageTellsKind DEF HeldInv
<1>3. /\ CallbacksFirst' /\ ViewIsRecord' /\ view'.last \in Nat /\ Watching' = Watching
      /\ UNCHANGED view
  BY <1>1, QuietWorker
<1>4. PictureDue /\ nextId \in Nat \ {0} => nextId' \in Nat \ {0}
  BY DEF PictureDue
<1> QED BY <1>1, <1>2, <1>3, <1>4, PictureIsDue DEF ShowsInv, None

(* The HTTP client.                                                        *)
LEMMA HttpKeepsShows ==
  ASSUME HeldInv, ShowsInv, HttpStep, UNCHANGED <<connVars, gatewayVars>>
  PROVE  ShowsInv'
<1> DEFINE Quiet ==
      /\ todo = <<>> /\ wpc \in HttpStages /\ wpc' # None /\ UNCHANGED <<kind, nextId>>
      /\ wpc' = "exited" => todo' = <<>>
<1>1. Quiet /\ ResponseShows'
  <2> USE DEF Goto, HttpStages, pictureVars, None, Calls, ResponseShows
  <2>1. CASE HttpInit \/ HttpInitFails \/ HttpGivesUp \/ HttpCleanUp
    BY <2>1 DEF HttpInit, HttpInitFails, HttpGivesUp, HttpCleanUp
  <2>2. ASSUME NEW ok \in BOOLEAN, NEW taken \in BOOLEAN, HttpPerform(ok, taken)
        PROVE  Quiet /\ ResponseShows'
    BY <2>2 DEF HttpPerform
  <2> QED BY <2>1, <2>2 DEF HttpStep
<1>2. kind \in {"http", "tunnel"}
  BY <1>1, StageTellsKind DEF HeldInv
<1>3. /\ CallbacksFirst' /\ ViewIsRecord' /\ view'.last \in Nat /\ Watching' = Watching
      /\ UNCHANGED view
  BY <1>1, QuietWorker
<1> QED BY <1>1, <1>2, <1>3 DEF ShowsInv, None

(* A response or an error is not seen.                                     *)
LEMMA ResponseIsSeen ==
  ASSUME ViewIsRecord, ResponseShows, todo # <<>>, todo' = Tail(todo),
         view' = view \/ view' = Apply(view, Head(todo))
  PROVE  view' = view /\ ResponseShows'
<1> DEFINE i == Head(todo)
<1>1. PICK op \in {"error", "response"} : todo = <<Instr(op, 0, <<>>)>>
  BY DEF ResponseShows
<1>2. i.op \in {"error", "response"} /\ todo' = <<>>
  BY <1>1 DEF Instr
<1>3. view' = view
  <2>1. CASE view' = Apply(view, i)
    <3> HIDE DEF i
    <3> QED BY <1>2, <2>1, ApplyShows
  <2> QED BY <2>1
<1> QED BY <1>2, <1>3 DEF ResponseShows

(* The session of a connection without a tunnel is released after the last *)
(* callback.                                                               *)
LEMMA ReleasedAfterCallbacks ==
  ASSUME FramesInv, todo # <<>>, OthersReleased
  PROVE  kind = "tunnel"
BY DEF FramesInv, JoinedBeforeClose, OthersReleased, WorkerDone, WorkerIdle

(* A callback sends the next instruction of the stream, or drops it.       *)
LEMMA CallbackKeepsShows ==
  ASSUME FramesInv, HeldInv, ShowsInv, Callback
  PROVE  ShowsInv' /\ Displays /\ (kind \in {None, "http", "tunnel"} => view' = view)
<1>1. CASE CallbackEnter
  <2>1. /\ cb = "no" /\ todo # <<>>
        /\ UNCHANGED <<kind, wpc, nextId, view, stop, ws, active, here, fdOwner>>
        /\ \/ OthersReleased /\ todo' = Tail(todo) /\ cb' = "no"
           \/ todo' = todo /\ cb' = IF active THEN "send" ELSE "skip"
    BY <1>1 DEF CallbackEnter, pictureVars, webVars, connVars
  <2>2. CASE OthersReleased /\ todo' = Tail(todo) /\ cb' = "no"
    <3>1. kind = "tunnel"
      BY <2>1, <2>2, ReleasedAfterCallbacks
    <3>2. ResponseShows' /\ wpc \notin {None, "exited"} /\ view' = view
      BY <2>1, <2>2, <3>1, ResponseIsSeen DEF ShowsInv, CallbacksFirst
    <3> QED BY <2>1, <2>2, <3>1, <3>2 DEF ShowsInv, CallbacksFirst, ViewIsRecord, Displays, None
  <2>3. CASE todo' = todo /\ cb' = IF active THEN "send" ELSE "skip"
    <3>1. /\ SshShows' = SshShows /\ PictureShows' = PictureShows /\ ResponseShows' = ResponseShows
          /\ Watching' = Watching
      BY <2>1, <2>3 DEF SshShows, PictureShows, ResponseShows, Latest, MaySendPicture, Watching
    <3> QED BY <2>1, <2>3, <3>1 DEF ShowsInv, CallbacksFirst, ViewIsRecord, NothingShown, Displays
  <2> QED BY <2>1, <2>2, <2>3
<1>2. CASE CallbackReturn
  <2>1. /\ cb # "no" /\ todo # <<>> /\ cb' = "no" /\ todo' = Tail(todo)
        /\ UNCHANGED <<kind, wpc, nextId, stop, ws, active, here, fdOwner>>
    BY <1>2 DEF CallbackReturn, pictureVars, webVars, connVars, ShowsInv, CallbacksFirst
  <2>2. CallbacksFirst' /\ wpc \notin {None, "exited"}
    BY <2>1 DEF ShowsInv, CallbacksFirst
  <2>3. kind # None
    BY <2>2 DEF HeldInv, OwnStages
  <2>4. \/ view' = view /\ (kind # "tunnel" => ~Watching')
        \/ view' = Apply(view, Head(todo)) /\ Watching
    <3>1. CASE OthersReleased
      BY <1>2, <2>1, <3>1, ReleasedAfterCallbacks DEF CallbackReturn
    <3>2. CASE ~OthersReleased /\ cb = "send"
      BY <1>2, <2>1, <3>2 DEF CallbackReturn, SendWsFrame, Watching
    <3>3. CASE ~OthersReleased /\ cb # "send"
      BY <1>2, <2>1, <3>3 DEF CallbackReturn, Watching, ShowsInv, CallbacksFirst
    <3> QED BY <3>1, <3>2, <3>3
  <2>5. CASE kind \in {"http", "tunnel"}
    <3>1. view' = view /\ ResponseShows'
      BY <2>1, <2>4, <2>5, ResponseIsSeen DEF ShowsInv
    <3> QED BY <2>1, <2>2, <2>5, <3>1 DEF ShowsInv, ViewIsRecord, Displays, None
  <2>6. CASE kind \notin {"http", "tunnel"} /\ view' = view /\ ~Watching'
    BY <2>1, <2>2, <2>3, <2>6 DEF ShowsInv, ViewIsRecord, Displays
  <2>7. CASE kind = "ssh" /\ view' = Apply(view, Head(todo)) /\ Watching
    <3>1. ViewIsRecord' /\ view'.last \in {view.last, 1} /\ SshShows' /\ Displays
      BY <2>1, <2>7, TerminalIsSeen DEF ShowsInv
    <3> QED BY <2>1, <2>2, <2>7, <3>1 DEF ShowsInv, None
  <2>8. CASE kind \in {"vnc", "rdp", "web"} /\ view' = Apply(view, Head(todo)) /\ Watching
    <3>1. ViewIsRecord' /\ view'.last \in Nat /\ PictureShows' /\ Displays
      BY <2>1, <2>8, PictureIsSeen DEF ShowsInv
    <3> QED BY <2>1, <2>2, <2>8, <3>1 DEF ShowsInv, None
  <2>9. kind \in {"ssh", "vnc", "rdp", "web", "http", "tunnel"}
    BY <2>3 DEF HeldInv, OwnStages, FirstStage
  <2> QED BY <2>4, <2>5, <2>6, <2>7, <2>8, <2>9
<1> QED BY <1>1, <1>2 DEF Callback

(* Steps that neither send nor queue an instruction.                       *)
LEMMA SilentKeepsShows ==
  ASSUME ShowsInv, UNCHANGED <<kind, wpc, todo, nextId, view, cb>>,
         Watching' => Watching \/ kind = None, MaySendPicture' => MaySendPicture,
         active' = active \/ ~active'
  PROVE  ShowsInv'
<1>1. CallbacksFirst' /\ ViewIsRecord' /\ NothingShown' = NothingShown
  BY DEF ShowsInv, CallbacksFirst, ViewIsRecord, NothingShown
<1>2. /\ SshShows => SshShows'
      /\ PictureShows => PictureShows'
      /\ ResponseShows => ResponseShows'
  BY DEF SshShows, PictureShows, ResponseShows, Latest
<1> QED BY <1>1, <1>2 DEF ShowsInv, None

(* The browser, and the sockets given a closed number.                     *)
LEMMA WorldKeepsShows ==
  ASSUME ShowsInv, Environment
  PROVE  ShowsInv' /\ view' = view
<1>1. /\ UNCHANGED <<kind, wpc, todo, nextId, view, cb, active, stop>>
      /\ here' = here \/ ~here'
      /\ fdOwner' = fdOwner \/ fdOwner' = "other"
      /\ ws' = ws \/ ws' = "other"
  BY DEF Environment, BrowserLeaves, ReuseFd, ReuseWs, clientVars, pictureVars, webVars, connVars,
     gatewayVars
<1>2. (Watching' => Watching) /\ (MaySendPicture' => MaySendPicture)
  BY <1>1 DEF Watching, MaySendPicture
<1> QED BY <1>1, <1>2, SilentKeepsShows

(* connect(): a fresh worker, and nothing shown so far.                    *)
LEMMA DispatchKeepsShows ==
  ASSUME FramesInv, HeldInv, ShowsInv, NEW k \in DOMAIN FirstStage, cpc = "first", Dispatch(k)
  PROVE  ShowsInv' /\ view' = view
<1>1. kind = None /\ wpc = None /\ todo = <<>> /\ cb = "no" /\ NothingShown /\ nextId = 1
  BY DEF FramesInv, NoClientYet, WorkerIdle, ShowsInv
<1>2. /\ kind' = k /\ todo' = <<>> /\ cb' = "no" /\ view' = view /\ nextId' = 1
      /\ IF k = "tunnel" THEN wpc' = None ELSE wpc' = FirstStage[k]
  BY <1>1 DEF Dispatch, StartWorker, pictureVars
<1>3. CallbacksFirst' /\ ViewIsRecord' /\ ResponseShows' /\ view'.last = 0
  BY <1>1, <1>2 DEF ShowsInv, CallbacksFirst, ViewIsRecord, ResponseShows, NothingShown
<1>4. k = "ssh" => SshShows'
  BY <1>1, <1>2 DEF SshShows, FirstStage, SshNext, NothingShown
<1>5. k \in {"vnc", "rdp", "web"} => PictureShows'
  BY <1>1, <1>2 DEF PictureShows, FirstStage, MaySendPicture, NothingShown
<1> QED BY <1>2, <1>3, <1>4, <1>5 DEF ShowsInv, FirstStage, None

(* handle_connection up to the input loop; its error frames show nothing.  *)
LEMMA ConnectingKeepsShows ==
  ASSUME FramesInv, HeldInv, ShowsInv, Start \/ Stop \/ Accept \/ Connecting
  PROVE  ShowsInv' /\ view' = view
<1> DEFINE Same == UNCHANGED <<kind, wpc, todo, nextId, view, cb, stop, ws, here>>
<1>1. ASSUME Same, active' = active \/ ~active', fdOwner' = fdOwner \/ kind = None
      PROVE  ShowsInv' /\ view' = view
  <2>1. (Watching' => Watching \/ kind = None) /\ (MaySendPicture' => MaySendPicture)
    BY <1>1 DEF Watching, MaySendPicture
  <2> QED BY <1>1, <2>1, SilentKeepsShows
<1> USE DEF clientVars, pictureVars, webVars, connVars, gatewayVars
<1>2. CASE Start \/ Stop \/ Accept \/ Handshake \/ ReadFirstFails
  <2>1. /\ Same /\ active' = active
        /\ fdOwner' = fdOwner \/ cpc = None
    BY <1>2 DEF Start, Stop, Accept, Handshake, ReadFirstFails
  <2>2. cpc = None => kind = None
    BY DEF FramesInv, NoClientYet
  <2> QED BY <2>1, <2>2, <1>1
<1>3. ASSUME NEW f \in FirstFrames, ReadFirst(f) PROVE ShowsInv' /\ view' = view
  <2> DEFINE k == ClientFor(Head(Feed(ParserFresh, f).ready).args)
  <2>1. \/ /\ UNCHANGED <<kind, wpc, todo, nextId, cb, stop, ws, here, active, fdOwner>>
           /\ view' = view \/ SendWsFrame(ErrorInstr)
        \/ cpc = "first" /\ Dispatch(k) /\ k # None
    BY <1>3 DEF ReadFirst
  <2>2. k \in DOMAIN FirstStage \cup {None}
    BY ClientsAreKnown
  <2> HIDE DEF k
  <2>3. SendWsFrame(ErrorInstr) => view' = view
    BY ErrorsAreInvisible DEF ShowsInv
  <2> QED BY <2>1, <2>2, <2>3, <1>1, DispatchKeepsShows
<1>4. CASE HandleInstruction \/ \E f \in Frames : ReadFrame(f)
  <2>1. Same /\ UNCHANGED <<active, fdOwner>>
    BY <1>4 DEF ReadFrame, HandleInstruction
  <2> QED BY <2>1, <1>1
<1>5. CASE Leave
  <2>1. Same /\ ~active' /\ fdOwner' = fdOwner
    BY <1>5 DEF Leave
  <2> QED BY <2>1, <1>1
<1> QED BY <1>2, <1>3, <1>4, <1>5 DEF Connecting

(* disconnect(), close(fd) and the return of the connection's thread.      *)
LEMMA LeavingKeepsShows ==
  ASSUME ShowsInv, Leaving
  PROVE  ShowsInv' /\ view' = view
<1>1. /\ UNCHANGED <<kind, wpc, todo, nextId, view, cb, active, here>>
      /\ stop' = stop \/ stop' = TRUE
      /\ fdOwner' = fdOwner \/ fdOwner' = "free"
      /\ ws' = ws \/ ws' = CloseWs(ws)
  BY DEF Leaving, SignalStop, SignalWs, SignalRdp, Join, ReapChrome, CloseFd, ReleaseConn,
     DestroyConn, clientVars, pictureVars, webVars, connVars, gatewayVars
<1>2. (Watching' => Watching) /\ (MaySendPicture' => MaySendPicture)
  BY <1>1 DEF Watching, MaySendPicture, CloseWs
<1> QED BY <1>1, <1>2, SilentKeepsShows

(* The tunnel thread: its error frames show nothing, and the worker it     *)
(* starts is fresh.                                                        *)
LEMMA TunnelKeepsShows ==
  ASSUME FramesInv, HeldInv, ShowsInv, Tunnel
  PROVE  ShowsInv' /\ view' = view /\ kind = "tunnel" /\ kind' = kind
<1>1. kind = "tunnel" /\ UNCHANGED <<kind, todo, nextId, cb, active>>
  <2>1. tpc # None /\ UNCHANGED <<kind, todo, nextId, cb, active>>
    BY DEF Tunnel, TunnelMoves, TunnelRoute, TunnelOpen, TunnelFails, TunnelCheck, TunnelStart,
       TunnelRelease, TunnelDestroy, clientVars, pictureVars, connVars, None
  <2> QED BY <2>1 DEF FramesInv, TunnelThread
<1>2. view' = view
  <2>1. view' = view \/ SendWsFrame(ErrorInstr)
    BY DEF Tunnel, TunnelRoute, TunnelOpen, TunnelFails, TunnelCheck, TunnelStart, TunnelRelease,
       TunnelDestroy
  <2> QED BY <2>1, ErrorsAreInvisible DEF ShowsInv
<1>3. wpc' = wpc \/ wpc' = "curl"
  BY DEF Tunnel, TunnelRoute, TunnelOpen, TunnelFails, TunnelCheck, TunnelStart, TunnelRelease,
     TunnelDestroy, StartWorker, FirstStage, clientVars
<1>4. CallbacksFirst'
  BY <1>1, <1>3 DEF ShowsInv, CallbacksFirst, None
<1> QED BY <1>1, <1>2, <1>4 DEF ShowsInv, ViewIsRecord, ResponseShows, None

(* ShowsInv holds throughout.                                              *)
THEOREM ShowsInvariant == Spec => [](FramesInv /\ HeldInv /\ ShowsInv)
<1>1. Init => ShowsInv
  BY DEF Init, ClientInit, ShowsInv, CallbacksFirst, ViewIsRecord, NothingShown, None
<1>2. FramesInv /\ HeldInv /\ ShowsInv /\ [Next]_vars => ShowsInv'
  <2> SUFFICES ASSUME FramesInv, HeldInv, ShowsInv, [Next]_vars PROVE ShowsInv'
    OBVIOUS
  <2>1. CASE Start \/ Stop \/ Accept \/ Connecting
    BY <2>1, ConnectingKeepsShows
  <2>2. CASE Worker
    BY <2>2, SshKeepsShows, VncKeepsShows, RdpKeepsShows, WebKeepsShows, HttpKeepsShows
       DEF Worker, WorkerStep
  <2>3. CASE Callback
    BY <2>3, CallbackKeepsShows
  <2>4. CASE Environment
    BY <2>4, WorldKeepsShows
  <2>5. CASE Leaving
    BY <2>5, LeavingKeepsShows
  <2>6. CASE Tunnel
    BY <2>6, TunnelKeepsShows
  <2>7. CASE UNCHANGED vars
    <3>1. UNCHANGED <<kind, wpc, todo, nextId, view, cb, active, here, fdOwner, stop, ws>>
      BY <2>7 DEF vars, clientVars, pictureVars, webVars, connVars, gatewayVars
    <3>2. Watching' = Watching /\ MaySendPicture' = MaySendPicture
      BY <3>1 DEF Watching, MaySendPicture
    <3> QED BY <3>1, <3>2, SilentKeepsShows
  <2> QED BY <2>1, <2>2, <2>3, <2>4, <2>5, <2>6, <2>7 DEF Next
<1> QED BY <1>1, <1>2, HeldInvariant, PTL DEF Spec
----------------------------------------------------------------------------
(* A worker that has returned has no callback left.                        *)
LEMMA DoneIsReturned ==
  ASSUME ShowsInv
  PROVE  WorkerDone <=> wpc \in {None, "exited"}
BY DEF ShowsInv, CallbacksFirst, WorkerDone, WorkerIdle

(* Each step of the gateway is one of the contract, or shows nothing.      *)
LEMMA StepIsDisplayStep ==
  ASSUME FramesInv, HeldInv, ShowsInv, ShowsInv', [Next]_vars
  PROVE  [Contract!Next]_Contract!vars
<1> USE DEF Contract!Next, Contract!vars, Contract!shown
<1>0. (WorkerDone <=> wpc \in {None, "exited"}) /\ (WorkerDone' <=> wpc' \in {None, "exited"})
  <2>1. WorkerDone' <=> wpc' \in {None, "exited"}
    BY DEF ShowsInv, CallbacksFirst, WorkerDone, WorkerIdle
  <2> QED BY <2>1, DoneIsReturned
<1>1. ASSUME kind' = kind, wpc' = wpc, view' = view, cpc' = cpc \/ Hidden
      PROVE  UNCHANGED Contract!vars
  BY <1>0, <1>1 DEF OwnerState, WorkerState, Hidden
<1>2. CASE Start \/ Stop \/ Accept \/ Connecting
  <2>0. view' = view
    BY <1>2, ConnectingKeepsShows
  <2>1. CASE Start \/ Stop \/ Accept \/ Handshake \/ ReadFirstFails
    <3>1. kind' = kind /\ wpc' = wpc /\ cpc \in {None, "handshake", "first"}
      BY <2>1 DEF Start, Stop, Accept, Handshake, ReadFirstFails, clientVars
    <3>2. Hidden
      BY <3>1 DEF FramesInv, NoClientYet, Hidden
    <3> QED BY <2>0, <3>1, <3>2, <1>1
  <2>2. ASSUME NEW f \in FirstFrames, ReadFirst(f) PROVE [Contract!Next]_Contract!vars
    <3> DEFINE k == ClientFor(Head(Feed(ParserFresh, f).ready).args)
    <3>1. \/ kind' = kind /\ wpc' = wpc
          \/ Dispatch(k) /\ k # None
      BY <2>2 DEF ReadFirst, clientVars
    <3>2. k \in DOMAIN FirstStage \cup {None}
      BY ClientsAreKnown
    <3>3. kind = None /\ Hidden
      BY <2>2 DEF ReadFirst, FramesInv, NoClientYet, Hidden
    <3> HIDE DEF k
    <3>4. CASE kind' = kind /\ wpc' = wpc
      BY <2>0, <3>3, <3>4, <1>1
    <3>5. CASE Dispatch(k) /\ k = "tunnel"
      <4>1. kind' = "tunnel"
        BY <3>5 DEF Dispatch
      <4> QED BY <2>0, <3>3, <4>1 DEF OwnerState, WorkerState, Hidden
    <3>6. CASE Dispatch(k) /\ k \notin {"tunnel", None}
      <4>1. kind' = k /\ cpc' = "loop" /\ wpc' = FirstStage[k]
        BY <3>6 DEF Dispatch, StartWorker
      <4>2. ~Hidden' /\ ~WorkerDone'
        BY <1>0, <3>2, <3>6, <4>1 DEF Hidden, FirstStage, None
      <4>3. /\ OwnerState = "before" /\ OwnerState' = "using"
            /\ WorkerState' = "running"
        BY <3>3, <4>1, <4>2 DEF OwnerState, WorkerState
      <4> QED BY <2>0, <4>3 DEF Contract!Connect
    <3> QED BY <3>1, <3>4, <3>5, <3>6
  <2>3. CASE HandleInstruction \/ \E f \in Frames : ReadFrame(f)
    <3>1. UNCHANGED <<kind, wpc, cpc>>
      BY <2>3 DEF ReadFrame, HandleInstruction
    <3> QED BY <2>0, <3>1, <1>1
  <2>4. CASE Leave
    <3>1. UNCHANGED <<kind, wpc>> /\ cpc = "loop" /\ cpc' = "d_signal"
      BY <2>4 DEF Leave, clientVars
    <3>2. CASE Hidden
      BY <2>0, <3>1, <3>2, <1>1
    <3>3. CASE ~Hidden
      <4>1. OwnerState = "using" /\ OwnerState' = "leaving" /\ WorkerState' = WorkerState
        BY <1>0, <3>1, <3>3 DEF OwnerState, WorkerState, Hidden
      <4> QED BY <2>0, <4>1 DEF Contract!Leave
    <3> QED BY <3>2, <3>3
  <2> QED BY <1>2, <2>1, <2>2, <2>3, <2>4 DEF Connecting
<1>3. CASE Worker
  <2>1. /\ wpc # None /\ wpc # "exited" /\ UNCHANGED <<kind, cpc, view>>
    BY <1>3, WorkerStepIsTheWorkers DEF Worker, connVars, gatewayVars
  <2>2. CASE Hidden
    BY <2>1, <2>2 DEF OwnerState, WorkerState, Hidden
  <2>3. CASE ~Hidden
    <3>1. /\ OwnerState' = OwnerState /\ WorkerState = "running"
          /\ WorkerState' \in {"running", "ended"}
      BY <1>0, <2>1, <2>3 DEF OwnerState, WorkerState, Hidden
    <3> QED BY <2>1, <3>1 DEF Contract!End
  <2> QED BY <2>2, <2>3
<1>4. CASE Callback
  <2>1. UNCHANGED <<kind, wpc, cpc>> /\ todo # <<>>
    BY <1>4 DEF Callback, CallbackEnter, CallbackReturn, connVars, ShowsInv, CallbacksFirst
  <2>2. Displays /\ (kind \in {None, "http", "tunnel"} => view' = view)
    BY <1>4, CallbackKeepsShows
  <2>3. CASE Hidden
    BY <2>1, <2>2, <2>3, <1>1 DEF Hidden
  <2>4. CASE ~Hidden
    <3>1. OwnerState' = OwnerState /\ WorkerState = "running" /\ WorkerState' = "running"
      BY <1>0, <2>1, <2>4 DEF OwnerState, WorkerState, Hidden, ShowsInv, CallbacksFirst
    <3> QED BY <2>2, <3>1 DEF Displays, Contract!Size, Contract!Begin, Contract!Finish,
                              Contract!Showing
  <2> QED BY <2>3, <2>4
<1>5. CASE Environment
  <2>1. UNCHANGED <<kind, wpc, cpc>> /\ view' = view
    BY <1>5, WorldKeepsShows DEF Environment, BrowserLeaves, ReuseFd, ReuseWs, connVars, clientVars
  <2> QED BY <2>1, <1>1
<1>6. CASE Leaving
  <2>1. view' = view
    BY <1>6, LeavingKeepsShows
  <2>2. /\ UNCHANGED <<kind, wpc>>
        /\ \/ cpc \in {"d_signal", "d_ws", "join"} /\ cpc' \in {"d_signal", "d_ws", "join"}
           \/ cpc = "join" /\ WorkerDone /\ cpc' \in {"reap", "close"}
           \/ /\ cpc \in {"reap", "close", "release", "destroy"}
              /\ cpc' \in {"close", "release", "destroy", "done"}
    BY <1>6 DEF Leaving, SignalStop, SignalWs, SignalRdp, Join, ReapChrome, CloseFd, ReleaseConn,
       DestroyConn, clientVars
  <2>3. CASE Hidden
    BY <2>1, <2>2, <2>3, <1>1
  <2>4. CASE ~Hidden /\ ~(cpc = "join" /\ WorkerDone /\ cpc' \in {"reap", "close"})
    <3>1. OwnerState' = OwnerState /\ WorkerState' = WorkerState
      BY <1>0, <2>2, <2>4 DEF OwnerState, WorkerState, Hidden
    <3> QED BY <2>1, <3>1
  <2>5. CASE ~Hidden /\ cpc = "join" /\ WorkerDone /\ cpc' \in {"reap", "close"}
    <3>1. /\ OwnerState = "leaving" /\ OwnerState' = "left"
          /\ WorkerState = "ended" /\ WorkerState' = "ended"
      BY <1>0, <2>2, <2>5 DEF OwnerState, WorkerState, Hidden
    <3> QED BY <2>1, <3>1 DEF Contract!Return
  <2> QED BY <2>3, <2>4, <2>5
<1>7. CASE Tunnel
  <2>1. view' = view /\ kind = "tunnel" /\ kind' = kind
    BY <1>7, TunnelKeepsShows
  <2> QED BY <2>1 DEF OwnerState, WorkerState, Hidden
<1>8. CASE UNCHANGED vars
  <2>1. UNCHANGED <<kind, wpc, cpc, view>>
    BY <1>8 DEF vars, clientVars, connVars, gatewayVars
  <2> QED BY <2>1, <1>1
<1> QED BY <1>2, <1>3, <1>4, <1>5, <1>6, <1>7, <1>8 DEF Next

(* Every client keeps the contract of DisplayClient: instructions reach    *)
(* the browser only while the worker runs, a size comes before the first   *)
(* picture, and pictures come one at a time with growing stream ids, at    *)
(* whatever point the browser leaves and the client is disconnected.       *)
THEOREM GatewayRefinesDisplayClient == Spec => ImplementsDisplayClient
<1>1. Init => Contract!Init
  BY DEF Init, ClientInit, Contract!Init, OwnerState, WorkerState, Hidden, None
<1>2. /\ FramesInv /\ HeldInv /\ ShowsInv /\ (FramesInv /\ HeldInv /\ ShowsInv)' /\ [Next]_vars
      => [Contract!Next]_Contract!vars
  BY StepIsDisplayStep
<1> QED BY <1>1, <1>2, ShowsInvariant, PTL DEF Spec, ImplementsDisplayClient, Contract!Spec

----------------------------------------------------------------------------
(***************************************************************************)
(* Input.  What is queued is what was pushed and is not yet sent, in the   *)
(* order of pushing, whatever the worker drains between two instructions.  *)
(***************************************************************************)

(* What the browser's keys and mouse become.                               *)
InputEvents ==
  Texts \cup {Cut} \cup
  [type : {"mousePressed", "mouseReleased", "mouseMoved", "mouseWheel", "keyDown", "keyUp"},
   of : {"left", "middle", "right", "up", "down", "none", "a", "Enter", "Shift", "Unidentified"}]

(* The server can still be sent something.                                 *)
BackendUp ==
  \/ kind = "ssh" /\ wpc \notin {"io_end", "teardown", "exited"}
  \/ kind = "web" /\ ws \in {"unset", "self"}

QueueTypes == inq \in Seq(InputEvents) /\ pushed \in Seq(InputEvents) /\ got \in Seq(InputEvents)

(* Before connect() there is no input, and no input loop.                  *)
NothingQueued ==
  cpc # "loop" /\ inq = <<>> /\ pushed = <<>> /\ got = <<>> /\ buttons = {} /\ ws = "unset"

(* The queue is the end of what was pushed; what was received, all of the  *)
(* rest while the server is up, is its beginning.                          *)
QueueIsRest ==
  /\ Len(got) + Len(inq) <= Len(pushed)
  /\ \A i \in 1 .. Len(inq) : inq[i] = pushed[Len(pushed) - Len(inq) + i]
GotIsFirst == \A i \in 1 .. Len(got) : got[i] = pushed[i] \/ (kind = "ssh" /\ got[i] = Cut)
NothingLost == BackendUp => Len(got) + Len(inq) = Len(pushed)

(* The CDP socket is opened once, by the worker.                           *)
NoSocketYet ==
  kind = "web" => /\ wpc \in {"fork", "url", "ws_connect"} => ws = "unset"
                  /\ ws = "unset" => wpc \in {"fork", "url", "ws_connect", "exited"}

ButtonsDown == kind = "web" => \A b \in Buttons : Down(b) <=> b \in buttons

QueueInv ==
  /\ QueueTypes /\ (kind = None => NothingQueued)
  /\ QueueIsRest /\ GotIsFirst /\ NothingLost /\ NoSocketYet /\ ButtonsDown

----------------------------------------------------------------------------
(* Whether a button is down after a sequence of events, Down for pushed.   *)
DownAfter(s, b) ==
  \E i \in DOMAIN s :
    /\ s[i] = Event("mousePressed", b)
    /\ \A j \in i + 1 .. Len(s) : s[j] # Event("mouseReleased", b)

EventsOf(s) == {s[i] : i \in 1 .. Len(s)}

(* The events of a concatenation, and of one that may be absent.           *)
LEMMA EventsOfConcat ==
  ASSUME NEW S, NEW s \in Seq(S), NEW t \in Seq(S)
  PROVE  s \o t \in Seq(S) /\ EventsOf(s \o t) = EventsOf(s) \cup EventsOf(t)
<1>1. /\ s \o t \in Seq(S) /\ Len(s \o t) = Len(s) + Len(t)
      /\ \A i \in 1 .. Len(s) + Len(t) :
           (s \o t)[i] = IF i <= Len(s) THEN s[i] ELSE t[i - Len(s)]
  OBVIOUS
<1>2. Len(s) \in Nat /\ Len(t) \in Nat
  OBVIOUS
<1>3. ASSUME NEW i \in 1 .. Len(s) PROVE i \in 1 .. Len(s) + Len(t) /\ (s \o t)[i] = s[i]
  BY <1>1, <1>2
<1>4. ASSUME NEW i \in 1 .. Len(t)
      PROVE  Len(s) + i \in 1 .. Len(s) + Len(t) /\ (s \o t)[Len(s) + i] = t[i]
  <2>1. Len(s) + i \in 1 .. Len(s) + Len(t) /\ ~ (Len(s) + i <= Len(s)) /\ (Len(s) + i) - Len(s) = i
    BY <1>2
  <2> QED BY <1>1, <2>1
<1>5. ASSUME NEW i \in 1 .. Len(s) + Len(t)
      PROVE  (s \o t)[i] \in EventsOf(s) \cup EventsOf(t)
  <2>1. CASE i <= Len(s)
    BY <1>1, <1>2, <2>1 DEF EventsOf
  <2>2. CASE ~ (i <= Len(s))
    <3>1. i - Len(s) \in 1 .. Len(t)
      BY <1>2, <2>2
    <3> QED BY <1>1, <2>2, <3>1 DEF EventsOf
  <2> QED BY <2>1, <2>2
<1> DEFINE st == s \o t
<1>6. Len(st) = Len(s) + Len(t)
  BY <1>1
<1>7. EventsOf(st) \subseteq EventsOf(s) \cup EventsOf(t)
  BY <1>5, <1>6 DEF EventsOf
<1>8. EventsOf(s) \cup EventsOf(t) \subseteq EventsOf(st)
  <2> HIDE DEF st
  <2>1. ASSUME NEW i \in 1 .. Len(s) PROVE s[i] \in EventsOf(st)
    <3>1. i \in 1 .. Len(st) /\ st[i] = s[i]
      BY <1>3, <1>6 DEF st
    <3> QED BY <3>1 DEF EventsOf
  <2>2. ASSUME NEW i \in 1 .. Len(t) PROVE t[i] \in EventsOf(st)
    <3>1. Len(s) + i \in 1 .. Len(st) /\ st[Len(s) + i] = t[i]
      BY <1>4, <1>6 DEF st
    <3> QED BY <3>1 DEF EventsOf
  <2> QED BY <2>1, <2>2 DEF EventsOf
<1> QED BY <1>1, <1>7, <1>8

(* An event that is there on a condition.                                  *)
LEMMA EventsOfWhen ==
  ASSUME NEW S, NEW s \in Seq(S), NEW c, NEW e \in S
  PROVE  /\ s \o When(c, e) \in Seq(S)
         /\ \A x : x \in EventsOf(s \o When(c, e)) <=> x \in EventsOf(s) \/ (c /\ x = e)
<1>1. When(c, e) \in Seq(S) /\ \A x : x \in EventsOf(When(c, e)) <=> c /\ x = e
  <2>1. CASE c
    BY <2>1 DEF When, EventsOf
  <2>2. CASE ~c
    BY <2>2 DEF When, EventsOf
  <2> QED BY <2>1, <2>2
<1>2. s \o When(c, e) \in Seq(S) /\ EventsOf(s \o When(c, e)) = EventsOf(s) \cup EventsOf(When(c, e))
  <2> HIDE DEF When
  <2> QED BY <1>1, EventsOfConcat
<1> QED BY <1>1, <1>2

(* Events after which a button is up, down, or what it was.                *)
LEMMA DownAfterConcat ==
  ASSUME NEW S, NEW s \in Seq(S), NEW t \in Seq(S), NEW b
  PROVE  LET P == Event("mousePressed", b)
             R == Event("mouseReleased", b)
         IN /\ P \in EventsOf(t) /\ R \notin EventsOf(t) => DownAfter(s \o t, b)
            /\ P \notin EventsOf(t) /\ R \in EventsOf(t) => ~ DownAfter(s \o t, b)
            /\ P \notin EventsOf(t) /\ R \notin EventsOf(t)
                 => (DownAfter(s \o t, b) <=> DownAfter(s, b))
<1> DEFINE P == Event("mousePressed", b)
           R == Event("mouseReleased", b)
           st == s \o t
<1>1. /\ DOMAIN st = 1 .. Len(st) /\ Len(st) = Len(s) + Len(t)
      /\ DOMAIN s = 1 .. Len(s) /\ Len(s) \in Nat /\ Len(t) \in Nat
      /\ \A i \in 1 .. Len(st) : st[i] = IF i <= Len(s) THEN s[i] ELSE t[i - Len(s)]
  OBVIOUS
<1>2. ASSUME NEW i \in 1 .. Len(s) PROVE i \in 1 .. Len(st) /\ st[i] = s[i]
  BY <1>1
<1>3. ASSUME NEW i \in 1 .. Len(t) PROVE Len(s) + i \in 1 .. Len(st) /\ st[Len(s) + i] = t[i]
  <2>1. Len(s) + i \in 1 .. Len(st) /\ ~ (Len(s) + i <= Len(s)) /\ (Len(s) + i) - Len(s) = i
    BY <1>1
  <2> QED BY <1>1, <2>1
<1>4. ASSUME NEW i \in 1 .. Len(st), i > Len(s)
      PROVE  i - Len(s) \in 1 .. Len(t) /\ st[i] = t[i - Len(s)] /\ st[i] \in EventsOf(t)
  <2>1. i - Len(s) \in 1 .. Len(t) /\ ~ (i <= Len(s))
    BY <1>1, <1>4
  <2> QED BY <1>1, <2>1 DEF EventsOf
<1> HIDE DEF P, R, st
<1>5. ASSUME P \in EventsOf(t), R \notin EventsOf(t) PROVE DownAfter(st, b)
  <2>1. PICK i \in 1 .. Len(t) : t[i] = P
    BY <1>5 DEF EventsOf
  <2>2. Len(s) + i \in DOMAIN st /\ st[Len(s) + i] = P
    BY <1>1, <1>3, <2>1
  <2>3. ASSUME NEW j \in Len(s) + i + 1 .. Len(st) PROVE st[j] # R
    <3>1. j \in 1 .. Len(st) /\ j > Len(s)
      BY <1>1
    <3> QED BY <1>4, <1>5, <3>1
  <2> QED BY <2>2, <2>3 DEF DownAfter, P, R
<1>6. ASSUME P \notin EventsOf(t), R \in EventsOf(t) PROVE ~ DownAfter(st, b)
  <2> SUFFICES ASSUME NEW i \in 1 .. Len(st), st[i] = P,
                      \A j \in i + 1 .. Len(st) : st[j] # R
               PROVE  FALSE
    BY <1>1 DEF DownAfter, P, R
  <2>1. PICK k \in 1 .. Len(t) : t[k] = R
    BY <1>6 DEF EventsOf
  <2>2. Len(s) + k \in 1 .. Len(st) /\ st[Len(s) + k] = R
    BY <1>3, <2>1
  <2>3. i <= Len(s)
    BY <1>1, <1>4, <1>6
  <2>4. Len(s) + k \in i + 1 .. Len(st)
    BY <1>1, <2>2, <2>3
  <2> QED BY <2>2, <2>4
<1>7. ASSUME P \notin EventsOf(t), R \notin EventsOf(t) PROVE DownAfter(st, b) <=> DownAfter(s, b)
  <2>1. ASSUME DownAfter(st, b) PROVE DownAfter(s, b)
    <3>1. PICK i \in 1 .. Len(st) : st[i] = P /\ \A j \in i + 1 .. Len(st) : st[j] # R
      BY <1>1, <2>1 DEF DownAfter, P, R
    <3>2. i \in 1 .. Len(s)
      BY <1>1, <1>4, <1>7, <3>1
    <3>3. ASSUME NEW j \in i + 1 .. Len(s) PROVE s[j] # R
      <4>1. j \in 1 .. Len(s) /\ j \in i + 1 .. Len(st)
        BY <1>1, <3>2
      <4> QED BY <1>2, <3>1, <4>1
    <3>4. s[i] = P
      BY <1>2, <3>1, <3>2
    <3> QED BY <1>1, <3>2, <3>3, <3>4 DEF DownAfter, P, R
  <2>2. ASSUME DownAfter(s, b) PROVE DownAfter(st, b)
    <3>1. PICK i \in 1 .. Len(s) : s[i] = P /\ \A j \in i + 1 .. Len(s) : s[j] # R
      BY <1>1, <2>2 DEF DownAfter, P, R
    <3>2. i \in DOMAIN st /\ st[i] = P
      BY <1>1, <1>2, <3>1
    <3>3. ASSUME NEW j \in i + 1 .. Len(st) PROVE st[j] # R
      <4>1. CASE j > Len(s)
        <5>1. j \in 1 .. Len(st)
          BY <1>1, <4>1
        <5> QED BY <1>4, <1>7, <4>1, <5>1
      <4>2. CASE ~ (j > Len(s))
        <5>1. j \in i + 1 .. Len(s) /\ j \in 1 .. Len(s)
          BY <1>1, <4>2
        <5> QED BY <1>2, <3>1, <5>1
      <4> QED BY <4>1, <4>2
    <3> QED BY <3>2, <3>3 DEF DownAfter, P, R
  <2> QED BY <2>1, <2>2
<1> QED BY <1>5, <1>6, <1>7 DEF P, R, st

(* send_mouse: exactly the buttons that went down are pressed, and exactly *)
(* those that went up released.                                            *)
LEMMA MouseEventsAre ==
  ASSUME NEW old, NEW new
  PROVE  /\ MouseEvents(old, new) \in Seq(InputEvents)
         /\ \A b \in Buttons :
              /\ Event("mousePressed", b) \in EventsOf(MouseEvents(old, new)) <=> b \in new \ old
              /\ Event("mouseReleased", b) \in EventsOf(MouseEvents(old, new)) <=> b \in old \ new
<1> DEFINE S == InputEvents
           pressed(b) == b \in new \ old
           released(b) == b \in old \ new
           q1 == When("up" \in new, Event("mouseWheel", "up"))
           q2 == q1 \o When("down" \in new, Event("mouseWheel", "down"))
           q3 == q2 \o When(pressed("left"), Event("mousePressed", "left"))
           q4 == q3 \o When(pressed("middle"), Event("mousePressed", "middle"))
           q5 == q4 \o When(pressed("right"), Event("mousePressed", "right"))
           q6 == q5 \o When(released("left"), Event("mouseReleased", "left"))
           q7 == q6 \o When(released("middle"), Event("mouseReleased", "middle"))
           q8 == q7 \o When(released("right"), Event("mouseReleased", "right"))
           q9 == q8 \o <<Event("mouseMoved", "none")>>
<1>1. /\ \A d \in {"up", "down"} : Event("mouseWheel", d) \in S
      /\ \A b \in Buttons : Event("mousePressed", b) \in S /\ Event("mouseReleased", b) \in S
      /\ Event("mouseMoved", "none") \in S
  BY DEF Event, InputEvents, Buttons
<1>2. MouseEvents(old, new) = q9
  BY DEF MouseEvents
<1> HIDE DEF S, pressed, released
<1>3. q1 \in Seq(S) /\ \A x : x \in EventsOf(q1) <=> "up" \in new /\ x = Event("mouseWheel", "up")
  <2>1. CASE "up" \in new
    BY <1>1, <2>1 DEF When, EventsOf
  <2>2. CASE "up" \notin new
    BY <2>2 DEF When, EventsOf
  <2> QED BY <2>1, <2>2
<1> HIDE DEF q1
<1>4. /\ q2 \in Seq(S)
      /\ \A x : x \in EventsOf(q2) <=> x \in EventsOf(q1) \/ ("down" \in new /\ x = Event("mouseWheel", "down"))
  <2>1. Event("mouseWheel", "down") \in S
    BY <1>1 DEF Buttons
  <2> QED BY <1>3, <2>1, EventsOfWhen
<1> HIDE DEF q2
<1>5. /\ q3 \in Seq(S)
      /\ \A x : x \in EventsOf(q3) <=> x \in EventsOf(q2) \/ (pressed("left") /\ x = Event("mousePressed", "left"))
  <2>1. Event("mousePressed", "left") \in S
    BY <1>1 DEF Buttons
  <2> QED BY <1>4, <2>1, EventsOfWhen
<1> HIDE DEF q3
<1>6. /\ q4 \in Seq(S)
      /\ \A x : x \in EventsOf(q4) <=> x \in EventsOf(q3) \/ (pressed("middle") /\ x = Event("mousePressed", "middle"))
  <2>1. Event("mousePressed", "middle") \in S
    BY <1>1 DEF Buttons
  <2> QED BY <1>5, <2>1, EventsOfWhen
<1> HIDE DEF q4
<1>7. /\ q5 \in Seq(S)
      /\ \A x : x \in EventsOf(q5) <=> x \in EventsOf(q4) \/ (pressed("right") /\ x = Event("mousePressed", "right"))
  <2>1. Event("mousePressed", "right") \in S
    BY <1>1 DEF Buttons
  <2> QED BY <1>6, <2>1, EventsOfWhen
<1> HIDE DEF q5
<1>8. /\ q6 \in Seq(S)
      /\ \A x : x \in EventsOf(q6) <=> x \in EventsOf(q5) \/ (released("left") /\ x = Event("mouseReleased", "left"))
  <2>1. Event("mouseReleased", "left") \in S
    BY <1>1 DEF Buttons
  <2> QED BY <1>7, <2>1, EventsOfWhen
<1> HIDE DEF q6
<1>9. /\ q7 \in Seq(S)
      /\ \A x : x \in EventsOf(q7) <=> x \in EventsOf(q6) \/ (released("middle") /\ x = Event("mouseReleased", "middle"))
  <2>1. Event("mouseReleased", "middle") \in S
    BY <1>1 DEF Buttons
  <2> QED BY <1>8, <2>1, EventsOfWhen
<1> HIDE DEF q7
<1>10. /\ q8 \in Seq(S)
      /\ \A x : x \in EventsOf(q8) <=> x \in EventsOf(q7) \/ (released("right") /\ x = Event("mouseReleased", "right"))
  <2>1. Event("mouseReleased", "right") \in S
    BY <1>1 DEF Buttons
  <2> QED BY <1>9, <2>1, EventsOfWhen
<1> HIDE DEF q8
<1>11. /\ q9 \in Seq(S)
       /\ \A x : x \in EventsOf(q9) <=> x \in EventsOf(q8) \/ x = Event("mouseMoved", "none")
  <2> DEFINE m == <<Event("mouseMoved", "none")>>
  <2>1. m \in Seq(S) /\ EventsOf(m) = {Event("mouseMoved", "none")}
    BY <1>1 DEF EventsOf
  <2> HIDE DEF m
  <2>2. q8 \o m \in Seq(S) /\ EventsOf(q8 \o m) = EventsOf(q8) \cup EventsOf(m)
    BY <1>10, <2>1, EventsOfConcat
  <2> QED BY <2>1, <2>2 DEF m
<1> HIDE DEF q9
<1>12. \A t1, o1, t2, o2 : Event(t1, o1) = Event(t2, o2) <=> t1 = t2 /\ o1 = o2
  BY DEF Event
<1>13. ASSUME NEW b \in Buttons
       PROVE  /\ Event("mousePressed", b) \in EventsOf(q9) <=> pressed(b)
              /\ Event("mouseReleased", b) \in EventsOf(q9) <=> released(b)
  <2>1. \A x : x \in EventsOf(q9) <=>
                 \/ "up" \in new /\ x = Event("mouseWheel", "up")
                 \/ "down" \in new /\ x = Event("mouseWheel", "down")
                 \/ pressed("left") /\ x = Event("mousePressed", "left")
                 \/ pressed("middle") /\ x = Event("mousePressed", "middle")
                 \/ pressed("right") /\ x = Event("mousePressed", "right")
                 \/ released("left") /\ x = Event("mouseReleased", "left")
                 \/ released("middle") /\ x = Event("mouseReleased", "middle")
                 \/ released("right") /\ x = Event("mouseReleased", "right")
                 \/ x = Event("mouseMoved", "none")
    BY <1>3, <1>4, <1>5, <1>6, <1>7, <1>8, <1>9, <1>10, <1>11
  <2>2. Event("mousePressed", b) \in EventsOf(q9) <=> pressed(b)
    BY <1>12, <2>1 DEF Buttons
  <2>3. Event("mouseReleased", b) \in EventsOf(q9) <=> released(b)
    BY <1>12, <2>1 DEF Buttons
  <2> QED BY <2>2, <2>3
<1> QED BY <1>2, <1>11, <1>13 DEF S, pressed, released

(* No other event presses or releases a button.                            *)
LEMMA KeyEventIsKey ==
  ASSUME NEW arg, NEW pressed
  PROVE  /\ <<KeyEvent(arg, pressed)>> \in Seq(InputEvents)
         /\ \A b : /\ Event("mousePressed", b) \notin EventsOf(<<KeyEvent(arg, pressed)>>)
                   /\ Event("mouseReleased", b) \notin EventsOf(<<KeyEvent(arg, pressed)>>)
<1> DEFINE e == KeyEvent(arg, pressed)
<1>1. e \in InputEvents
  BY DEF KeyEvent, DomKey, Event, InputEvents
<1>2. \A b : e # Event("mousePressed", b) /\ e # Event("mouseReleased", b)
  BY DEF KeyEvent, Event
<1> HIDE DEF e
<1>3. <<e>> \in Seq(InputEvents) /\ EventsOf(<<e>>) = {e}
  BY <1>1 DEF EventsOf
<1> QED BY <1>2, <1>3 DEF e

----------------------------------------------------------------------------
(* Steps that touch neither the queue nor what was sent.                   *)
LEMMA QueueUntouched ==
  ASSUME QueueInv, UNCHANGED <<kind, inq, pushed, got, buttons>>,
         BackendUp' => BackendUp, NoSocketYet', kind = None => cpc' # "loop" /\ ws' = ws
  PROVE  QueueInv'
<1>1. ButtonsDown'
  BY DEF QueueInv, ButtonsDown, Down
<1> QED BY <1>1 DEF QueueInv, QueueTypes, NothingQueued, QueueIsRest, GotIsFirst, NothingLost

(* A longer queue: the events of one instruction are pushed together.      *)
LEMMA PushKeepsQueue ==
  ASSUME QueueTypes, QueueIsRest, GotIsFirst, NEW q, q \in Seq(InputEvents),
         inq' = inq \o q, pushed' = pushed \o q, UNCHANGED <<kind, wpc, ws, got>>, NothingLost
  PROVE  QueueTypes' /\ QueueIsRest' /\ GotIsFirst' /\ NothingLost'
<1>1. QueueTypes'
  BY DEF QueueTypes
<1>2. /\ Len(inq') = Len(inq) + Len(q) /\ Len(pushed') = Len(pushed) + Len(q)
      /\ \A i \in 1 .. Len(inq) + Len(q) :
           inq'[i] = IF i <= Len(inq) THEN inq[i] ELSE q[i - Len(inq)]
      /\ \A i \in 1 .. Len(pushed) + Len(q) :
           pushed'[i] = IF i <= Len(pushed) THEN pushed[i] ELSE q[i - Len(pushed)]
  BY DEF QueueTypes
<1>3. {Len(inq), Len(pushed), Len(got), Len(q)} \subseteq Nat
  BY DEF QueueTypes
<1>4. Len(got) + Len(inq) <= Len(pushed)
  BY DEF QueueIsRest
<1>5. ASSUME NEW i \in 1 .. Len(inq') PROVE inq'[i] = pushed'[Len(pushed') - Len(inq') + i]
  <2> DEFINE j == Len(pushed) - Len(inq) + i
  <2>1. Len(pushed') - Len(inq') + i = j /\ j \in 1 .. Len(pushed) + Len(q)
    BY <1>2, <1>3, <1>4
  <2>2. CASE i <= Len(inq)
    <3>1. i \in 1 .. Len(inq) /\ j <= Len(pushed)
      BY <1>2, <1>3, <2>2
    <3>2. inq[i] = pushed[j]
      BY <3>1 DEF QueueIsRest
    <3> QED BY <1>2, <1>3, <2>1, <2>2, <3>1, <3>2
  <2>3. CASE ~ (i <= Len(inq))
    <3>1. ~ (j <= Len(pushed)) /\ j - Len(pushed) = i - Len(inq)
      BY <1>2, <1>3, <2>3
    <3> QED BY <1>2, <1>3, <2>1, <2>3, <3>1
  <2> QED BY <2>2, <2>3
<1>6. QueueIsRest'
  BY <1>2, <1>3, <1>4, <1>5 DEF QueueIsRest
<1>7. GotIsFirst'
  <2>1. ASSUME NEW i \in 1 .. Len(got) PROVE pushed'[i] = pushed[i]
    <3>1. i \in 1 .. Len(pushed) + Len(q) /\ i <= Len(pushed)
      BY <1>3, <1>4
    <3> QED BY <1>2, <3>1
  <2> QED BY <2>1 DEF GotIsFirst
<1>8. NothingLost'
  <2>1. BackendUp' <=> BackendUp
    BY DEF BackendUp
  <2> DEFINE g == Len(got)
             i == Len(inq)
             p == Len(pushed)
             m == Len(q)
  <2>2. g \in Nat /\ i \in Nat /\ p \in Nat /\ m \in Nat
    BY <1>3
  <2>3. /\ NothingLost <=> (BackendUp => g + i = p)
        /\ NothingLost' <=> (BackendUp' => Len(got') + Len(inq') = Len(pushed'))
    BY DEF NothingLost
  <2>4. Len(got') = g /\ Len(inq') = i + m /\ Len(pushed') = p + m
    BY <1>2
  <2> HIDE DEF g, i, p, m
  <2>5. BackendUp => g + (i + m) = p + m
    BY <2>2, <2>3
  <2> QED BY <2>1, <2>3, <2>4, <2>5
<1> QED BY <1>1, <1>6, <1>7, <1>8

(* A shorter queue: the front is sent, or given up with the server.        *)
LEMMA PopKeepsQueue ==
  ASSUME QueueTypes, QueueIsRest, GotIsFirst, NothingLost, inq # <<>>, inq' = Tail(inq),
         UNCHANGED <<kind, pushed>>, BackendUp' => BackendUp,
         \/ got' = got /\ ~ BackendUp'
         \/ /\ BackendUp
            /\ got' = Append(got, Head(inq)) \/ (kind = "ssh" /\ got' = Append(got, Cut))
  PROVE  QueueTypes' /\ QueueIsRest' /\ GotIsFirst' /\ NothingLost'
<1>1. {Len(inq), Len(pushed), Len(got)} \subseteq Nat /\ Len(inq) # 0
  BY DEF QueueTypes
<1>2. inq' \in Seq(InputEvents) /\ Len(inq') = Len(inq) - 1
      /\ \A i \in 1 .. Len(inq) - 1 : inq'[i] = inq[i + 1]
  BY DEF QueueTypes
<1>3. Len(got) + Len(inq) <= Len(pushed)
  BY DEF QueueIsRest
<1>4. ASSUME NEW i \in 1 .. Len(inq') PROVE inq'[i] = pushed[Len(pushed) - Len(inq') + i]
  <2>1. i + 1 \in 1 .. Len(inq) /\ i \in 1 .. Len(inq) - 1
    BY <1>1, <1>2
  <2>2. inq[i + 1] = pushed[Len(pushed) - Len(inq) + (i + 1)]
    BY <2>1 DEF QueueIsRest
  <2>3. Len(pushed) - Len(inq) + (i + 1) = Len(pushed) - Len(inq') + i
    BY <1>1, <1>2
  <2> QED BY <1>2, <2>1, <2>2, <2>3
<1>5. CASE got' = got /\ ~ BackendUp'
  <2>1. QueueTypes' /\ GotIsFirst' /\ NothingLost'
    BY <1>2, <1>5 DEF QueueTypes, GotIsFirst, NothingLost
  <2>2. QueueIsRest'
    BY <1>1, <1>2, <1>3, <1>4, <1>5 DEF QueueIsRest
  <2> QED BY <2>1, <2>2
<1>6. ASSUME BackendUp, NEW e \in InputEvents, got' = Append(got, e),
             e = Head(inq) \/ (kind = "ssh" /\ e = Cut)
      PROVE  QueueTypes' /\ QueueIsRest' /\ GotIsFirst' /\ NothingLost'
  <2>1. /\ got' \in Seq(InputEvents) /\ Len(got') = Len(got) + 1 /\ got'[Len(got) + 1] = e
        /\ \A i \in 1 .. Len(got) : got'[i] = got[i]
    BY <1>6 DEF QueueTypes
  <2>2. Len(got) + Len(inq) = Len(pushed)
    BY <1>6 DEF NothingLost
  <2>3. QueueTypes' /\ QueueIsRest'
    BY <1>1, <1>2, <1>3, <1>4, <2>1 DEF QueueTypes, QueueIsRest
  <2>4. NothingLost'
    BY <1>1, <1>2, <2>1, <2>2 DEF NothingLost
  <2>5. Head(inq) = pushed[Len(got) + 1]
    <3>1. Head(inq) = inq[1] /\ 1 \in 1 .. Len(inq)
      BY <1>1 DEF QueueTypes
    <3>2. inq[1] = pushed[Len(pushed) - Len(inq) + 1]
      BY <3>1 DEF QueueIsRest
    <3>3. Len(pushed) - Len(inq) + 1 = Len(got) + 1
      BY <1>1, <2>2
    <3> QED BY <3>1, <3>2, <3>3
  <2>6. ASSUME NEW i \in 1 .. Len(got')
        PROVE  got'[i] = pushed[i] \/ (kind = "ssh" /\ got'[i] = Cut)
    <3>1. CASE i = Len(got) + 1
      BY <1>6, <2>1, <2>5, <3>1
    <3>2. CASE i # Len(got) + 1
      <4>1. i \in 1 .. Len(got)
        BY <1>1, <2>1, <3>2
      <4> QED BY <2>1, <4>1 DEF GotIsFirst
    <3> QED BY <3>1, <3>2
  <2>7. GotIsFirst'
    BY <2>6 DEF GotIsFirst
  <2> QED BY <2>3, <2>4, <2>7
<1>7. Head(inq) \in InputEvents /\ Cut \in InputEvents
  BY DEF QueueTypes, InputEvents
<1> QED BY <1>5, <1>6, <1>7

(* What an instruction of the browser queues.                              *)
LEMMA QueuesEvents ==
  ASSUME NEW i \in Instructions
  PROVE  Queues(i) \in Seq(InputEvents)
<1>1. CASE kind = "ssh" /\ i.opcode = "key" /\ i.args # <<>> /\ connected
  <2>1. i.args[1] \in InputEvents
    BY <1>1 DEF Instructions, InputEvents
  <2> QED BY <1>1, <2>1 DEF Queues, When
<1>2. CASE ~ (kind = "ssh" /\ i.opcode = "key" /\ i.args # <<>> /\ connected)
  <2>1. MouseEvents(buttons, MaskOf(i.args[3])) \in Seq(InputEvents)
    BY MouseEventsAre
  <2>2. <<KeyEvent(i.args[1], i.args[2])>> \in Seq(InputEvents)
    BY KeyEventIsKey
  <2> QED BY <1>2, <2>1, <2>2 DEF Queues
<1> QED BY <1>1, <1>2

(* What is left in ready_ are instructions.                                *)
LEMMA HeadIsInstruction ==
  ASSUME NEW p \in ParserState, HasInstruction(p)
  PROVE  Head(p.ready) \in Instructions
  BY DEF ParserState, HasInstruction

(* handle_browser_instruction.                                             *)
LEMMA InstructionKeepsQueue ==
  ASSUME QueueInv, parser \in ParserState, HandleInstruction
  PROVE  QueueInv'
<1> DEFINE i == Head(parser.ready)
           q == Queues(i)
<1>1. i \in Instructions /\ q \in Seq(InputEvents)
  BY HeadIsInstruction, QueuesEvents DEF HandleInstruction
<1>2. /\ cpc = "loop" /\ UNCHANGED <<kind, wpc, cpc, ws, got>>
      /\ \/ UNCHANGED <<inq, pushed, buttons>>
         \/ /\ inq' = inq \o q /\ pushed' = pushed \o q
            /\ buttons' = IF IsMouse(i) THEN MaskOf(i.args[3]) ELSE buttons
  BY DEF HandleInstruction, webVars
<1> HIDE DEF i
<1>3. kind # None
  BY <1>2 DEF QueueInv, NothingQueued
<1>4. NoSocketYet'
  BY <1>2 DEF QueueInv, NoSocketYet
<1>5. CASE UNCHANGED <<inq, pushed, buttons>>
  <2>1. BackendUp' => BackendUp
    BY <1>2 DEF BackendUp
  <2> QED BY <1>2, <1>3, <1>4, <1>5, <2>1, QueueUntouched
<1>6. CASE /\ inq' = inq \o q /\ pushed' = pushed \o q
           /\ buttons' = IF IsMouse(i) THEN MaskOf(i.args[3]) ELSE buttons
  <2> HIDE DEF q
  <2>1. QueueTypes' /\ QueueIsRest' /\ GotIsFirst' /\ NothingLost'
    BY <1>1, <1>2, <1>6, PushKeepsQueue DEF QueueInv
  <2>2. ASSUME kind = "web", NEW b \in Buttons PROVE DownAfter(pushed \o q, b) <=> b \in buttons'
    <3>1. pushed \in Seq(InputEvents) /\ (DownAfter(pushed, b) <=> b \in buttons)
      BY <2>2 DEF QueueInv, QueueTypes, ButtonsDown, Down, DownAfter
    <3>2. /\ Event("mousePressed", b) \in EventsOf(q) /\ Event("mouseReleased", b) \notin EventsOf(q)
               => DownAfter(pushed \o q, b)
          /\ Event("mousePressed", b) \notin EventsOf(q) /\ Event("mouseReleased", b) \in EventsOf(q)
               => ~ DownAfter(pushed \o q, b)
          /\ Event("mousePressed", b) \notin EventsOf(q) /\ Event("mouseReleased", b) \notin EventsOf(q)
               => (DownAfter(pushed \o q, b) <=> DownAfter(pushed, b))
      BY <1>1, <3>1, DownAfterConcat
    <3>3. CASE IsMouse(i)
      <4> DEFINE new == MaskOf(i.args[3])
      <4>1. q = MouseEvents(buttons, new) /\ buttons' = new
        BY <1>6, <2>2, <3>3 DEF q, Queues
      <4> HIDE DEF new
      <4>2. /\ Event("mousePressed", b) \in EventsOf(q) <=> b \in new \ buttons
            /\ Event("mouseReleased", b) \in EventsOf(q) <=> b \in buttons \ new
        BY <4>1, MouseEventsAre
      <4> QED BY <3>1, <3>2, <4>1, <4>2
    <3>4. CASE ~ IsMouse(i)
      <4>1. /\ Event("mousePressed", b) \notin EventsOf(q)
            /\ Event("mouseReleased", b) \notin EventsOf(q)
        <5>1. CASE IsKey(i)
          <6>1. q = <<KeyEvent(i.args[1], i.args[2])>>
            BY <2>2, <3>4, <5>1 DEF q, Queues
          <6> QED BY <6>1, KeyEventIsKey
        <5>2. CASE ~ IsKey(i)
          <6>1. q = <<>>
            BY <2>2, <3>4, <5>2 DEF q, Queues
          <6> QED BY <6>1 DEF EventsOf
        <5> QED BY <5>1, <5>2
      <4>2. buttons' = buttons
        BY <1>6, <3>4
      <4> QED BY <3>1, <3>2, <4>1, <4>2
    <3> QED BY <3>3, <3>4
  <2>3. ButtonsDown'
    BY <1>2, <1>6, <2>2 DEF ButtonsDown, Down, DownAfter
  <2> QED BY <1>2, <1>3, <1>4, <2>1, <2>3 DEF QueueInv
<1> QED BY <1>2, <1>5, <1>6

(* SSH: the front is written whole or cut, or lost with the channel.       *)
LEMMA SshKeepsQueue ==
  ASSUME QueueInv, HeldInv, SshStep, UNCHANGED cpc
  PROVE  QueueInv'
<1>1. wpc \in SshStages
  BY DEF SshStep, SshSetUp, SshSetUpFails, SshLoop, SshRead, SshWriteDone, SshWrite, SshWriteAgain,
     SshWriteFails, SshEnd, SshTeardown, Goto, SshStages
<1>2. kind = "ssh" /\ kind # None
  BY <1>1, StageTellsKind DEF HeldInv, None
<1>3. CASE SshWrite \/ SshWriteFails
  <2>1. /\ wpc = "write" /\ inq # <<>> /\ inq' = Tail(inq)
        /\ UNCHANGED <<kind, pushed, buttons, ws>>
        /\ \/ got' = got /\ wpc' = "io_end"
           \/ got' = Append(got, Head(inq)) \/ got' = Append(got, Cut)
    BY <1>3 DEF SshWrite, SshWriteFails, Goto, webVars
  <2>2. BackendUp /\ (wpc' = "io_end" => ~ BackendUp')
    BY <1>2, <2>1 DEF BackendUp
  <2>3. QueueTypes' /\ QueueIsRest' /\ GotIsFirst' /\ NothingLost'
    BY <1>2, <2>1, <2>2, PopKeepsQueue DEF QueueInv
  <2>4. NoSocketYet' /\ ButtonsDown'
    BY <1>2, <2>1 DEF NoSocketYet, ButtonsDown
  <2> QED BY <1>2, <2>1, <2>3, <2>4 DEF QueueInv
<1>4. CASE ~ (SshWrite \/ SshWriteFails)
  <2>1. UNCHANGED <<kind, inq, pushed, got, buttons, ws>>
    BY <1>4 DEF SshStep, SshSetUp, SshSetUpFails, SshLoop, SshRead, SshWriteDone, SshWriteAgain,
       SshEnd, SshTeardown, inputVars, webVars
  <2>2. wpc \in {"io_end", "teardown", "exited"} => wpc' \in {"teardown", "exited"}
    BY <1>4 DEF SshStep, SshSetUp, SshSetUpFails, SshNext, SshLoop, SshRead, SshWriteDone,
       SshWriteAgain, SshEnd, SshTeardown, Goto
  <2>3. (BackendUp' => BackendUp) /\ NoSocketYet'
    BY <1>2, <2>1, <2>2 DEF BackendUp, NoSocketYet
  <2> QED BY <1>2, <2>1, <2>3, QueueUntouched
<1> QED BY <1>3, <1>4

(* The web client: the front is popped whether or not the socket lives.    *)
LEMMA WebKeepsQueue ==
  ASSUME QueueInv, HeldInv, WebStep, UNCHANGED cpc
  PROVE  QueueInv'
<1>1. wpc \in WebStages
  BY DEF WebStep, WebFork, WebUrl, WebGivesUp, WebConnect, WebEnable, WebEnableStopped, WebLoaded,
     WebNotLoaded, WebStream, WebSend, WebAck, WebCapture, WebNoShot, WebShot, WebClose, Goto,
     WebStages
<1>2. kind = "web" /\ kind # None
  BY <1>1, StageTellsKind DEF HeldInv, None
<1>3. CASE WebSend
  <2>1. /\ wpc = "drain" /\ wpc' = "ack" /\ inq # <<>> /\ inq' = Tail(inq)
        /\ UNCHANGED <<kind, pushed, buttons, ws>>
        /\ got' = IF ws = "self" THEN Append(got, Head(inq)) ELSE got
    BY <1>3 DEF WebSend, Goto, webVars
  <2>2. NoSocketYet' /\ ButtonsDown' /\ (BackendUp' <=> BackendUp)
    BY <2>1 DEF QueueInv, NoSocketYet, ButtonsDown, Down, BackendUp
  <2>3. ws # "unset"
    BY <1>2, <2>1 DEF QueueInv, NoSocketYet
  <2>4. QueueTypes' /\ QueueIsRest' /\ GotIsFirst' /\ NothingLost'
    BY <1>2, <2>1, <2>2, <2>3, PopKeepsQueue DEF QueueInv, BackendUp
  <2> QED BY <1>2, <2>1, <2>2, <2>4 DEF QueueInv
<1>4. CASE ~ WebSend
  <2>1. UNCHANGED <<kind, inq, pushed, got, buttons>>
    BY <1>4 DEF WebStep, WebFork, WebUrl, WebGivesUp, WebConnect, WebEnable, WebEnableStopped,
       WebLoaded, WebNotLoaded, WebStream, WebAck, WebCapture, WebNoShot, WebShot, WebClose,
       inputVars
  <2>2. /\ wpc' = "fork" => FALSE
        /\ wpc' \in {"url", "ws_connect"} => wpc \in {"fork", "url"} /\ ws' = ws
        /\ wpc = "ws_connect" => ws' \in {"self", ws} /\ (ws' = "unset" => wpc' = "exited")
        /\ wpc # "ws_connect" /\ ws' # ws => ws' \notin {"unset", "self"}
        /\ wpc \in {"fork", "url"} /\ ws' = "unset" => wpc' \in {"url", "ws_connect", "exited"}
    BY <1>4 DEF WebStep, WebFork, WebUrl, WebGivesUp, WebConnect, WebEnable, WebEnableStopped,
       WebLoaded, WebNotLoaded, WebStream, WebAck, WebCapture, WebNoShot, WebShot, WebClose,
       Goto, webVars, Answered, RecvFails, CloseWs
  <2>3. NoSocketYet' /\ (BackendUp' => BackendUp)
    BY <1>1, <1>2, <2>1, <2>2 DEF QueueInv, NoSocketYet, BackendUp, WebStages
  <2> QED BY <1>2, <2>1, <2>3, QueueUntouched
<1> QED BY <1>3, <1>4

(* The other clients have no queue.                                        *)
LEMMA WorkerKeepsQueue ==
  ASSUME QueueInv, HeldInv, WorkerStep, UNCHANGED cpc
  PROVE  QueueInv'
<1>1. CASE VncStep \/ RdpStep \/ HttpStep
  <2>1. wpc \in VncStages \cup RdpStages \cup HttpStages
    BY <1>1 DEF VncStep, VncNew, VncConnect, VncConnectFails, VncMessage, VncEnd, VncCleanUp,
       RdpStep, RdpNew, RdpContext, RdpConnect, RdpPaint, RdpLoopEnds, RdpEnd, RdpFree, RdpNull,
       HttpStep, HttpInit, HttpInitFails, HttpGivesUp, HttpPerform, HttpCleanUp, Goto,
       VncStages, RdpStages, HttpStages
  <2>2. kind \notin {"ssh", "web", None}
    BY <2>1, StageTellsKind DEF HeldInv, None
  <2>3. UNCHANGED <<kind, inq, pushed, got, buttons, ws>>
    BY <1>1 DEF VncStep, VncNew, VncConnect, VncConnectFails, VncMessage, VncEnd, VncCleanUp,
       RdpStep, RdpNew, RdpContext, RdpConnect, RdpPaint, RdpLoopEnds, RdpEnd, RdpFree, RdpNull,
       HttpStep, HttpInit, HttpInitFails, HttpGivesUp, HttpPerform, HttpCleanUp, inputVars, webVars
  <2> QED BY <2>2, <2>3, QueueUntouched DEF BackendUp, NoSocketYet
<1> QED BY <1>1, SshKeepsQueue, WebKeepsQueue DEF WorkerStep

(* handle_connection: connect() finds nothing queued.                      *)
LEMMA DispatchKeepsQueue ==
  ASSUME QueueInv, kind = None, NEW k, Dispatch(k), k # None
  PROVE  QueueInv'
<1>1. inq = <<>> /\ pushed = <<>> /\ got = <<>> /\ buttons = {} /\ ws = "unset"
  BY DEF QueueInv, NothingQueued
<1>2. kind' = k /\ UNCHANGED <<inq, pushed, got, buttons, ws>>
  BY DEF Dispatch, inputVars, webVars
<1>3. NoSocketYet'
  BY <1>1, <1>2 DEF Dispatch, NoSocketYet, StartWorker, FirstStage
<1>4. ButtonsDown'
  BY <1>1, <1>2 DEF ButtonsDown, Down
<1> QED BY <1>1, <1>2, <1>3, <1>4 DEF QueueInv, QueueTypes, QueueIsRest, GotIsFirst, NothingLost

(* handle_connection: only an instruction of the browser queues input.     *)
LEMMA ConnectingKeepsQueue ==
  ASSUME QueueInv, FramesInv, parser \in ParserState, Start \/ Stop \/ Accept \/ Connecting
  PROVE  QueueInv'
<1>1. ASSUME UNCHANGED <<kind, wpc, inq, pushed, got, buttons, ws>>, cpc' # "loop" \/ cpc' = cpc
      PROVE  QueueInv'
  <2>1. kind = None => cpc # "loop"
    BY DEF QueueInv, NothingQueued
  <2> QED BY <1>1, <2>1, QueueUntouched DEF QueueInv, BackendUp, NoSocketYet
<1>2. CASE Start \/ Stop \/ Accept \/ Handshake \/ ReadFirstFails \/ Leave
  BY <1>1, <1>2 DEF Start, Stop, Accept, Handshake, ReadFirstFails, Leave, clientVars, connVars,
     gatewayVars, inputVars, webVars
<1>3. ASSUME NEW f \in FirstFrames, ReadFirst(f) PROVE QueueInv'
  <2> DEFINE k == ClientFor(Head(Feed(ParserFresh, f).ready).args)
  <2>1. /\ cpc = "first"
        /\ \/ /\ UNCHANGED <<kind, wpc, inq, pushed, got, buttons, ws>>
              /\ cpc' # "loop" \/ cpc' = cpc
           \/ Dispatch(k) /\ k # None
    BY <1>3 DEF ReadFirst, clientVars, connVars, gatewayVars, inputVars, webVars
  <2> HIDE DEF k
  <2>2. kind = None
    BY <2>1 DEF FramesInv, NoClientYet
  <2> QED BY <1>1, <2>1, <2>2, DispatchKeepsQueue
<1>4. CASE \E f \in Frames : ReadFrame(f)
  BY <1>1, <1>4 DEF ReadFrame, webVars
<1> QED BY <1>2, <1>3, <1>4, InstructionKeepsQueue DEF Connecting

(* disconnect() may close the CDP socket.                                  *)
LEMMA LeavingKeepsQueue ==
  ASSUME QueueInv, Leaving
  PROVE  QueueInv'
<1>1. /\ UNCHANGED <<kind, wpc, inq, pushed, got, buttons>> /\ cpc' # "loop"
      /\ ws' = ws \/ ws' = CloseWs(ws)
  BY DEF Leaving, SignalStop, SignalWs, SignalRdp, Join, ReapChrome, CloseFd, ReleaseConn,
     DestroyConn, inputVars, webVars, clientVars, gatewayVars
<1>2. /\ ws' \in {"unset", "self"} => ws' = ws
      /\ ws = "unset" => ws' = "unset"
  BY <1>1 DEF CloseWs
<1>3. NoSocketYet' /\ (BackendUp' => BackendUp)
  BY <1>1, <1>2 DEF QueueInv, NoSocketYet, BackendUp
<1>4. kind = None => ws' = ws
  BY <1>2 DEF QueueInv, NothingQueued
<1> QED BY <1>1, <1>3, <1>4, QueueUntouched

(* The callbacks, the tunnel thread and the rest of the process.           *)
LEMMA OthersKeepQueue ==
  ASSUME QueueInv, FramesInv, HeldInv, Callback \/ Environment \/ Tunnel
  PROVE  QueueInv'
<1>1. CASE Callback \/ BrowserLeaves \/ ReuseFd
  <2>1. UNCHANGED <<kind, wpc, cpc, inq, pushed, got, buttons, ws>>
    BY <1>1 DEF Callback, CallbackEnter, CallbackReturn, BrowserLeaves, ReuseFd, clientVars,
       connVars, inputVars, webVars
  <2>2. kind = None => cpc # "loop"
    BY DEF QueueInv, NothingQueued
  <2> QED BY <2>1, <2>2, QueueUntouched DEF QueueInv, BackendUp, NoSocketYet
<1>2. CASE ReuseWs /\ UNCHANGED <<connVars, gatewayVars>>
  <2>1. UNCHANGED <<kind, wpc, cpc, inq, pushed, got, buttons>> /\ ws = "free" /\ ws' = "other"
    BY <1>2 DEF ReuseWs, connVars, inputVars
  <2>2. kind # None
    BY <2>1 DEF QueueInv, NothingQueued
  <2>3. NoSocketYet' /\ (BackendUp' => BackendUp)
    BY <2>1 DEF QueueInv, NoSocketYet, BackendUp
  <2> QED BY <2>1, <2>2, <2>3, QueueUntouched
<1>3. CASE Tunnel
  <2>1. UNCHANGED <<kind, cpc, inq, pushed, got, buttons, ws>> /\ tpc # None
    BY <1>3 DEF Tunnel, TunnelMoves, TunnelRoute, TunnelOpen, TunnelFails, TunnelCheck, TunnelStart,
       TunnelRelease, TunnelDestroy, clientVars, connVars, inputVars, webVars, None
  <2>2. kind = "tunnel" /\ kind # None
    BY <2>1 DEF FramesInv, TunnelThread, None
  <2> QED BY <2>1, <2>2, QueueUntouched DEF BackendUp, NoSocketYet
<1> QED BY <1>1, <1>2, <1>3 DEF Environment

----------------------------------------------------------------------------
(* Between two frames the parser is never left in the middle of an error.  *)
ParserInv ==
  /\ parser \in ParserState /\ parser.thrown = FALSE
  /\ HasInstruction(parser) => cpc = "loop"

(* A parser that was reset.                                                *)
LEMMA FreshParser ==
  ParserFresh \in ParserState /\ ParserFresh.thrown = FALSE /\ ~ HasInstruction(ParserFresh)
<1>1. Empty \in Texts
  BY TextsAreNoSeparators
<1> QED BY <1>1 DEF ParserFresh, ParserState, HasInstruction

(* The parser keeps its state's type; only the input loop has instructions.*)
LEMMA NextKeepsParserInv ==
  ASSUME ParserInv, [Next]_vars
  PROVE  ParserInv'
<1>1. ASSUME UNCHANGED parser, cpc' = cpc \/ cpc # "loop" PROVE ParserInv'
  BY <1>1 DEF ParserInv
<1>2. CASE Start \/ Stop \/ Accept \/ Environment \/ Leaving \/ Worker \/ Callback \/ Tunnel
  <2>1. UNCHANGED parser /\ (cpc' = cpc \/ cpc # "loop")
    <3>1. CASE Start \/ Stop \/ Accept \/ Environment
      BY <3>1 DEF Start, Stop, Accept, Environment, BrowserLeaves, ReuseFd, connVars, None
    <3>2. CASE Leaving
      BY <3>2 DEF Leaving, SignalStop, SignalWs, SignalRdp, Join, ReapChrome, CloseFd, ReleaseConn,
         DestroyConn
    <3>3. CASE Worker \/ Callback
      BY <3>3 DEF Worker, Callback, CallbackEnter, CallbackReturn, connVars
    <3>4. CASE Tunnel
      BY <3>4 DEF Tunnel, TunnelRoute, TunnelOpen, TunnelFails, TunnelCheck, TunnelStart,
         TunnelRelease, TunnelDestroy, connVars
    <3> QED BY <1>2, <3>1, <3>2, <3>3, <3>4
  <2> QED BY <1>1, <2>1
<1>3. CASE Handshake \/ ReadFirstFails \/ Leave
  <2>1. /\ UNCHANGED parser
        /\ cpc # "loop" \/ ~ HasInstruction(parser)
    BY <1>3 DEF Handshake, ReadFirstFails, Leave
  <2> QED BY <2>1 DEF ParserInv
<1>4. ASSUME NEW f \in FirstFrames, ReadFirst(f) PROVE ParserInv'
  <2>1. cpc = "first" /\ (parser' = parser \/ (parser' = ParserFresh /\ cpc' = "loop"))
    BY <1>4 DEF ReadFirst, Dispatch, connVars
  <2> QED BY <2>1, FreshParser DEF ParserInv
<1>5. ASSUME NEW f \in Frames, ReadFrame(f) PROVE ParserInv'
  <2>1. cpc' = "loop" /\ parser' = AfterFeed(Feed(parser, f))
    BY <1>5 DEF ReadFrame
  <2>2. f \in Seq(Texts \cup Separators)
    BY FramesAreTokens
  <2>3. Feed(parser, f) \in ParserState
    BY <2>2, FeedKeepsParserState DEF ParserInv
  <2> DEFINE p == Feed(parser, f)
  <2> HIDE DEF p
  <2>4. AfterFeed(p) \in ParserState /\ AfterFeed(p).thrown = FALSE
    BY <2>3, FreshParser DEF AfterFeed, ParserState, p
  <2> QED BY <2>1, <2>4 DEF ParserInv, p
<1>6. CASE HandleInstruction
  <2>1. cpc' = "loop" /\ parser' = NextInstruction(parser) /\ parser.ready # <<>>
    BY <1>6 DEF HandleInstruction, HasInstruction
  <2>2. Tail(parser.ready) \in Seq(Instructions)
    BY <2>1 DEF ParserInv, ParserState
  <2>3. NextInstruction(parser) \in ParserState /\ NextInstruction(parser).thrown = FALSE
    BY <2>2 DEF ParserInv, ParserState, NextInstruction
  <2> QED BY <2>1, <2>3 DEF ParserInv
<1>7. CASE UNCHANGED vars
  BY <1>1, <1>7 DEF vars, connVars
<1> QED BY <1>2, <1>3, <1>4, <1>5, <1>6, <1>7 DEF Next, Connecting

(* QueueInv holds throughout.                                              *)
THEOREM QueueInvariant == Spec => [](FramesInv /\ HeldInv /\ ParserInv /\ QueueInv)
<1>1. Init => ParserInv /\ QueueInv
  <2> SUFFICES ASSUME Init PROVE ParserInv /\ QueueInv
    OBVIOUS
  <2>1. ParserInv
    BY FreshParser DEF Init, ParserInv
  <2>2. QueueInv
    BY DEF Init, ClientInit, QueueInv, QueueTypes, NothingQueued, QueueIsRest, GotIsFirst,
       NothingLost, NoSocketYet, ButtonsDown, BackendUp, None
  <2> QED BY <2>1, <2>2
<1>2. FramesInv /\ HeldInv /\ ParserInv /\ QueueInv /\ [Next]_vars => ParserInv' /\ QueueInv'
  <2> SUFFICES ASSUME FramesInv, HeldInv, ParserInv, QueueInv, [Next]_vars PROVE QueueInv'
    BY NextKeepsParserInv
  <2>1. CASE Start \/ Stop \/ Accept \/ Connecting
    BY <2>1, ConnectingKeepsQueue DEF ParserInv
  <2>2. CASE Worker
    BY <2>2, WorkerKeepsQueue DEF Worker, connVars
  <2>3. CASE Callback \/ Environment \/ Tunnel
    BY <2>3, OthersKeepQueue
  <2>4. CASE Leaving
    BY <2>4, LeavingKeepsQueue
  <2>5. CASE UNCHANGED vars
    <3>1. UNCHANGED <<kind, wpc, cpc, inq, pushed, got, buttons, ws>>
      BY <2>5 DEF vars, clientVars, connVars, inputVars, webVars
    <3>2. kind = None => cpc # "loop"
      BY DEF QueueInv, NothingQueued
    <3> QED BY <3>1, <3>2, QueueUntouched DEF QueueInv, BackendUp, NoSocketYet
  <2> QED BY <2>1, <2>2, <2>3, <2>4, <2>5 DEF Next
<1> QED BY <1>1, <1>2, HeldInvariant, PTL DEF Spec

(* Whatever is typed while the worker drains the queue, the server gets it *)
(* in that order, and all of it while it is up; a queued release follows   *)
(* every button the browser let go.                                        *)
THEOREM GatewayInputInOrder == Spec => []InputInOrder
<1>1. QueueInv /\ HeldInv => InputInOrder
  <2> SUFFICES ASSUME QueueInv PROVE InputInOrder
    OBVIOUS
  <2>1. /\ DOMAIN got = 1 .. Len(got)
        /\ {Len(got), Len(inq), Len(pushed)} \subseteq Nat
    BY DEF QueueInv, QueueTypes
  <2>2. Len(got) <= Len(pushed)
    BY <2>1 DEF QueueInv, QueueIsRest
  <2>3. \A i \in DOMAIN got : got[i] = pushed[i] \/ (kind = "ssh" /\ got[i] = Cut)
    BY <2>1 DEF QueueInv, GotIsFirst
  <2>4. (kind = "ssh" /\ wpc \in {"io", "read", "write"}) \/ (kind = "web" /\ ws = "self")
          => Len(got) + Len(inq) = Len(pushed)
    BY DEF QueueInv, NothingLost, BackendUp
  <2> QED BY <2>2, <2>3, <2>4 DEF InputInOrder, QueueInv, ButtonsDown
<1> QED BY QueueInvariant, <1>1, PTL

----------------------------------------------------------------------------
(***************************************************************************)
(* Types.  The stages and what is held are in HeldInv, the parser's state  *)
(* in ParserInv; this is the rest.                                         *)
(***************************************************************************)
ClientTypes ==
  /\ {stop, connected, cdp, abort, exact} \subseteq BOOLEAN
  /\ ws \in {"unset", "self", "eof", "free", "other", "struck"}
  /\ inst \in {"null", "live", "freed"}
  /\ shot \in Screens \cup {<<>>} /\ prev \in Screens \cup {<<>>}
  /\ nextId \in 1 .. MaxWork + 1 /\ framesRead \in 0 .. MaxWork

ConnTypes ==
  /\ cpc \in {None, "handshake", "first", "loop", "d_signal", "d_ws", "join", "reap", "close",
              "release", "destroy", "done"}
  /\ tpc \in {None, "route", "open", "fail", "check", "start", "release", "destroy", "gone"}
  /\ {active, here, running, foreign, alive} \subseteq BOOLEAN
  /\ cb \in {"no", "send", "skip"} /\ (cb # "no" => todo # <<>>)
  /\ fdOwner \in {None, "self", "free", "other"}
  /\ buttons \subseteq Buttons \cup {"up", "down"}

----------------------------------------------------------------------------
(* One more picture, or one more frame.                                    *)
LEMMA WorkStaysBounded ==
  ASSUME ClientTypes, MayWork
  PROVE  nextId + 1 \in 1 .. MaxWork + 1 /\ framesRead + 1 \in 0 .. MaxWork
  BY WorkIsBounded DEF ClientTypes, MayWork

(* The workers.                                                            *)
LEMMA SshKeepsTypes ==
  ASSUME ClientTypes, SshStep
  PROVE  ClientTypes'
<1>1. UNCHANGED <<stop, cdp, abort, exact, ws, inst, shot, prev, nextId, framesRead>>
      /\ connected' \in {TRUE, FALSE, connected}
  BY DEF SshStep, SshSetUp, SshSetUpFails, SshLoop, SshRead, SshWriteDone, SshWrite, SshWriteAgain,
     SshWriteFails, SshEnd, SshTeardown, inputVars, pictureVars, webVars, rdpVars
<1> QED BY <1>1 DEF ClientTypes

(* VNC: pictures up to the bound.                                          *)
LEMMA VncKeepsTypes ==
  ASSUME ClientTypes, VncStep
  PROVE  ClientTypes'
<1>1. /\ UNCHANGED <<stop, cdp, abort, exact, ws, inst, shot, prev, framesRead>>
      /\ connected' \in {TRUE, FALSE, connected}
      /\ nextId' = nextId \/ (MayWork /\ nextId' = nextId + 1)
  BY DEF VncStep, VncNew, VncConnect, VncConnectFails, VncMessage, VncEnd, VncCleanUp, inputVars,
     pictureVars, webVars, rdpVars
<1> QED BY <1>1, WorkStaysBounded DEF ClientTypes

(* RDP: the instance as well.                                              *)
LEMMA RdpKeepsTypes ==
  ASSUME ClientTypes, RdpStep
  PROVE  ClientTypes'
<1>1. /\ UNCHANGED <<stop, cdp, exact, ws, shot, prev, framesRead>>
      /\ connected' \in {TRUE, FALSE, connected} /\ abort' \in {FALSE, abort}
      /\ inst' \in {"null", "live", "freed", inst}
      /\ nextId' = nextId \/ (MayWork /\ nextId' = nextId + 1)
  BY DEF RdpStep, RdpNew, RdpContext, RdpConnect, RdpPaint, RdpLoopEnds, RdpEnd, RdpFree, RdpNull,
     inputVars, pictureVars, webVars, rdpVars
<1> QED BY <1>1, WorkStaysBounded DEF ClientTypes

(* HTTP: only the flag.                                                    *)
LEMMA HttpKeepsTypes ==
  ASSUME ClientTypes, HttpStep
  PROVE  ClientTypes'
<1>1. /\ UNCHANGED <<stop, cdp, abort, exact, ws, inst, shot, prev, nextId, framesRead>>
      /\ connected' \in {FALSE, connected}
  BY DEF HttpStep, HttpInit, HttpInitFails, HttpGivesUp, HttpPerform, HttpCleanUp, inputVars,
     pictureVars, webVars, rdpVars
<1> QED BY <1>1 DEF ClientTypes

(* Web: the screenshots and the socket to Chrome.                          *)
LEMMA WebKeepsTypes ==
  ASSUME ClientTypes, WebStep
  PROVE  ClientTypes'
<1>1. CASE \E new \in Screens, codec \in Codecs : WebShot(new, codec)
  <2>1. PICK new \in Screens, codec \in Codecs : WebShot(new, codec)
    BY <1>1
  <2>2. /\ UNCHANGED <<stop, connected, cdp, abort, ws, inst, framesRead>>
        /\ MayWork /\ nextId' = nextId + 1 /\ shot' = new
    BY <2>1 DEF WebShot, Answered, inputVars, rdpVars
  <2>3. prev' \in {prev, new} /\ exact' \in {TRUE, FALSE, exact}
    <3>1. FlushDelta(new, codec)
      BY <2>1 DEF WebShot
    <3> QED BY <3>1 DEF FlushDelta, Codecs
  <2> QED BY <2>2, <2>3, WorkStaysBounded DEF ClientTypes
<1>2. CASE ~ \E new \in Screens, codec \in Codecs : WebShot(new, codec)
  <2>1. /\ UNCHANGED <<stop, abort, exact, inst, shot, prev, nextId, framesRead>>
        /\ connected' \in {TRUE, FALSE, connected} /\ cdp' \in {TRUE, FALSE, cdp}
        /\ ws' \in {"unset", "self", "eof", "free", "struck", ws}
    BY <1>2 DEF WebStep, WebFork, WebUrl, WebGivesUp, WebConnect, WebEnable, WebEnableStopped,
       WebLoaded, WebNotLoaded, WebStream, WebSend, WebAck, WebCapture, WebNoShot, WebClose,
       Answered, RecvFails, CloseWs, inputVars, pictureVars, webVars, rdpVars
  <2> QED BY <2>1 DEF ClientTypes
<1> QED BY <1>1, <1>2

(* The owner's side of the client's state.                                 *)
LEMMA OthersKeepClientTypes ==
  ASSUME ClientTypes, Start \/ Stop \/ Accept \/ Environment \/ Connecting \/ Leaving \/ Callback \/ Tunnel
  PROVE  ClientTypes'
<1>1. ASSUME UNCHANGED <<exact, shot, prev, nextId>>,
             framesRead' = framesRead \/ (MayWork /\ framesRead' = framesRead + 1),
             stop' \in {TRUE, FALSE, stop}, connected' \in {TRUE, FALSE, connected},
             cdp' \in {FALSE, cdp}, abort' \in {TRUE, abort}, inst' = inst,
             ws' \in {ws, "free", "other", "struck"}
      PROVE  ClientTypes'
  <2>1. /\ stop' \in BOOLEAN /\ connected' \in BOOLEAN /\ cdp' \in BOOLEAN /\ abort' \in BOOLEAN
        /\ exact' \in BOOLEAN
    BY <1>1 DEF ClientTypes
  <2>2. framesRead' \in 0 .. MaxWork /\ nextId' \in 1 .. MaxWork + 1
    BY <1>1, WorkStaysBounded DEF ClientTypes
  <2>3. ws' \in {"unset", "self", "eof", "free", "other", "struck"} /\ inst' \in {"null", "live", "freed"}
        /\ shot' \in Screens \cup {<<>>} /\ prev' \in Screens \cup {<<>>}
    BY <1>1 DEF ClientTypes
  <2> QED BY <2>1, <2>2, <2>3 DEF ClientTypes
<1> USE DEF clientVars, inputVars, pictureVars, webVars, rdpVars
<1>2. CASE Start \/ Stop \/ Accept \/ Environment \/ Callback
  BY <1>1, <1>2 DEF Start, Stop, Accept, Environment, BrowserLeaves, ReuseFd, ReuseWs, Callback,
     CallbackEnter, CallbackReturn
<1>3. CASE Leaving
  BY <1>1, <1>3 DEF Leaving, SignalStop, SignalWs, SignalRdp, Join, ReapChrome, CloseFd,
     ReleaseConn, DestroyConn, CloseWs
<1>4. CASE Tunnel
  BY <1>1, <1>4 DEF Tunnel, TunnelMoves, TunnelRoute, TunnelOpen, TunnelFails, TunnelCheck,
     TunnelStart, TunnelRelease, TunnelDestroy, StartWorker
<1>5. CASE Handshake \/ ReadFirstFails \/ Leave \/ HandleInstruction
  BY <1>1, <1>5 DEF Handshake, ReadFirstFails, Leave, HandleInstruction
<1>6. ASSUME NEW f \in FirstFrames, ReadFirst(f) PROVE ClientTypes'
  <2> DEFINE k == ClientFor(Head(Feed(ParserFresh, f).ready).args)
  <2>1. UNCHANGED clientVars \/ Dispatch(k)
    BY <1>6 DEF ReadFirst
  <2> HIDE DEF k
  <2>2. CASE UNCHANGED clientVars
    BY <1>1, <2>2
  <2>3. CASE Dispatch(k)
    <3>1. /\ UNCHANGED <<exact, shot, prev, nextId, framesRead, cdp, abort, inst, ws>>
          /\ stop' \in {TRUE, FALSE, stop} /\ connected' \in {TRUE, FALSE, connected}
      <4>1. CASE k = "tunnel"
        BY <2>3, <4>1 DEF Dispatch
      <4>2. CASE k # "tunnel"
        <5>1. UNCHANGED <<inputVars, pictureVars, webVars, rdpVars>> /\ StartWorker(k)
          BY <2>3, <4>2 DEF Dispatch
        <5>2. stop' = FALSE /\ connected' \in {TRUE, FALSE}
          <6>1. stop' = FALSE /\ connected' = (k \in {"http", "tunnel"})
            BY <5>1 DEF StartWorker
          <6> DEFINE direct == k \in {"http", "tunnel"}
          <6>2. direct = TRUE \/ direct = FALSE
            <7>1. CASE direct
              BY <7>1
            <7>2. CASE ~direct
              BY <7>2
            <7> QED BY <7>1, <7>2
          <6>3. connected' = direct
            BY <6>1
          <6> HIDE DEF direct
          <6> QED BY <6>1, <6>2, <6>3
        <5> QED BY <5>1, <5>2
      <4> QED BY <4>1, <4>2
    <3> QED BY <1>1, <3>1
  <2> QED BY <2>1, <2>2, <2>3
<1>7. ASSUME NEW f \in Frames, ReadFrame(f) PROVE ClientTypes'
  BY <1>1, <1>7 DEF ReadFrame
<1> QED BY <1>2, <1>3, <1>4, <1>5, <1>6, <1>7 DEF Connecting

(* The threads of the gateway.                                             *)
LEMMA NextKeepsConnTypes ==
  ASSUME ConnTypes, [Next]_vars
  PROVE  ConnTypes'
<1> USE DEF ConnTypes, None
<1>1. CASE Start \/ Stop \/ Accept \/ Environment
  BY <1>1 DEF Start, Stop, Accept, Environment, BrowserLeaves, ReuseFd, ReuseWs, clientVars,
     inputVars, connVars, gatewayVars
<1>2. CASE Worker
  <2>1. UNCHANGED <<cpc, tpc, active, here, running, foreign, alive, cb, fdOwner>>
    BY <1>2 DEF Worker, connVars, gatewayVars
  <2>2. buttons' = buttons /\ todo = <<>>
    BY <1>2 DEF Worker, WorkerStep, SshStep, SshSetUp, SshSetUpFails, SshLoop, SshRead,
       SshWriteDone, SshWrite, SshWriteAgain, SshWriteFails, SshEnd, SshTeardown,
       VncStep, VncNew, VncConnect, VncConnectFails, VncMessage, VncEnd, VncCleanUp,
       RdpStep, RdpNew, RdpContext, RdpConnect, RdpPaint, RdpLoopEnds, RdpEnd, RdpFree, RdpNull,
       HttpStep, HttpInit, HttpInitFails, HttpGivesUp, HttpPerform, HttpCleanUp,
       WebStep, WebFork, WebUrl, WebGivesUp, WebConnect, WebEnable, WebEnableStopped, WebLoaded,
       WebNotLoaded, WebStream, WebSend, WebAck, WebCapture, WebNoShot, WebShot, WebClose,
       Goto, inputVars
  <2> QED BY <2>1, <2>2
<1>3. CASE Callback
  BY <1>3 DEF Callback, CallbackEnter, CallbackReturn, SendWsFrame, connVars, inputVars
<1>4. CASE Leaving
  BY <1>4 DEF Leaving, SignalStop, SignalWs, SignalRdp, Join, ReapChrome, CloseFd, ReleaseConn,
     DestroyConn, clientVars, inputVars, gatewayVars
<1>5. CASE Tunnel
  BY <1>5 DEF Tunnel, TunnelMoves, TunnelRoute, TunnelOpen, TunnelFails, TunnelCheck, TunnelStart,
     TunnelRelease, TunnelDestroy, SendWsFrame, clientVars, inputVars, connVars
<1>6. CASE Handshake \/ ReadFirstFails \/ Leave
  BY <1>6 DEF Handshake, ReadFirstFails, Leave, clientVars, inputVars, gatewayVars
<1>7. ASSUME NEW f \in FirstFrames, ReadFirst(f) PROVE ConnTypes'
  BY <1>7 DEF ReadFirst, Dispatch, SendWsFrame, clientVars, inputVars, connVars, gatewayVars
<1>8. ASSUME NEW f \in Frames, ReadFrame(f) PROVE ConnTypes'
  BY <1>8 DEF ReadFrame, gatewayVars
<1>9. CASE HandleInstruction
  <2>1. \A arg : MaskOf(arg) \subseteq Buttons \cup {"up", "down"}
    BY DEF MaskOf, Buttons
  <2> QED BY <1>9, <2>1 DEF HandleInstruction
<1>10. CASE UNCHANGED vars
  BY <1>10 DEF vars, clientVars, inputVars, connVars, gatewayVars
<1> QED BY <1>1, <1>2, <1>3, <1>4, <1>5, <1>6, <1>7, <1>8, <1>9, <1>10 DEF Next, Connecting

(* The variables have their types, whatever a browser sends.               *)
THEOREM TypesInvariant == Spec => [](ClientTypes /\ ConnTypes)
<1>1. Init => ClientTypes /\ ConnTypes
  <2> SUFFICES ASSUME Init PROVE ClientTypes /\ ConnTypes
    OBVIOUS
  <2>1. ClientTypes
    <3>1. {stop, connected, cdp, abort, exact} \subseteq BOOLEAN
      BY DEF Init, ClientInit
    <3>2. nextId \in 1 .. MaxWork + 1 /\ framesRead \in 0 .. MaxWork
      BY WorkIsBounded DEF Init, ClientInit
    <3> QED BY <3>1, <3>2 DEF Init, ClientInit, ClientTypes
  <2>2. {active, here, running, foreign, alive} \subseteq BOOLEAN
    BY DEF Init
  <2>3. buttons = {} /\ cb = "no" /\ cpc = None /\ tpc = None /\ fdOwner = None
    BY DEF Init, ClientInit
  <2> QED BY <2>1, <2>2, <2>3 DEF ConnTypes
<1>2. ClientTypes /\ ConnTypes /\ [Next]_vars => ClientTypes' /\ ConnTypes'
  <2> SUFFICES ASSUME ClientTypes, ConnTypes, [Next]_vars PROVE ClientTypes'
    BY NextKeepsConnTypes
  <2>1. CASE Worker
    BY <2>1, SshKeepsTypes, VncKeepsTypes, RdpKeepsTypes, WebKeepsTypes, HttpKeepsTypes
       DEF Worker, WorkerStep
  <2>2. CASE UNCHANGED vars
    BY <2>2 DEF vars, clientVars, inputVars, pictureVars, webVars, rdpVars, ClientTypes
  <2> QED BY <2>1, <2>2, OthersKeepClientTypes DEF Next
<1> QED BY <1>1, <1>2, PTL DEF Spec

(* TypeOK holds throughout, whatever a browser sends.                      *)
THEOREM GatewayTypeOK == Spec => []TypeOK
<1>1. HeldInv => kind \in DOMAIN FirstStage \cup {None}
                 /\ held \subseteq {"sock", "session", "channel", "rfb", "framebuffer", "instance",
                                    "context", "gdi", "chrome", "ws", "curl", "curl_fd", "pre_fd"}
  BY DEF HeldInv, OwnStages, HeldBySession, HeldByWeb, HeldByTunnel, FirstStage
<1>2. HeldInv /\ ParserInv /\ ClientTypes /\ ConnTypes => TypeOK
  BY <1>1 DEF TypeOK, ParserInv, ClientTypes, ConnTypes
<1> QED BY <1>2, QueueInvariant, TypesInvariant, PTL DEF Spec

----------------------------------------------------------------------------
(***************************************************************************)
(* Pictures.  What flush_delta sends, laid over the last screenshot, is    *)
(* the new one.                                                            *)
(***************************************************************************)

(* The least element of a set of natural numbers ...                       *)
LEMMA MinIsLeast ==
  ASSUME NEW T, T \subseteq Nat, T # {}
  PROVE  Min(T) \in T /\ \A y \in T : Min(T) <= y
BY LeastNatural DEF Min

(* ... and the greatest, if there is a bound.                              *)
LEMMA MaxIsGreatest ==
  ASSUME NEW T, NEW n \in Nat, T \subseteq 1 .. n, T # {}
  PROVE  Max(T) \in T /\ \A y \in T : Max(T) >= y
<1> DEFINE R == {n - x : x \in T}
<1>1. R \subseteq Nat /\ R # {}
  <2>1. \A x \in T : x \in 1 .. n /\ n - x \in Nat
    OBVIOUS
  <2>2. PICK x \in T : TRUE
    OBVIOUS
  <2>3. n - x \in R
    OBVIOUS
  <2> QED BY <2>1, <2>3
<1>2. \E x \in R : \A y \in R : x <= y
  <2> HIDE DEF R
  <2> QED BY <1>1, LeastNatural
<1>3. PICK x \in T : \A y \in R : n - x <= y
  BY <1>2
<1>4. \A y \in T : n - y \in R
  OBVIOUS
<1>5. \A y \in T : x >= y
  <2> SUFFICES ASSUME NEW y \in T PROVE x >= y
    OBVIOUS
  <2>1. n - x <= n - y
    BY <1>3, <1>4
  <2> QED BY <2>1
<1> QED BY <1>5 DEF Max

(* The bounding rectangle lies on the screen and holds every pixel.        *)
LEMMA BoundingHolds ==
  ASSUME NEW S, S \subseteq Pixels, S # {}
  PROVE  S \subseteq Bounding(S) /\ Bounding(S) \subseteq Pixels
<1> DEFINE rows == {p[1] : p \in S}
           cols == {p[2] : p \in S}
<1>1. rows \subseteq 1 .. Height /\ cols \subseteq 1 .. Width /\ rows # {} /\ cols # {}
  BY DEF Pixels
<1>2. \A p \in S : p = <<p[1], p[2]>> /\ p[1] \in rows /\ p[2] \in cols
  BY DEF Pixels
<1>3. Bounding(S) = (Min(rows) .. Max(rows)) \X (Min(cols) .. Max(cols))
  BY DEF Bounding
<1> HIDE DEF rows, cols
<1>4. Height \in Nat /\ Width \in Nat
  BY GridIsNonEmpty
<1>5. rows \subseteq Nat /\ cols \subseteq Nat
  BY <1>1, <1>4
<1>6. /\ Min(rows) \in rows /\ \A y \in rows : Min(rows) <= y
      /\ Min(cols) \in cols /\ \A y \in cols : Min(cols) <= y
  BY <1>1, <1>5, MinIsLeast
<1>7. /\ Max(rows) \in rows /\ \A y \in rows : Max(rows) >= y
      /\ Max(cols) \in cols /\ \A y \in cols : Max(cols) >= y
  BY <1>1, <1>4, MaxIsGreatest
<1>8. \A y \in rows : y \in Min(rows) .. Max(rows)
  BY <1>1, <1>4, <1>6, <1>7
<1>9. \A y \in cols : y \in Min(cols) .. Max(cols)
  BY <1>1, <1>4, <1>6, <1>7
<1>10. Min(rows) .. Max(rows) \subseteq 1 .. Height /\ Min(cols) .. Max(cols) \subseteq 1 .. Width
  <2>1. /\ Min(rows) \in 1 .. Height /\ Max(rows) \in 1 .. Height
        /\ Min(cols) \in 1 .. Width /\ Max(cols) \in 1 .. Width
    BY <1>1, <1>6, <1>7
  <2>2. Min(rows) .. Max(rows) \subseteq 1 .. Height
    BY <1>4, <2>1
  <2>3. Min(cols) .. Max(cols) \subseteq 1 .. Width
    BY <1>4, <2>1
  <2> QED BY <2>2, <2>3
<1> DEFINE high == Min(rows) .. Max(rows)
           wide == Min(cols) .. Max(cols)
<1> HIDE DEF high, wide
<1>11. S \subseteq high \X wide
  BY <1>2, <1>8, <1>9 DEF high, wide
<1>12. high \X wide \subseteq Pixels
  BY <1>10 DEF high, wide, Pixels
<1> QED BY <1>3, <1>11, <1>12 DEF high, wide

(* The rectangle of the pixels that changed, or the whole screen.          *)
LEMMA DirtyRectHolds ==
  ASSUME NEW old, NEW new, old # <<>> => Changed(old, new) # {}
  PROVE  /\ DirtyRect(old, new) \subseteq Pixels /\ DirtyRect(old, new) # {}
         /\ old = <<>> => DirtyRect(old, new) = Pixels
         /\ old # <<>> => Changed(old, new) \subseteq DirtyRect(old, new)
<1> DEFINE S == Changed(old, new)
<1>1. S \subseteq Pixels
  BY DEF Changed
<1>2. Pixels # {}
  <2>1. <<1, 1>> \in Pixels
    BY GridIsNonEmpty DEF Pixels
  <2> QED BY <2>1
<1>3. CASE old = <<>>
  BY <1>2, <1>3 DEF DirtyRect
<1>4. CASE old # <<>>
  <2>1. S # {}
    BY <1>4
  <2>2. DirtyRect(old, new) \in {Pixels, Bounding(S)}
    BY <1>4 DEF DirtyRect
  <2> HIDE DEF S
  <2>3. S \subseteq Bounding(S) /\ Bounding(S) \subseteq Pixels
    BY <1>1, <2>1, BoundingHolds
  <2>4. S \subseteq DirtyRect(old, new) /\ DirtyRect(old, new) \subseteq Pixels
    BY <1>1, <2>2, <2>3
  <2> QED BY <1>4, <2>1, <2>4 DEF S
<1> QED BY <1>3, <1>4

(* A screenshot is a function on the pixels: two that agree are equal.     *)
LEMMA ScreenshotsAgree ==
  ASSUME NEW old \in Screens, NEW new \in Screens, Changed(old, new) = {}
  PROVE  old = new
<1>1. \A p \in Pixels : old[p] = new[p]
  BY DEF Changed
<1>2. old = [p \in Pixels |-> old[p]] /\ new = [p \in Pixels |-> new[p]]
  BY ScreensFillTheGrid
<1>3. [p \in Pixels |-> old[p]] = [p \in Pixels |-> new[p]]
  BY <1>1
<1> QED BY <1>2, <1>3

(* The picture flush_delta sends turns the last screenshot into this one:  *)
(* the rectangle around what changed, the whole from 75% on, and the first *)
(* one always whole.                                                       *)
THEOREM DeltaRestores ==
  ASSUME NEW old \in Screens \cup {<<>>}, NEW new \in Screens, old # <<>> => Changed(old, new) # {},
         NEW pic, pic = EncodeRect(new, DirtyRect(old, new), TRUE)
  PROVE  pic # <<>> /\ Overlay(old, pic) = new
<1> DEFINE rect == DirtyRect(old, new)
<1>1. /\ rect \subseteq Pixels /\ rect # {}
      /\ old = <<>> => rect = Pixels
      /\ old # <<>> => Changed(old, new) \subseteq rect
  BY DirtyRectHolds
<1>2. pic = new \/ pic = [p \in rect |-> new[p]]
  BY DEF EncodeRect
<1> HIDE DEF rect
<1>3. new = [p \in Pixels |-> new[p]] /\ DOMAIN new = Pixels
  BY ScreensFillTheGrid
<1>4. old # <<>> => old = [p \in Pixels |-> old[p]] /\ DOMAIN old = Pixels
  BY ScreensFillTheGrid
<1>5. DOMAIN <<>> = {}
  OBVIOUS
<1>6. /\ DOMAIN pic \subseteq Pixels /\ DOMAIN pic # {} /\ DOMAIN pic \cup DOMAIN old = Pixels
      /\ \A p \in DOMAIN pic : pic[p] = new[p]
      /\ \A p \in Pixels : p \notin DOMAIN pic => old[p] = new[p]
  <2>1. CASE pic = new
    BY <1>1, <1>3, <1>4, <1>5, <2>1
  <2>2. CASE pic = [p \in rect |-> new[p]]
    <3>1. DOMAIN pic = rect /\ \A p \in rect : pic[p] = new[p]
      BY <2>2
    <3>2. rect \cup DOMAIN old = Pixels
      BY <1>1, <1>4, <1>5
    <3>3. \A p \in Pixels : p \notin rect => old[p] = new[p]
      BY <1>1 DEF Changed
    <3> QED BY <1>1, <3>1, <3>2, <3>3
  <2> QED BY <1>2, <2>1, <2>2
<1>7. Overlay(old, pic) = [p \in Pixels |-> IF p \in DOMAIN pic THEN pic[p] ELSE old[p]]
  BY <1>6 DEF Overlay
<1>8. \A p \in Pixels : (IF p \in DOMAIN pic THEN pic[p] ELSE old[p]) = new[p]
  BY <1>6
<1>9. [p \in Pixels |-> IF p \in DOMAIN pic THEN pic[p] ELSE old[p]] = [p \in Pixels |-> new[p]]
  BY <1>8
<1>10. Overlay(old, pic) = new
  BY <1>3, <1>7, <1>9
<1> QED BY <1>5, <1>6, <1>10

----------------------------------------------------------------------------
(***************************************************************************)
(* The canvas.  While no codec has failed, what the browser shows and the  *)
(* picture still to be sent make up the last screenshot.                   *)
(***************************************************************************)

(* An active session is in the input loop, and has its socket.             *)
InSession ==
  /\ kind # None /\ active => cpc = "loop"
  /\ cpc \in {"handshake", "first", "loop"} => fdOwner = "self"

(* The size is announced before the first picture, which fills the screen. *)
PixelsShown ==
  \/ todo = <<>> /\ view.canvas = prev
  \/ todo = <<SizeInstr>> /\ prev = <<>>
  \/ /\ todo # <<>> /\ todo \in {Latest, Tail(Latest), Tail(Tail(Latest))}
     /\ Head(todo).pic # <<>> /\ Overlay(view.canvas, Head(todo).pic) = prev

NothingSent == prev = <<>> /\ shot = <<>>
CanvasInv ==
  /\ InSession
  /\ kind = None => NothingSent /\ view.canvas = <<>>
  /\ kind = "web" /\ wpc \in {"fork", "url", "ws_connect", "enable", "load"} => NothingSent
  /\ kind = "web" /\ active /\ here /\ exact => prev = shot /\ PixelsShown

(* Steps that leave the pictures alone.                                    *)
LEMMA SilentKeepsCanvas ==
  ASSUME CanvasInv, InSession', UNCHANGED <<kind, wpc, todo, nextId, shot, prev, exact, view>>,
         active' => active, here' => here
  PROVE  CanvasInv'
<1>1. PixelsShown' = PixelsShown /\ NothingSent' = NothingSent
  BY DEF PixelsShown, NothingSent, Latest
<1> QED BY <1>1 DEF CanvasInv

(* The workers that send no screenshot.                                    *)
LEMMA OthersKeepCanvas ==
  ASSUME HeldInv, CanvasInv, SshStep \/ VncStep \/ RdpStep \/ HttpStep,
         UNCHANGED <<connVars, gatewayVars>>
  PROVE  CanvasInv'
<1>1. kind' = kind
  BY DEF SshStep, SshSetUp, SshSetUpFails, SshLoop, SshRead, SshWriteDone, SshWrite,
     SshWriteAgain, SshWriteFails, SshEnd, SshTeardown,
     VncStep, VncNew, VncConnect, VncConnectFails, VncMessage, VncEnd, VncCleanUp,
     RdpStep, RdpNew, RdpContext, RdpConnect, RdpPaint, RdpLoopEnds, RdpEnd, RdpFree, RdpNull,
     HttpStep, HttpInit, HttpInitFails, HttpGivesUp, HttpPerform, HttpCleanUp
<1>2. wpc \in SshStages \cup VncStages \cup RdpStages \cup HttpStages
  <2> USE DEF Goto, SshStages, VncStages, RdpStages, HttpStages
  <2>1. CASE SshStep
    BY <2>1 DEF SshStep, SshSetUp, SshSetUpFails, SshLoop, SshRead, SshWriteDone, SshWrite,
       SshWriteAgain, SshWriteFails, SshEnd, SshTeardown
  <2>2. CASE VncStep
    BY <2>2 DEF VncStep, VncNew, VncConnect, VncConnectFails, VncMessage, VncEnd, VncCleanUp
  <2>3. CASE RdpStep
    BY <2>3 DEF RdpStep, RdpNew, RdpContext, RdpConnect, RdpPaint, RdpLoopEnds, RdpEnd, RdpFree,
       RdpNull
  <2>4. CASE HttpStep
    BY <2>4 DEF HttpStep, HttpInit, HttpInitFails, HttpGivesUp, HttpPerform, HttpCleanUp
  <2> QED BY <2>1, <2>2, <2>3, <2>4
<1>3. kind \notin {None, "web"}
  BY <1>2, StageTellsKind DEF HeldInv, None
<1>4. InSession'
  BY <1>1 DEF CanvasInv, InSession, connVars, gatewayVars
<1> QED BY <1>1, <1>3, <1>4 DEF CanvasInv

(* A screenshot: what is sent turns what the browser shows into it.        *)
LEMMA ShotKeepsCanvas ==
  ASSUME ClientTypes, ShowsInv, CanvasInv, kind = "web", active, here, exact', NEW new \in Screens,
         NEW codec \in Codecs, WebShot(new, codec), UNCHANGED view
  PROVE  prev' = shot' /\ PixelsShown'
<1>1. /\ todo = <<>> /\ nextId' = nextId + 1 /\ shot' = new /\ FlushDelta(new, codec)
      /\ nextId \in Nat \ {0}
  BY DEF WebShot, Goto, ShowsInv
<1>2. codec \in {"ok", "encode"} /\ exact
  BY <1>1 DEF FlushDelta, Codecs
<1>3. prev = shot /\ view.canvas = prev /\ prev \in Screens \cup {<<>>}
  BY <1>1, <1>2 DEF CanvasInv, PixelsShown, ClientTypes
<1>4. CASE prev # <<>> /\ Changed(prev, new) = {}
  <2>1. todo' = <<>> /\ prev' = prev
    BY <1>1, <1>2, <1>4 DEF FlushDelta, NoCalls, Calls
  <2>2. prev = new
    BY <1>3, <1>4, ScreenshotsAgree
  <2> QED BY <1>1, <1>3, <2>1, <2>2 DEF PixelsShown
<1>5. CASE ~ (prev # <<>> /\ Changed(prev, new) = {})
  <2> DEFINE pic == EncodeRect(new, DirtyRect(prev, new), codec = "ok")
  <2>1. todo' = Picture(nextId, pic) /\ prev' = new /\ codec = "ok"
    BY <1>1, <1>2, <1>5 DEF FlushDelta, Calls
  <2>2. pic = EncodeRect(new, DirtyRect(prev, new), TRUE)
    BY <2>1
  <2> HIDE DEF pic
  <2>3. pic # <<>> /\ Overlay(prev, pic) = new
    BY <1>3, <1>5, <2>2, DeltaRestores
  <2>4. todo' # <<>> /\ Head(todo') = Instr("img", nextId, pic)
    BY <2>1, PictureTails
  <2>5. Head(todo').pic = pic
    BY <2>4 DEF Instr
  <2>6. nextId' - 1 = nextId
    BY <1>1
  <2>7. todo' = Latest'
    BY <2>1, <2>5, <2>6 DEF Latest
  <2> QED BY <1>1, <1>3, <2>1, <2>3, <2>4, <2>5, <2>7 DEF PixelsShown
<1> QED BY <1>4, <1>5

(* The web client.                                                         *)
LEMMA WebKeepsCanvas ==
  ASSUME ClientTypes, HeldInv, ShowsInv, CanvasInv, WebStep, UNCHANGED <<connVars, gatewayVars>>
  PROVE  CanvasInv'
<1> DEFINE early == {"fork", "url", "ws_connect", "enable", "load"}
<1>1. wpc \in WebStages /\ todo = <<>> /\ kind' = kind
  BY DEF WebStep, WebFork, WebUrl, WebGivesUp, WebConnect, WebEnable, WebEnableStopped, WebLoaded,
     WebNotLoaded, WebStream, WebSend, WebAck, WebCapture, WebNoShot, WebShot, WebClose, Goto,
     WebStages
<1>2. kind = "web"
  BY <1>1, StageTellsKind DEF HeldInv
<1>3. InSession' /\ UNCHANGED <<active, here, view>>
  BY <1>1 DEF CanvasInv, InSession, connVars, gatewayVars
<1>4. CASE \E new \in Screens, codec \in Codecs : WebShot(new, codec)
  <2>1. PICK new \in Screens, codec \in Codecs : WebShot(new, codec)
    BY <1>4
  <2>2. wpc' \notin early
    BY <2>1 DEF WebShot, Goto
  <2>3. active /\ here /\ exact' => prev' = shot' /\ PixelsShown'
    BY <1>2, <1>3, <2>1, ShotKeepsCanvas
  <2> QED BY <1>1, <1>2, <1>3, <2>2, <2>3 DEF CanvasInv, None
<1>5. CASE ~ \E new \in Screens, codec \in Codecs : WebShot(new, codec)
  <2>1. UNCHANGED <<prev, shot, exact>> /\ (wpc' \in early => wpc \in early)
    BY <1>5 DEF WebStep, WebFork, WebUrl, WebGivesUp, WebConnect, WebEnable, WebEnableStopped,
       WebLoaded, WebNotLoaded, WebStream, WebSend, WebAck, WebCapture, WebNoShot, WebClose, Goto,
       pictureVars
  <2>2. todo' = <<>> \/ (todo' = <<SizeInstr>> /\ wpc = "load")
    BY <1>1, <1>5 DEF WebStep, WebFork, WebUrl, WebGivesUp, WebConnect, WebEnable, WebEnableStopped,
       WebLoaded, WebNotLoaded, WebStream, WebSend, WebAck, WebCapture, WebNoShot, WebClose, Calls,
       Goto
  <2>3. wpc' \in early => NothingSent'
    BY <1>2, <2>1 DEF CanvasInv, NothingSent
  <2>4. active /\ here /\ exact => prev = shot /\ view.canvas = prev
    BY <1>1, <1>2 DEF CanvasInv, PixelsShown
  <2>5. wpc = "load" => prev = <<>>
    BY <1>2 DEF CanvasInv, NothingSent
  <2>6. active' /\ here' /\ exact' => prev' = shot' /\ PixelsShown'
    BY <1>3, <2>1, <2>2, <2>4, <2>5 DEF PixelsShown
  <2> QED BY <1>1, <1>2, <1>3, <2>3, <2>6 DEF CanvasInv, None
<1> QED BY <1>4, <1>5

(* An instruction the browser sees: only the end of a picture changes the  *)
(* canvas, and the size clears it.                                         *)
LEMMA PixelsAreSeen ==
  ASSUME PictureShows, ViewIsRecord, PixelsShown, todo # <<>>, view' = Apply(view, Head(todo)),
         todo' = Tail(todo), UNCHANGED <<nextId, prev>>
  PROVE  PixelsShown'
<1> DEFINE i == Head(todo)
           pic == i.pic
<1>1. CASE todo = <<SizeInstr>> /\ prev = <<>>
  <2>1. i.op = "size" /\ todo' = <<>>
    BY <1>1 DEF SizeInstr, Instr
  <2>2. view'.canvas = <<>>
    <3>1. view' = Apply(view, i)
      OBVIOUS
    <3> HIDE DEF i
    <3> QED BY <2>1, <3>1 DEF Apply, ViewIsRecord
  <2> QED BY <1>1, <2>1, <2>2 DEF PixelsShown
<1>2. CASE todo = Latest /\ pic # <<>> /\ Overlay(view.canvas, pic) = prev
  <2>1. i = Instr("img", nextId - 1, pic) /\ Tail(todo) # <<>>
        /\ Head(Tail(todo)) = Instr("blob", nextId - 1, pic)
    BY <1>2, PictureTails DEF Latest
  <2>2. i.op = "img" /\ Head(todo').pic = pic /\ todo' # <<>>
    BY <2>1 DEF Instr
  <2>3. view'.canvas = view.canvas
    <3>1. view' = Apply(view, i)
      OBVIOUS
    <3> HIDE DEF i
    <3> QED BY <2>2, <3>1 DEF Apply, ViewIsRecord
  <2>4. todo' = Tail(Latest')
    BY <1>2, <2>2 DEF Latest
  <2> QED BY <1>2, <2>2, <2>3, <2>4 DEF PixelsShown
<1>3. CASE todo = Tail(Latest) /\ pic # <<>> /\ Overlay(view.canvas, pic) = prev
  <2>1. i = Instr("blob", nextId - 1, pic) /\ Tail(todo) # <<>>
        /\ Head(Tail(todo)) = Instr("end", nextId - 1, pic)
    BY <1>3, PictureTails DEF Latest
  <2>2. i.op = "blob" /\ Head(todo').pic = pic /\ todo' # <<>>
    BY <2>1 DEF Instr
  <2>3. view'.canvas = view.canvas
    <3>1. view' = Apply(view, i)
      OBVIOUS
    <3> HIDE DEF i
    <3> QED BY <2>2, <3>1 DEF Apply, ViewIsRecord
  <2>4. todo' = Tail(Tail(Latest'))
    BY <1>3, <2>2 DEF Latest
  <2> QED BY <1>3, <2>2, <2>3, <2>4 DEF PixelsShown
<1>4. CASE todo = Tail(Tail(Latest)) /\ pic # <<>> /\ Overlay(view.canvas, pic) = prev
  <2>1. i = Instr("end", nextId - 1, pic) /\ Tail(todo) = <<>>
    BY <1>4, PictureTails DEF Latest
  <2>2. i.op = "end" /\ i.id = nextId - 1 /\ todo' = <<>>
    BY <2>1 DEF Instr
  <2>3. view.open = nextId - 1
    <3>1. i.op # "size" /\ i.op # "img"
      BY <2>2
    <3>2. todo # <<SizeInstr>>
      BY <3>1 DEF SizeInstr, Instr
    <3>3. todo # Latest
      <4>1. SUFFICES ASSUME todo = Latest PROVE FALSE
        OBVIOUS
      <4>2. i.op = "img"
        BY <4>1, PictureTails DEF Latest, Instr
      <4> QED BY <3>1, <4>2
    <3> QED BY <3>2, <3>3 DEF PictureShows
  <2>4. view'.canvas = Overlay(view.canvas, pic)
    <3>1. view' = Apply(view, i)
      OBVIOUS
    <3>2. i.op = "end" /\ i.id = view.open /\ i.pic # <<>>
      BY <1>4, <2>2, <2>3
    <3> HIDE DEF i
    <3> QED BY <3>1, <3>2 DEF Apply, ViewIsRecord
  <2> QED BY <1>4, <2>2, <2>4 DEF PixelsShown
<1> QED BY <1>1, <1>2, <1>3, <1>4 DEF PixelsShown

(* A callback sends the next instruction, or drops it if nobody watches.   *)
LEMMA CallbackKeepsCanvas ==
  ASSUME FramesInv, HeldInv, ShowsInv, CanvasInv, Callback
  PROVE  CanvasInv'
<1>1. /\ UNCHANGED <<kind, wpc, nextId, shot, prev, exact, cpc, active, here, fdOwner>>
      /\ todo # <<>>
  BY DEF Callback, CallbackEnter, CallbackReturn, pictureVars, connVars, ShowsInv, CallbacksFirst
<1>2. kind # None
  BY <1>1 DEF HeldInv, OwnStages, ShowsInv, CallbacksFirst
<1>3. InSession' /\ NothingSent' = NothingSent
  BY <1>1 DEF CanvasInv, InSession, NothingSent
<1>4. ASSUME kind = "web", active, here, exact PROVE PixelsShown'
  <2>1. PixelsShown /\ fdOwner = "self"
    BY <1>4 DEF CanvasInv, InSession, None
  <2>2. ~OthersReleased
    BY <1>1, <1>4, ReleasedAfterCallbacks
  <2>3. PictureShows /\ ViewIsRecord
    BY <1>4, <2>1 DEF ShowsInv, Watching
  <2>4. CASE CallbackEnter
    BY <1>1, <2>1, <2>2, <2>4 DEF CallbackEnter, PixelsShown, Latest
  <2>5. CASE CallbackReturn
    <3>1. cb = "send"
      BY <1>4, <2>5 DEF CallbackReturn, ShowsInv, CallbacksFirst
    <3>2. view' = Apply(view, Head(todo)) /\ todo' = Tail(todo)
      BY <1>4, <2>1, <2>2, <2>5, <3>1 DEF CallbackReturn, SendWsFrame
    <3> QED BY <1>1, <2>1, <2>3, <3>2, PixelsAreSeen
  <2> QED BY <2>4, <2>5 DEF Callback
<1> QED BY <1>1, <1>2, <1>3, <1>4 DEF CanvasInv

(* The browser, the sockets given a closed number, and stop().             *)
LEMMA WorldKeepsCanvas ==
  ASSUME CanvasInv, Start \/ Stop \/ Environment
  PROVE  CanvasInv'
<1>1. /\ UNCHANGED <<kind, wpc, todo, nextId, shot, prev, exact, view, cpc, active>>
      /\ here' => here
      /\ fdOwner' = fdOwner \/ (fdOwner = "free" /\ fdOwner' = "other")
  BY DEF Start, Stop, Environment, BrowserLeaves, ReuseFd, ReuseWs, clientVars, pictureVars,
     connVars, gatewayVars
<1>2. InSession'
  BY <1>1 DEF CanvasInv, InSession
<1> QED BY <1>1, <1>2, SilentKeepsCanvas

(* connect(): nothing has been sent, nothing is shown.                     *)
LEMMA DispatchKeepsCanvas ==
  ASSUME FramesInv, CanvasInv, NEW k, cpc = "first", Dispatch(k)
  PROVE  CanvasInv'
<1>1. kind = None /\ todo = <<>>
  BY DEF FramesInv, NoClientYet, WorkerIdle
<1>2. /\ UNCHANGED <<todo, shot, prev, exact, view, active, here, fdOwner>>
      /\ cpc' = "loop" /\ kind' = k
  BY DEF Dispatch, pictureVars
<1>3. InSession' /\ NothingSent /\ view.canvas = <<>>
  BY <1>1, <1>2 DEF CanvasInv, InSession
<1>4. NothingSent' /\ prev' = shot' /\ view'.canvas = <<>> /\ todo' = <<>>
  BY <1>1, <1>2, <1>3 DEF NothingSent
<1>5. PixelsShown'
  BY <1>4 DEF PixelsShown, NothingSent
<1> QED BY <1>3, <1>4, <1>5 DEF CanvasInv

(* handle_connection up to the end of the input loop.                      *)
LEMMA ConnectingKeepsCanvas ==
  ASSUME FramesInv, HeldInv, ShowsInv, CanvasInv, Accept \/ Connecting
  PROVE  CanvasInv'
<1> DEFINE Same == UNCHANGED <<kind, wpc, todo, nextId, shot, prev, exact, view>>
<1>1. view' = view
  BY ConnectingKeepsShows
<1> USE DEF clientVars, pictureVars, connVars, gatewayVars
<1>2. CASE Accept \/ Handshake \/ ReadFirstFails
  <2>1. /\ Same /\ UNCHANGED <<active, here>> /\ cpc \in {None, "handshake", "first"}
        /\ \/ cpc' = "handshake" /\ fdOwner' = "self"
           \/ cpc \in {"handshake", "first"} /\ UNCHANGED fdOwner
    BY <1>1, <1>2 DEF Accept, Handshake, ReadFirstFails
  <2>2. kind = None
    BY <2>1 DEF FramesInv, NoClientYet
  <2>3. InSession'
    BY <2>1, <2>2 DEF CanvasInv, InSession
  <2> QED BY <2>1, <2>3, SilentKeepsCanvas
<1>3. ASSUME NEW f \in FirstFrames, ReadFirst(f) PROVE CanvasInv'
  <2> DEFINE k == ClientFor(Head(Feed(ParserFresh, f).ready).args)
  <2>1. cpc = "first"
        /\ \/ Same /\ UNCHANGED <<active, here, fdOwner>> /\ cpc' \in {"close", "first"}
           \/ Dispatch(k)
    BY <1>1, <1>3 DEF ReadFirst
  <2> HIDE DEF k
  <2>2. kind = None
    BY <2>1 DEF FramesInv, NoClientYet
  <2>3. CASE Same /\ UNCHANGED <<active, here, fdOwner>> /\ cpc' \in {"close", "first"}
    <3>1. InSession'
      BY <2>1, <2>2, <2>3 DEF CanvasInv, InSession
    <3> QED BY <2>3, <3>1, SilentKeepsCanvas
  <2> QED BY <2>1, <2>3, DispatchKeepsCanvas
<1>4. CASE HandleInstruction \/ \E f \in Frames : ReadFrame(f)
  <2>1. Same /\ UNCHANGED <<cpc, active, here, fdOwner>>
    BY <1>1, <1>4 DEF ReadFrame, HandleInstruction
  <2>2. InSession'
    BY <2>1 DEF CanvasInv, InSession
  <2> QED BY <2>1, <2>2, SilentKeepsCanvas
<1>5. CASE Leave
  <2>1. Same /\ ~active' /\ cpc' = "d_signal" /\ UNCHANGED here
    BY <1>5 DEF Leave
  <2>2. InSession'
    BY <2>1 DEF InSession
  <2> QED BY <2>1, <2>2, SilentKeepsCanvas
<1> QED BY <1>2, <1>3, <1>4, <1>5 DEF Connecting

(* disconnect(), close(fd) and the return of the connection's thread.      *)
LEMMA LeavingKeepsCanvas ==
  ASSUME ShowsInv, CanvasInv, Leaving
  PROVE  CanvasInv'
<1>1. view' = view
  BY LeavingKeepsShows
<1>2. /\ UNCHANGED <<kind, wpc, todo, nextId, shot, prev, exact, active, here>>
      /\ cpc \notin {"handshake", "first", "loop"} /\ cpc' \notin {"handshake", "first", "loop"}
  BY DEF Leaving, SignalStop, SignalWs, SignalRdp, Join, ReapChrome, CloseFd, ReleaseConn,
     DestroyConn, clientVars, pictureVars, webVars, connVars, gatewayVars
<1>3. InSession'
  BY <1>2 DEF CanvasInv, InSession
<1> QED BY <1>1, <1>2, <1>3, SilentKeepsCanvas

(* The tunnel thread: a connection without pictures.                       *)
LEMMA TunnelKeepsCanvas ==
  ASSUME FramesInv, HeldInv, ShowsInv, CanvasInv, Tunnel
  PROVE  CanvasInv'
<1>1. kind = "tunnel" /\ kind' = kind
  BY TunnelKeepsShows
<1>2. UNCHANGED <<cpc, active, fdOwner>>
  BY DEF Tunnel, TunnelRoute, TunnelOpen, TunnelFails, TunnelCheck, TunnelStart, TunnelRelease,
     TunnelDestroy, connVars
<1>3. InSession'
  BY <1>1, <1>2 DEF CanvasInv, InSession
<1> QED BY <1>1, <1>3 DEF CanvasInv, None

(* CanvasInv holds throughout.                                             *)
THEOREM CanvasInvariant == Spec => [](FramesInv /\ HeldInv /\ ShowsInv /\ CanvasInv)
<1>1. Init => CanvasInv
  BY DEF Init, ClientInit, CanvasInv, InSession, NothingSent, None
<1>2. FramesInv /\ HeldInv /\ ShowsInv /\ ClientTypes /\ CanvasInv /\ [Next]_vars => CanvasInv'
  <2> SUFFICES ASSUME FramesInv, HeldInv, ShowsInv, ClientTypes, CanvasInv, [Next]_vars
               PROVE  CanvasInv'
    OBVIOUS
  <2>1. CASE Start \/ Stop \/ Environment
    BY <2>1, WorldKeepsCanvas
  <2>2. CASE Accept \/ Connecting
    BY <2>2, ConnectingKeepsCanvas
  <2>3. CASE Worker
    BY <2>3, OthersKeepCanvas, WebKeepsCanvas DEF Worker, WorkerStep
  <2>4. CASE Callback
    BY <2>4, CallbackKeepsCanvas
  <2>5. CASE Leaving
    BY <2>5, LeavingKeepsCanvas
  <2>6. CASE Tunnel
    BY <2>6, TunnelKeepsCanvas
  <2>7. CASE UNCHANGED vars
    <3>1. UNCHANGED <<kind, wpc, todo, nextId, shot, prev, exact, view, cpc, active, here, fdOwner>>
      BY <2>7 DEF vars, clientVars, pictureVars, connVars, gatewayVars
    <3>2. InSession'
      BY <3>1 DEF CanvasInv, InSession
    <3> QED BY <3>1, <3>2, SilentKeepsCanvas
  <2> QED BY <2>1, <2>2, <2>3, <2>4, <2>5, <2>6, <2>7 DEF Next
<1> QED BY <1>1, <1>2, ShowsInvariant, TypesInvariant, PTL DEF Spec

(* ScreenIsCurrent: the browser shows the last screenshot, although only   *)
(* what changed is sent.                                                   *)
THEOREM GatewayScreenIsCurrent == Spec => []ScreenIsCurrent
<1>1. CanvasInv => ScreenIsCurrent
  BY DEF CanvasInv, PixelsShown, ScreenIsCurrent, WorkerIdle
<1> QED BY <1>1, CanvasInvariant, PTL
=============================================================================
