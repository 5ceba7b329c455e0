----------------------------- MODULE GuacParser -----------------------------
(***************************************************************************)
(* The incremental Guacamole parser (guac_parser.cpp) as operators on its  *)
(* state.  Input is a sequence of tokens: an element (its length prefix    *)
(* and content together), a separator, or Reject, a byte that              *)
(* process_byte throws at.  A frame may end between any two tokens.        *)
(***************************************************************************)
EXTENDS Integers, Sequences

CONSTANT Texts        \* what an element may hold

Comma == ","
Semi == ";"
Reject == "!"
Empty == ""           \* the element "0."
Separators == {Comma, Semi, Reject}

(* An element is read by its length: a comma in it separates nothing.      *)
ASSUME TextsAreNoSeparators == Empty \in Texts /\ Texts \cap Separators = {}

(* current_ and the ready_ queue; sep: READING_SEP, else READING_LENGTH or *)
(* READING_ELEMENT; thrown: feed() left by an exception, the rest unread.  *)
ParserFresh ==
  [sep |-> FALSE, elem |-> Empty, opcode |-> Empty, args |-> <<>>,
   ready |-> <<>>, thrown |-> FALSE]

Instructions == [opcode : Texts, args : Seq(Texts)]
ParserState ==
  [sep : BOOLEAN, elem : Texts, opcode : Texts, args : Seq(Texts),
   ready : Seq(Instructions), thrown : BOOLEAN]

(* process_byte: the first non-empty element is the opcode, the others are *)
(* arguments; ';' completes the instruction unless it has no opcode.       *)
ProcessToken(p, c) ==
  LET stored == IF p.opcode = Empty
                THEN [p EXCEPT !.opcode = p.elem, !.elem = Empty, !.sep = FALSE]
                ELSE [p EXCEPT !.args = Append(@, p.elem), !.elem = Empty, !.sep = FALSE]
  IN CASE p.thrown -> p
       [] ~p.thrown /\ ~p.sep /\ c \notin Separators ->
            [p EXCEPT !.elem = c, !.sep = TRUE]
       [] ~p.thrown /\ p.sep /\ c = Comma -> stored
       [] ~p.thrown /\ p.sep /\ c = Semi /\ stored.opcode # Empty ->
            [ParserFresh EXCEPT
               !.ready = Append(p.ready, [opcode |-> stored.opcode, args |-> stored.args])]
       [] OTHER -> [p EXCEPT !.thrown = TRUE]

(* feed: the bytes of one frame, in turn.                                  *)
Feed(p, tokens) ==
  LET after[n \in 0 .. Len(tokens)] ==
        IF n = 0 THEN p ELSE ProcessToken(after[n - 1], tokens[n])
  IN after[Len(tokens)]

(* has_instruction and next_instruction.                                   *)
HasInstruction(p) == p.ready # <<>>
NextInstruction(p) == [p EXCEPT !.ready = Tail(@)]

(* serialize: what the frontend sends for an instruction; every element    *)
(* but the opcode follows a comma.                                         *)
Serialize(opcode, args) ==
  [n \in 1 .. 2 * Len(args) + 2 |->
     IF n = 1 THEN opcode
     ELSE IF n % 2 = 1 THEN args[n \div 2]
     ELSE IF n <= 2 * Len(args) THEN Comma ELSE Semi]
=============================================================================
