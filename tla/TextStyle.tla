------------------------------ MODULE TextStyle ------------------------------
(***************************************************************************)
(* Character attributes of entry/src/main/cpp/terminal.cpp: what CSI Pm m  *)
(* (SGR) makes of the current text style.  A colour is an entry of the     *)
(* predefined table, an entry of the 256-colour table, or red, green, blue.*)
(***************************************************************************)
EXTENDS Integers, Sequences, SequencesExt

CONSTANT IntMax    \* the largest int

ASSUME IntAssumption == IntMax \in Nat

\* A parameter is <<n>>, whatever number n it begins with, or NoNumber.
NoNumber == <<>>

\* sscanf leaves 0 alone when it finds no number, and keeps the low bits of one
\* that is no int.
Low(n) == ((n + IntMax + 1) % (2 * (IntMax + 1))) - (IntMax + 1)
Scanned(param) == IF param = NoNumber THEN 0 ELSE Low(param[1])

Ansi(n) == <<"ansi", n>>
DefaultFore == Ansi(0)    \* black
DefaultBack == Ansi(7)    \* white
term_style == [fore |-> DefaultFore, back |-> DefaultBack, type |-> "regular", blink |-> FALSE]

\* What one attribute that stands for itself changes.
Attribute(style, param) ==
  CASE param \in {0, 10}     -> term_style
    [] param = 1             -> [style EXCEPT !.type = "bold"]
    [] param = 22            -> [style EXCEPT !.type = "regular"]
    [] param \in {5, 6}      -> [style EXCEPT !.blink = TRUE]
    [] param = 25            -> [style EXCEPT !.blink = FALSE]
    [] param \in {7, 27}     -> [style EXCEPT !.fore = style.back, !.back = style.fore]
    [] param \in 30 .. 37    -> [style EXCEPT !.fore = Ansi(param - 30)]
    [] param \in 90 .. 97    -> [style EXCEPT !.fore = Ansi(param - 82)]
    [] param = 39            -> [style EXCEPT !.fore = DefaultFore]
    [] param \in 40 .. 47    -> [style EXCEPT !.back = Ansi(param - 40)]
    [] param \in 100 .. 107  -> [style EXCEPT !.back = Ansi(param - 92)]
    [] param = 49            -> [style EXCEPT !.back = DefaultBack]
    [] OTHER                 -> style

\* A colour goes through uint8_t.
Byte(n) == n % 256

\* How many of the parameters after the i-th belong to an extended colour there.
Consumed(params, i) ==
  LET left == Len(params) - i
  IN CASE left = 0                            -> 0
       [] left >= 2 /\ params[i + 1] = <<5>>  -> 2
       [] left >= 4 /\ params[i + 1] = <<2>>  -> 4
       [] OTHER                               -> 1

Target(param) == IF param = 38 THEN "fore" ELSE "back"

\* CSI 38 ; 5 ; n m and CSI 38 ; 2 ; r ; g ; b m, with 48 for the background.
ExtendedColor(style, params, i) ==
  LET byte(k) == Byte(params[i + k][1])
      color == IF Consumed(params, i) = 2 THEN <<"256", byte(2)>>
               ELSE <<"rgb", byte(2), byte(3), byte(4)>>
  IN IF Consumed(params, i) < 2 THEN style
     ELSE [style EXCEPT ![Target(Scanned(params[i]))] = color]

\* std::stoi throws when it finds no number, or one that is no int; nothing
\* catches it.
StoiThrows(param) == param = NoNumber \/ param[1] \notin -IntMax - 1 .. IntMax
Throws(params, i) == \E k \in 1 .. Consumed(params, i) : StoiThrows(params[i + k])

\* Defect: std::stoi for every parameter.
SgrStep_Stoi(params, acc, i) ==
  CASE acc.throws \/ StoiThrows(params[i]) -> [acc EXCEPT !.throws = TRUE]
    [] ~acc.throws /\ acc.skip > 0 -> [acc EXCEPT !.skip = acc.skip - 1]
    [] OTHER -> [acc EXCEPT !.style = Attribute(acc.style, params[i][1])]

\* One more parameter: [style, skip, throws], where skip counts the
\* parameters an extended colour has already read.
SgrStep(params, acc, i) ==
  LET extended == ~acc.throws /\ acc.skip = 0 /\ Scanned(params[i]) \in {38, 48}
  IN CASE acc.throws -> acc
       [] ~acc.throws /\ acc.skip > 0 -> [acc EXCEPT !.skip = acc.skip - 1]
       [] extended /\ Throws(params, i) -> [acc EXCEPT !.throws = TRUE]
       [] extended /\ ~Throws(params, i) ->
            [acc EXCEPT !.style = ExtendedColor(acc.style, params, i),
                        !.skip = Consumed(params, i)]
       [] OTHER -> [acc EXCEPT !.style = Attribute(acc.style, Scanned(params[i]))]

\* All parameters, from the first to the last.
Sgr(style, params) ==
  LET step(acc, i) == SgrStep(params, acc, i)
  IN FoldLeftDomain(step, [style |-> style, skip |-> 0, throws |-> FALSE], params)
=============================================================================
