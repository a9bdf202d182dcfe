----------------------------- MODULE TermParser -----------------------------
(***************************************************************************)
(* The parser of entry/src/main/cpp/terminal.cpp: Parse and HandleCSI, one *)
(* byte at a time, with the UTF-8 decoder and the text style.              *)
(*                                                                         *)
(* What a sequence does to the screen is the business of Terminal; here it *)
(* is recorded in did: a code point for InsertUtf8, a control function     *)
(* with its parameters, a mode, a reply for WriteFull, a text for Copy, a  *)
(* RequestPaste.                                                           *)
(*                                                                         *)
(* The programs write items, each with the bytes it consists of, what they *)
(* mean by it, and whether it asks for a colour with a number that is      *)
(* missing or no int, at which std::stoi throws.  The parser is given them *)
(* byte after byte and keeps its state when a program exits in the middle  *)
(* of an item and the next one is started on the same terminal.            *)
(***************************************************************************)
EXTENDS TextStyle, FiniteSets

CONSTANTS
  Items,        \* [bytes, does, style, throws]: what programs write
  MaxBuffer,    \* no program makes escape_buffer longer than this
  MaxLines      \* a new line is at the latest the item of this number after an exit

VARIABLES
  escape_state, escape_buffer,
  utf8_state, current_utf8,
  current_style, save_style,
  fault,                  \* "none", or "throw" after an exception nobody catches
  item, pos,              \* what is being written, and how much of it has been parsed
  did,                    \* what the parser has done for the item
  wanted,                 \* [now, saved]: the style the programs asked for
  lost,                   \* items begun since a program left one unfinished, up to a new line
  read,                   \* bytes of the UTF-8 sequence begun
  printed                 \* [code, bytes]: the latest multi-byte character

parser == <<escape_state, escape_buffer, utf8_state, current_utf8>>
style == <<current_style, save_style>>
decoder == <<utf8_state, current_utf8, read, printed>>
vars == <<parser, style, fault, item, pos, did, wanted, lost, read, printed>>

\* No character printed yet.
Nothing == [code |-> 0, bytes |-> <<0>>]

\* Nothing is being written.
Silence == [bytes |-> <<>>, does |-> <<>>, style |-> <<>>, throws |-> FALSE]

Init ==
  /\ escape_state = "state_idle" /\ escape_buffer = <<>>
  /\ utf8_state = "state_initial" /\ current_utf8 = 0
  /\ current_style = term_style /\ save_style = term_style
  /\ fault = "none"
  /\ item = Silence /\ pos = 0 /\ did = <<>>
  /\ wanted = [now |-> term_style, saved |-> term_style] /\ lost = 0
  /\ read = <<>> /\ printed = Nothing
-----------------------------------------------------------------------------
(* Bytes                                                                   *)

BEL == 7
BS == 8
HT == 9
LF == 10
CR == 13
ESC == 27
Blank == 32
Hash == 35
Plus == 43
Minus == 45
Semicolon == 59
Greater == 62
Query == 63
Backslash == 92
Letter_c == 99
Letter_h == 104
Letter_l == 108
Letter_m == 109
Letter_n == 110

Printable == 32 .. 126
Digit == 48 .. 57

\* A number below 100 as it is written.
Str(n) == IF n < 10 THEN <<48 + n>> ELSE <<48 + n \div 10, 48 + (n % 10)>>

\* The parts between the semicolons.
SplitString(str) ==
  LET at == [i \in DOMAIN str |-> i]
      ends == <<0>> \o SelectSeq(at, LAMBDA i : str[i] = Semicolon) \o <<Len(str) + 1>>
  IN [k \in 1 .. Len(ends) - 1 |-> SubSeq(str, ends[k] + 1, ends[k + 1] - 1)]

\* The part without the bytes in set it begins with.
Skip(part, set) ==
  LET skipped == {k \in DOMAIN part : \A j \in 1 .. k : part[j] \in set}
  IN SubSeq(part, Cardinality(skipped) + 1, Len(part))

\* sscanf and std::stoi skip blanks, and read a sign and the digits after it.
Number(part) ==
  LET text == Skip(part, {Blank})
      signed == text # <<>> /\ Head(text) \in {Plus, Minus}
      unsigned == IF signed THEN Tail(text) ELSE text
      digits == SubSeq(unsigned, 1, Len(unsigned) - Len(Skip(unsigned, Digit)))
      value == FoldLeft(LAMBDA n, b : 10 * n + b - 48, 0, digits)
  IN IF digits = <<>> THEN NoNumber
     ELSE <<IF signed /\ Head(text) = Minus THEN -value ELSE value>>

\* The control function is complete.
Back == escape_state' = "state_idle"

\* What is done is noted as long as one can say what it was meant to be.
Does(effects) == did' = IF lost = 0 THEN did \o effects ELSE did
-----------------------------------------------------------------------------
(* Control sequences                                                       *)

\* The parameters of CSI Pm m.
Numbers(str) ==
  LET parts == SplitString(str)
  IN [k \in DOMAIN parts |-> Number(parts[k])]

\* CSI Pm m, unless it begins with ">"
SGR ==
  LET result == Sgr(current_style, Numbers(escape_buffer))
  IN /\ current_style' = result.style
     /\ fault' = IF result.throws THEN "throw" ELSE fault
     /\ UNCHANGED save_style

\* What CSI Pm h (on) and CSI Pm l do for one parameter.
Mode(part, on) == IF part = Str(4) THEN <<<<"insert_mode", on>>>> ELSE <<>>

\* The same for CSI ? Pm h and CSI ? Pm l; the cursor is shown either way.
PrivateMode(part, on) ==
  CASE part = Str(3)  -> <<<<"columns", IF on THEN 132 ELSE 80>>>>
    [] part = Str(5)  -> <<<<"reverse_video", on>>>>
    [] part = Str(6)  -> <<<<"origin_mode", on>>>>
    [] part = Str(7)  -> <<<<"enable_wrap", on>>>>
    [] part = Str(25) -> <<<<"show_cursor", TRUE>>>>
    [] OTHER          -> <<>>

\* Defect: only the first of several modes is set.
SetModes_First(str, on) ==
  LET private == str[1] = Query
      parts == SplitString(IF private THEN Tail(str) ELSE str)
  IN IF private THEN PrivateMode(parts[1], on) ELSE Mode(parts[1], on)

SetModes(str, on) ==
  LET private == str[1] = Query
      parts == SplitString(IF private THEN Tail(str) ELSE str)
  IN FlattenSeq([k \in DOMAIN parts |->
       IF private THEN PrivateMode(parts[k], on) ELSE Mode(parts[k], on)])

\* CSI Ps n and CSI Ps c: what is asked for is written to the pty at once.
Report(str, final) ==
  CASE final = Letter_n /\ str = Str(5) -> <<<<"reply", "ok">>>>
    [] final = Letter_n /\ str = Str(6) -> <<<<"reply", "position">>>>
    [] final = Letter_c /\ str \in {<<>>, Str(0)} -> <<<<"reply", "primary">>>>
    [] final = Letter_c /\ str \in {<<Greater>>, <<Greater>> \o Str(0)} ->
         <<<<"reply", "secondary">>>>
    [] OTHER -> <<>>

\* CSI > Pm m, which is not about the style.
ModifyKeys(str) == str # <<>> /\ str[1] = Greater

\* What a control sequence with these parameters does, but for the style.
Effects(str, final) ==
  CASE final = Letter_m -> <<>>
    [] final \in {Letter_n, Letter_c} -> Report(str, final)
    [] final \in {Letter_h, Letter_l} ->
         IF str = <<>> THEN <<>> ELSE SetModes(str, final = Letter_h)
    [] OTHER -> <<<<"csi", str, final>>>>

Final(final) ==
  /\ Does(Effects(escape_buffer, final))
  /\ IF final = Letter_m /\ ~ModifyKeys(escape_buffer) THEN SGR ELSE UNCHANGED <<style, fault>>

HandleCSI(current) ==
  /\ escape_state = "state_csi"
  /\ \/ /\ current \in 64 .. 126
        /\ Final(current)
        /\ Back
        /\ UNCHANGED escape_buffer
     \/ /\ current \in 32 .. 63
        /\ escape_buffer' = Append(escape_buffer, current)
        /\ Does(<<>>)
        /\ UNCHANGED <<escape_state, style, fault>>
     \/ /\ current \notin 32 .. 126
        /\ Back
        /\ Does(<<>>)
        /\ UNCHANGED <<escape_buffer, style, fault>>
  /\ UNCHANGED decoder
-----------------------------------------------------------------------------
(* Escape sequences, OSC and DCS                                           *)

\* ESC A to ESC M: the control functions of the screen; '#' '8' fills it.
ScreenEscapes == {65, 66, 67, 68, 69, 72, 77}
Introducers == {80, 91, 93}
Introduced(input) ==
  CASE input = 91 -> "state_csi"
    [] input = 93 -> "state_osc"
    [] input = 80 -> "state_dcs"

ParseEsc(input) ==
  /\ escape_state = "state_esc"
  /\ \/ /\ escape_buffer = <<>> /\ input \in Introducers
        /\ escape_state' = Introduced(input)
        /\ Does(<<>>)
        /\ UNCHANGED <<escape_buffer, style>>
     \/ /\ escape_buffer = <<>> /\ input \in ScreenEscapes
        /\ Back
        /\ Does(<<<<"esc", input>>>>)
        /\ UNCHANGED <<escape_buffer, style>>
     \/ /\ escape_buffer = <<>> /\ input = 55            \* 7, save cursor
        /\ Back
        /\ save_style' = current_style
        /\ Does(<<<<"esc", input>>>>)
        /\ UNCHANGED <<escape_buffer, current_style>>
     \/ /\ escape_buffer = <<>> /\ input = 56            \* 8, restore cursor
        /\ Back
        /\ current_style' = save_style
        /\ Does(<<<<"esc", input>>>>)
        /\ UNCHANGED <<escape_buffer, save_style>>
     \/ /\ escape_buffer = <<Hash>> /\ input = 56        \* DECALN
        /\ Back
        /\ Does(<<<<"decaln">>>>)
        /\ UNCHANGED <<escape_buffer, style>>
     \/ /\ input \in {Hash, 40, 41}                      \* # ( )
        /\ escape_buffer' = Append(escape_buffer, input)
        /\ Does(<<>>)
        /\ UNCHANGED <<escape_state, style>>
     \/ /\ ~(escape_buffer = <<>> /\ input \in Introducers \cup ScreenEscapes \cup {55, 56})
        /\ ~(escape_buffer = <<Hash>> /\ input = 56)
        /\ input \notin {Hash, 40, 41}
        /\ Back
        /\ Does(<<>>)
        /\ UNCHANGED <<escape_buffer, style>>
  /\ UNCHANGED <<fault, decoder>>

\* ST is ESC \, whose ESC is in the buffer already.
EndsWithEsc == escape_buffer # <<>> /\ Last(escape_buffer) = ESC

Part52c == <<Str(52), <<Letter_c>>>>

\* OSC 52 ; c ; Pt BEL copies Pt, or asks for the pasteboard.
Clipboard(str) ==
  LET parts == SplitString(str)
  IN IF Len(parts) = 3 /\ SubSeq(parts, 1, 2) = Part52c
     THEN IF parts[3] = <<Query>> THEN <<<<"paste">>>> ELSE <<<<"copy", parts[3]>>>>
     ELSE <<>>

\* OSC 10 ; ? ST and OSC 11 ; ? ST ask for the colours; both are answered as
\* the answer to OSC 10.
ColorReport(str) ==
  LET parts == SplitString(Front(str))
  IN CASE parts = <<Str(10), <<Query>>>> -> <<<<"reply", 10, "black">>>>
       [] parts = <<Str(11), <<Query>>>> -> <<<<"reply", 10, "white">>>>
       [] OTHER -> <<>>

ParseOsc(input) ==
  /\ escape_state = "state_osc"
  /\ \/ /\ input = BEL
        /\ Does(Clipboard(escape_buffer))
        /\ Back
        /\ UNCHANGED escape_buffer
     \/ /\ input = Backslash /\ EndsWithEsc
        /\ Does(ColorReport(escape_buffer))
        /\ Back
        /\ UNCHANGED escape_buffer
     \/ /\ input \in Printable \cup {ESC} /\ ~(input = Backslash /\ EndsWithEsc)
        /\ escape_buffer' = Append(escape_buffer, input)
        /\ Does(<<>>)
        /\ UNCHANGED escape_state
     \/ /\ input \notin Printable \cup {ESC, BEL}
        /\ Does(<<>>)
        /\ Back
        /\ UNCHANGED escape_buffer
  /\ UNCHANGED <<style, fault, decoder>>

\* Defect: a byte that is not printable is skipped.
ParseDcs_Skips(input) ==
  /\ escape_state = "state_dcs"
  /\ IF input = Backslash /\ EndsWithEsc
     THEN Back /\ UNCHANGED escape_buffer
     ELSE /\ escape_buffer' = Append(escape_buffer, input)
          /\ UNCHANGED escape_state
  /\ Does(<<>>)
  /\ UNCHANGED <<style, fault, decoder>>

\* DCS is read up to its end and ignored.
ParseDcs(input) ==
  /\ escape_state = "state_dcs"
  /\ IF input \in Printable \cup {ESC} /\ ~(input = Backslash /\ EndsWithEsc)
     THEN /\ escape_buffer' = Append(escape_buffer, input)
          /\ UNCHANGED escape_state
     ELSE Back /\ UNCHANGED escape_buffer
  /\ Does(<<>>)
  /\ UNCHANGED <<style, fault, decoder>>
-----------------------------------------------------------------------------
(* Text                                                                    *)

\* The state a first byte leads to, with what it contributes to the code point.
Lead(input) ==
  CASE input \in 194 .. 223 -> [state |-> "state_2byte_2", bits |-> (input % 32) * 64]
    [] input = 224          -> [state |-> "state_3byte_2_e0", bits |-> 0]
    [] input \in 225 .. 239 -> [state |-> "state_3byte_2_non_e0", bits |-> (input % 16) * 4096]
    [] input = 240          -> [state |-> "state_4byte_2_f0", bits |-> 0]
    [] input \in 241 .. 243 -> [state |-> "state_4byte_2_f1_f3", bits |-> (input % 8) * 262144]
    [] input = 244          -> [state |-> "state_4byte_2_f4", bits |-> 4 * 262144]
Leads == 194 .. 244

\* In each state: the bytes that go on, the weight of their bits, what is next.
Go(low, high, unit, next) == [bytes |-> low .. high, unit |-> unit, next |-> next]

\* Defect: the second byte after 0xe0 may be any continuation byte.
AfterE0_Overlong == Go(128, 191, 64, "state_3byte_3")

AfterE0 == Go(160, 191, 64, "state_3byte_3")

Continuation ==
  [state_2byte_2        |-> Go(128, 191, 1, "state_initial"),
   state_3byte_2_e0     |-> AfterE0,
   state_3byte_2_non_e0 |-> Go(128, 191, 64, "state_3byte_3"),
   state_3byte_3        |-> Go(128, 191, 1, "state_initial"),
   state_4byte_2_f0     |-> Go(144, 191, 4096, "state_4byte_3"),
   state_4byte_2_f1_f3  |-> Go(128, 191, 4096, "state_4byte_3"),
   state_4byte_2_f4     |-> Go(128, 143, 4096, "state_4byte_3"),
   state_4byte_3        |-> Go(128, 191, 64, "state_4byte_4"),
   state_4byte_4        |-> Go(128, 191, 1, "state_initial")]

Controls == {CR, LF, BS, HT}

\* The first byte of a character, or a control character.
ParseInitial(input) ==
  /\ escape_state = "state_idle" /\ utf8_state = "state_initial"
  /\ \/ /\ input \in 32 .. 127
        /\ Does(<<<<"print", input>>>>)
        /\ UNCHANGED <<parser, read, printed>>
     \/ /\ input \in Leads
        /\ utf8_state' = Lead(input).state
        /\ current_utf8' = Lead(input).bits
        /\ read' = <<input>>
        /\ Does(<<>>)
        /\ UNCHANGED <<escape_state, escape_buffer, printed>>
     \/ /\ input \in Controls
        /\ Does(<<<<"control", input>>>>)
        /\ UNCHANGED <<parser, read, printed>>
     \/ /\ input = ESC
        /\ escape_buffer' = <<>>
        /\ escape_state' = "state_esc"
        /\ Does(<<>>)
        /\ UNCHANGED decoder
     \/ /\ input \notin 32 .. 127 \cup Leads \cup Controls \cup {ESC}
        /\ Does(<<>>)
        /\ UNCHANGED <<parser, read, printed>>
  /\ UNCHANGED <<style, fault>>

\* A further byte.  One that does not go on ends the character, and is lost.
ParseContinuation(input) ==
  LET go == Continuation[utf8_state]
      code == current_utf8 + (input % 64) * go.unit
  IN /\ escape_state = "state_idle" /\ utf8_state # "state_initial"
     /\ \/ /\ input \in go.bytes /\ go.next # "state_initial"
           /\ current_utf8' = code /\ utf8_state' = go.next
           /\ read' = Append(read, input)
           /\ Does(<<>>)
           /\ UNCHANGED printed
        \/ /\ input \in go.bytes /\ go.next = "state_initial"
           /\ current_utf8' = code /\ utf8_state' = "state_initial"
           /\ read' = <<>>
           /\ printed' = [code |-> code, bytes |-> Append(read, input)]
           /\ Does(<<<<"print", code>>>>)
        \/ /\ input \notin go.bytes
           /\ utf8_state' = "state_initial"
           /\ read' = <<>>
           /\ Does(<<>>)
           /\ UNCHANGED <<current_utf8, printed>>
     /\ UNCHANGED <<escape_state, escape_buffer, style, fault>>

Parse(input) ==
  \/ ParseEsc(input)
  \/ HandleCSI(input)
  \/ ParseOsc(input)
  \/ ParseDcs(input)
  \/ ParseInitial(input)
  \/ ParseContinuation(input)
-----------------------------------------------------------------------------
(* The programs                                                            *)

Between == pos = Len(item.bytes)

\* One thing an item does to the style, as its writer understands it.
Ask(styles, s) ==
  CASE s[1] = "reset"   -> [styles EXCEPT !.now = term_style]
    [] s[1] = "swap"    -> [styles EXCEPT !.now.fore = styles.now.back, !.now.back = styles.now.fore]
    [] s[1] = "save"    -> [styles EXCEPT !.saved = styles.now]
    [] s[1] = "restore" -> [styles EXCEPT !.now = styles.saved]
    [] OTHER            -> [styles EXCEPT !.now[s[1]] = s[2]]

\* Whatever the parser was in, it is at rest after a new line.
Resync == item.bytes # <<>> /\ Last(item.bytes) = LF

\* A program begins to write an item.
Write ==
  /\ Between /\ fault = "none"
  /\ item' \in IF lost < MaxLines \/ Resync THEN Items ELSE {i \in Items : Last(i.bytes) = LF}
  /\ pos' = 0 /\ did' = <<>> /\ printed' = Nothing
  /\ lost' = IF lost = 0 \/ Resync THEN 0 ELSE lost + 1
  /\ LET now == IF lost = 0 THEN wanted ELSE [now |-> current_style, saved |-> save_style]
     IN wanted' = IF lost' = 0 THEN FoldLeft(Ask, now, item'.style) ELSE wanted
  /\ UNCHANGED <<parser, style, fault, read>>

\* The worker parses the next byte.
ParseNext ==
  /\ ~Between /\ fault = "none"
  /\ Parse(item.bytes[pos + 1])
  /\ Len(escape_buffer') <= MaxBuffer
  /\ pos' = pos + 1
  /\ UNCHANGED <<item, wanted, lost>>

\* The program exits with an item half written, and the next one is started:
\* the notice goes to the screen without the parser.
ProgramExit ==
  /\ ~Between /\ pos > 0 /\ fault = "none" /\ lost < MaxLines
  /\ lost' = lost + 1
  /\ item' = Silence /\ pos' = 0 /\ did' = <<>>
  /\ UNCHANGED <<parser, style, fault, wanted, read, printed>>

Next == Write \/ ParseNext \/ ProgramExit

Spec == Init /\ [][Next]_vars
-----------------------------------------------------------------------------
(* Properties                                                              *)

\* Every item a program writes does what it means and nothing else, wherever
\* read() cuts it, and leaves the parser ready for the next one; its style is the
\* one the programs asked for, and it did not ask for a colour std::stoi throws at.
\* A program that exits in the middle of an item spoils this for the next one up to
\* its first new line, and no further.
Understood ==
  lost = 0 /\ Between /\ fault = "none" =>
    /\ did = item.does /\ ~item.throws
    /\ escape_state = "state_idle" /\ utf8_state = "state_initial"
    /\ [now |-> current_style, saved |-> save_style] = wanted

\* The encoding of a code point, by RFC 3629: six bits in each further byte.
Above(code, unit) == code \div unit
Further(code) == 128 + (code % 64)
Encode(code) ==
  CASE code < 128 -> <<code>>
    [] 127 < code /\ code < 2048 -> <<192 + Above(code, 64), Further(code)>>
    [] 2047 < code /\ code < 65536 ->
         <<224 + Above(code, 4096), Further(Above(code, 64)), Further(code)>>
    [] OTHER ->
         <<240 + Above(code, 262144), Further(Above(code, 4096)), Further(Above(code, 64)), Further(code)>>

\* A character is printed only for its own encoding, the shortest one, and no code
\* point lies beyond those that exist, also when the pieces of what two programs
\* wrote come together.
ShortestForm == printed.bytes = Encode(printed.code) /\ printed.code <= 1114111

\* The exception that ends the application comes from a colour that was written
\* with a number missing or too large, or from pieces of what two programs wrote;
\* every other number may be missing, and none is read as a colour by mistake.
ThrowsAsWritten == fault = "throw" => item.throws \/ lost > 0

\* A new line ends whatever was left unfinished.
NewLineResyncs ==
  [][ParseNext /\ item.bytes[pos + 1] = LF =>
       escape_state' = "state_idle" /\ utf8_state' = "state_initial"]_vars
=============================================================================
