---------------------------- MODULE MCTermParser ----------------------------
(* The parser with one item of every kind the code tells apart, the first *)
(* and last code points of each length of UTF-8, and colours at which      *)
(* std::stoi throws.  Two control functions are left out, to which a       *)
(* comment in the code gives another meaning than the code: CSI ? 25 l     *)
(* ("Hide cursor", terminal.cpp:672) and OSC 11 ; ? ("send OSI 11",        *)
(* terminal.cpp:999).                                                      *)
EXTENDS TermParser

Item(bytes, does, sets) == [bytes |-> bytes, does |-> does, style |-> sets, throws |-> FALSE]
Throwing(bytes) == [bytes |-> bytes, does |-> <<>>, style |-> <<>>, throws |-> TRUE]

Csi(params, final) == <<ESC, 91>> \o params \o <<final>>
Osc(text, end) == <<ESC, 93>> \o text \o end
ST == <<ESC, Backslash>>
S == <<Semicolon>>
A == 65

Text ==
  { Item(<<LF>>, <<<<"control", LF>>>>, <<>>),
    Item(<<A, CR, 127>>, <<<<"print", A>>, <<"control", CR>>, <<"print", 127>>>>, <<>>),
    Item(<<Letter_m>>, <<<<"print", Letter_m>>>>, <<>>) }
Characters ==
  {Item(Encode(c), <<<<"print", c>>>>, <<>>) :
     c \in {128, 2047, 2048, 4096, 65535, 65536, 262144, 1114111}}
\* Not UTF-8: a first byte that cannot be, a long form, beyond the last code point.
Malformed ==
  {Item(b, <<>>, <<>>) : b \in { <<193, 191>>, <<224, 159, 191>>, <<240, 143, 191, 191>>,
                                 <<244, 144, 128, 128>>, <<245>>, <<191>> }}
Escapes ==
  { Item(<<ESC, 77>>, <<<<"esc", 77>>>>, <<>>),
    Item(<<ESC, 55>>, <<<<"esc", 55>>>>, <<<<"save">>>>),
    Item(<<ESC, 56>>, <<<<"esc", 56>>>>, <<<<"restore">>>>),
    Item(<<ESC, Hash, 56>>, <<<<"decaln">>>>, <<>>),
    Item(<<ESC, 40, 66>>, <<>>, <<>>),
    Item(<<ESC, 61>>, <<>>, <<>>),
    Item(<<ESC, 80, 113>> \o ST, <<>>, <<>>) }
Reports ==
  { Item(Csi(Str(5), Letter_n), <<<<"reply", "ok">>>>, <<>>),
    Item(Csi(Str(6), Letter_n), <<<<"reply", "position">>>>, <<>>),
    Item(Csi(<<>>, Letter_c), <<<<"reply", "primary">>>>, <<>>),
    Item(Csi(<<Greater>>, Letter_c), <<<<"reply", "secondary">>>>, <<>>),
    Item(Osc(Str(10) \o S \o <<Query>>, ST), <<<<"reply", 10, "black">>>>, <<>>) }
Clip ==
  { Item(Osc(Str(52) \o S \o <<Letter_c>> \o S \o <<A>>, <<BEL>>), <<<<"copy", <<A>>>>>>, <<>>),
    Item(Osc(Str(52) \o S \o <<Letter_c>> \o S \o <<Query>>, <<BEL>>), <<<<"paste">>>>, <<>>) }
Modes ==
  { Item(Csi(<<Query>> \o Str(5) \o S \o Str(6), Letter_h),
         <<<<"reverse_video", TRUE>>, <<"origin_mode", TRUE>>>>, <<>>),
    Item(Csi(Str(4), Letter_l), <<<<"insert_mode", FALSE>>>>, <<>>),
    Item(Csi(<<Query>> \o Str(25), Letter_h), <<<<"show_cursor", TRUE>>>>, <<>>),
    Item(Csi(Str(2), A), <<<<"csi", Str(2), A>>>>, <<>>) }
\* Some with signs and blanks, one above IntMax of which sscanf keeps the low bits.
Attributes ==
  { Item(Csi(<<>>, Letter_m), <<>>, <<<<"reset">>>>),
    Item(Csi(Str(20) \o <<48, 48>>, Letter_m), <<>>, <<<<"reset">>>>),
    Item(Csi(<<Minus>> \o Str(5), Letter_m), <<>>, <<>>),
    Item(Csi(<<Blank, Plus>> \o Str(1), Letter_m), <<>>, <<<<"type", "bold">>>>),
    Item(Csi(Str(38) \o S \o Str(5) \o S \o <<Minus>> \o Str(1) \o S \o Str(5), Letter_m), <<>>,
         <<<<"fore", <<"256", 255>>>>, <<"blink", TRUE>>>>),
    Item(Csi(S \o Str(48) \o S \o Str(2) \o S \o Str(1) \o S \o Str(1) \o S \o Str(0) \o S \o Str(7),
             Letter_m), <<>>,
         <<<<"reset">>, <<"back", <<"rgb", 1, 1, 0>>>>, <<"swap">>>>) }
\* A colour without its number, or with one that is no int.
Colorless ==
  { Throwing(Csi(Str(38) \o S, Letter_m)),
    Throwing(Csi(Str(1) \o S \o Str(48) \o S \o Str(5) \o S, Letter_m)),
    Throwing(Csi(Str(38) \o S \o Str(99) \o Str(99), Letter_m)) }

AllItems ==
  UNION {Text, Characters, Malformed, Escapes, Reports, Clip, Modes, Attributes, Colorless}

\* What is left in escape_buffer and current_utf8 while nothing is unfinished is
\* overwritten before it is read, and what was wanted is forgotten once something is
\* lost: states that differ in these only are the same.
View ==
  <<escape_state, utf8_state, style, fault, item, pos, did, lost, read, printed,
    IF lost = 0 THEN wanted ELSE Nothing,
    IF escape_state = "state_idle" THEN <<>> ELSE escape_buffer,
    IF utf8_state = "state_initial" THEN 0 ELSE current_utf8>>
=============================================================================
